-------------------------- MODULE SettlementProofs --------------------------
(***************************************************************************)
(* Proofs about Settlement for any number of users, markets, requests and  *)
(* pollers.  Settlement implements Transactions, so that its sessions keep *)
(* the invariant of TransactionsProofs.  What a settlement pays is right   *)
(* because Gamma does not take prices or a winner back: an answer that is  *)
(* still held, a winner column and what a settlement has read of them can  *)
(* be old, but Gamma never contradicts them, but for a market that once    *)
(* had prices without a "1".                                               *)
(***************************************************************************)
EXTENDS Settlement, TransactionsProofs

\* Gamma has not contradicted an answer.
Told(a) ==
    /\ a.says \in Tokens => gamma[a.market] = a.says
    /\ a.says = "split" => /\ gamma[a.market] \notin Undecided
                           /\ a.market \in wasSplit

\* Nor a verdict on a token: a winner wins, a loser is lost unless the market
\* had prices without a "1".
Right(t, verdict) ==
    /\ verdict = "yes" => gamma[MarketOf[t]] = t
    /\ verdict = "no" => /\ gamma[MarketOf[t]] \notin Undecided
                         /\ gamma[MarketOf[t]] = t => MarketOf[t] \in wasSplit

SplitSeen == \A m \in Markets : gamma[m] = "split" => m \in wasSplit

AnswersTrue ==
    /\ \A r \in Requests : lookup[r] # Nothing => Told(lookup[r])
    /\ \A p \in Pollers : polled[p] # Nothing => Told(polled[p])

ColumnsTrue == \A t \in Tokens : Right(t, winner[t])

\* A settlement settles the market of the answer, by the winners it has read.
Settles(x, a) ==
    /\ a # Nothing /\ a.next = "settle"
    /\ x.job.market = a.market
    /\ \A t \in x.job.won \cap Tokens : Right(t, "yes")
    /\ \A t \in x.job.lost \cap Tokens : Right(t, "no")

SettlementsTrue == \A p \in Pollers : Open(p) => Settles(tx[p], polled[p])

\* What was paid for the n shares of a token that were settled.
Fair(t, n, money) ==
    /\ money > 0 => gamma[MarketOf[t]] = t
    /\ n > 0 => gamma[MarketOf[t]] \notin Undecided
    /\ MarketOf[t] \notin wasSplit =>
          money = IF gamma[MarketOf[t]] = t THEN n * ShareValue ELSE 0

Payments == \A u \in Users, t \in Tokens : Fair(t, settled[u][t], paid[u][t])

Truth == SyncTypeOK /\ SplitSeen /\ AnswersTrue /\ ColumnsTrue

SInv == TInv /\ Truth /\ SettlementsTrue /\ Payments

-----------------------------------------------------------------------------
(* The steps of Settlement are steps of Transactions.                      *)

LEMMA MarketsOfTokens ==
  /\ \A t \in Tokens : MarketOf[t] \in Markets
  /\ \A m, t : t \in TokensOf(m) => t \in Tokens /\ MarketOf[t] = m
BY DEF Markets, TokensOf

LEMMA HeldAnswers ==
  ASSUME SyncTypeOK
  PROVE  /\ \A r \in Requests : lookup[r] # Nothing =>
               lookup[r] \in Answers /\ lookup[r].market \in Markets
         /\ \A p \in Pollers : polled[p] # Nothing =>
               polled[p] \in Work /\ polled[p].market \in Markets
<1>1. ASSUME NEW r \in Requests, lookup[r] # Nothing
      PROVE  lookup[r] \in Answers /\ lookup[r].market \in Markets
  <2>1. lookup[r] \in Answers
    BY <1>1 DEF SyncTypeOK
  <2> QED
    BY <2>1 DEF Answers
<1>2. ASSUME NEW p \in Pollers, polled[p] # Nothing
      PROVE  polled[p] \in Work /\ polled[p].market \in Markets
  <2>1. polled[p] \in Work
    BY <1>2 DEF SyncTypeOK
  <2> QED
    BY <2>1 DEF Work
<1> QED
  BY <1>1, <1>2

LEMMA KnownTrading ==
  ASSUME SyncTypeOK, Trading(known)
  PROVE  Trading(Tokens)
<1>1. known \subseteq Tokens
  BY DEF SyncTypeOK
<1>2. \A c \in Clients : TPlace(c, known) => TPlace(c, Tokens)
  BY <1>1 DEF TPlace
<1> QED
  BY <1>2 DEF Trading

\* What SettleMarket reads of the table is one of the readings of Transactions.
LEMMA StoredRead ==
  ASSUME SInv, NEW p \in Pollers, ReadStored(p)
  PROVE  ReadsTokens(p)
<1>1. At(p, "tokens") /\ Open(p)
  BY DEF ReadStored, ReadTokens, At
<1>2. tx[p].job.market = polled[p].market
  BY <1>1 DEF SInv, SettlementsTrue, Settles
<1> DEFINE S == TokensOf(polled[p].market) \cap known
           w == [t \in S |-> winner[t]]
<1>3. S \in SUBSET TokensOf(tx[p].job.market)
  BY <1>2
<1>4. w \in [S -> Verdicts]
  <2>1. \A t \in S : winner[t] \in Verdicts
    BY MarketsOfTokens, SyncAssumption DEF SInv, Truth, SyncTypeOK
  <2> QED
    BY <2>1
<1>5. /\ {t \in S : w[t] = "yes"} = {t \in S : winner[t] = "yes"}
      /\ {t \in S : w[t] = "no"} = {t \in S : winner[t] = "no"}
  OBVIOUS
<1>6. ReadTokens(p, S, winner)
  BY DEF ReadStored
<1> HIDE DEF S, w
<1>7. ReadTokens(p, S, w)
  BY <1>5, <1>6 DEF ReadTokens
<1> QED
  BY <1>1, <1>3, <1>4, <1>7 DEF ReadsTokens

\* A session of the poller works for Transactions; all else happens outside.
LEMMA PollerSteps ==
  ASSUME SInv, NEW p \in Pollers, Poller(p)
  PROVE  TSettle(p) \/ Statement(p) \/ Rollback(p) \/ UNCHANGED tvars
<1>1. CASE \E m \in Markets : Poll(p, m)
  BY <1>1 DEF Poll
<1>2. CASE \E S \in SUBSET Tokens : StorePolled(p, S)
  BY <1>2 DEF StorePolled
<1>3. CASE CheckPositions(p) \/ PollFails(p)
  BY <1>3 DEF CheckPositions, PollFails
<1>4. CASE StartSettling(p)
  <2>1. BeginSettle(p, polled[p].market) /\ polled[p] # Nothing
    BY <1>4 DEF StartSettling, Doing
  <2>2. polled[p].market \in Markets
    BY <2>1, HeldAnswers DEF SInv, Truth
  <2> QED
    BY <2>1, <2>2 DEF TSettle
<1>5. CASE ReadStored(p)
  BY <1>5, StoredRead DEF TSettle
<1>6. CASE Query(p) /\ UNCHANGED sync
  BY <1>6 DEF Statement
<1>7. CASE (Commit(p) \/ Rollback(p)) /\ Drop(p)
  BY <1>7 DEF Statement
<1> QED
  BY <1>1, <1>2, <1>3, <1>4, <1>5, <1>6, <1>7 DEF Poller

LEMMA StepsBelow ==
  ASSUME SInv, [SNext]_svars
  PROVE  [TNext]_tvars
<1>1. CASE Trading(known) /\ UNCHANGED sync
  BY <1>1, KnownTrading DEF SInv, Truth, TNext
<1>2. CASE World
  BY <1>2 DEF World, CloseMarket
<1>3. CASE \E r \in Requests : Request(r)
  BY <1>3 DEF Request, AskToken, StoreAsked
<1>4. CASE \E p \in Pollers : Poller(p)
  BY <1>4, PollerSteps DEF TNext
<1>5. CASE UNCHANGED svars
  BY <1>5 DEF svars
<1> QED
  BY <1>1, <1>2, <1>3, <1>4, <1>5 DEF SNext

-----------------------------------------------------------------------------
(* What a step leaves of the other sessions.                               *)

OnlyOne(s) == \A q \in Sessions \ {s} : tx'[q] = tx[q]

LEMMA BeginOne ==
  ASSUME NEW s, NEW job, NEW todo, Begin(s, job, todo),
         tx = [q \in Sessions |-> tx[q]]
  PROVE  OnlyOne(s)
BY DEF Begin, OnlyOne

\* A statement that goes on leaves the job as it is.
LEMMA ContinueKeeps ==
  ASSUME NEW s \in Sessions, NEW mine, NEW todo, Continue(s, mine, todo),
         tx = [q \in Sessions |-> tx[q]], Shaped(tx[s])
  PROVE  tx'[s].job = tx[s].job /\ OnlyOne(s)
<1>1. PICK x : x = tx[s]
  OBVIOUS
<1>2. PICK a, b, c, d, e, f :
        x = [job |-> a, todo |-> b, mine |-> c, new |-> d, made |-> e, seized |-> f]
  BY <1>1 DEF Shaped
<1> DEFINE z == [job |-> a, todo |-> b, mine |-> mine, new |-> d, made |-> e, seized |-> f]
           v == [job |-> a, todo |-> todo, mine |-> mine, new |-> d, made |-> e, seized |-> f]
<1>3. [x EXCEPT !.mine = mine] = z
  BY <1>2
<1>4. [z EXCEPT !.todo = todo] = v
  OBVIOUS
<1>5. v.job = x.job
  BY <1>2
<1> HIDE DEF z, v
<1>6. tx' = [tx EXCEPT ![s].mine = mine, ![s].todo = todo]
  BY DEF Continue
<1>7. tx' = [q \in Sessions |-> IF q = s THEN v ELSE tx[q]]
  BY <1>1, <1>3, <1>4, <1>6
<1> QED
  BY <1>1, <1>5, <1>7 DEF OnlyOne

LEMMA LeavesKeeps ==
  ASSUME NEW s \in Sessions, NEW mine, NEW todo, NEW new, NEW made, NEW seized,
         NEW x, x = tx[s], Becomes(s, Leaves(x, mine, todo, new, made, seized))
  PROVE  tx'[s].job = x.job /\ OnlyOne(s)
<1>1. PICK y : y = Leaves(x, mine, todo, new, made, seized)
  OBVIOUS
<1>2. y.job = x.job
  BY <1>1, LeavesFields
<1>3. Becomes(s, y)
  BY <1>1
<1> QED
  BY <1>2, <1>3, BecomesTx DEF OnlyOne

LEMMA QueryKeeps ==
  ASSUME TInv, NEW s \in Sessions, Query(s)
  PROVE  tx'[s].job = tx[s].job /\ OnlyOne(s) /\ UNCHANGED <<vars, tables>>
<1> DEFINE Goal == /\ tx'[s].job = tx[s].job /\ OnlyOne(s)
                   /\ UNCHANGED <<vars, tables>>
<1>1. PICK x : x = tx[s]
  OBVIOUS
<1>2. tx = [q \in Sessions |-> tx[q]]
  BY DEF TInv
<1>3. ASSUME Open(s) PROVE Shaped(x)
  BY <1>1, <1>3 DEF TInv, TxOK
<1>4. ASSUME Open(s), NEW mine, NEW todo, Continue(s, mine, todo) PROVE Goal
  BY <1>1, <1>2, <1>3, <1>4, ContinueKeeps DEF Continue
<1>5. CASE Insert(s)
  <2>1. Open(s) /\ UNCHANGED <<vars, tables>>
    BY <1>5 DEF Insert, At
  <2>2. PICK new, mine, todo :
          tx' = [tx EXCEPT ![s].new = new, ![s].mine = mine, ![s].todo = todo]
    BY <1>5 DEF Insert
  <2>3. Becomes(s, Leaves(x, mine, todo, new, x.made, x.seized))
    BY <1>1, <1>2, <1>3, <2>1, <2>2, InsertLeaves
  <2> QED
    BY <1>1, <2>1, <2>3, LeavesKeeps
<1>6. CASE LockOrder(s)
  <2>1. Open(s) /\ UNCHANGED <<vars, tables>>
    BY <1>6 DEF LockOrder, At
  <2>2. PICK mine, made, todo :
          tx' = [tx EXCEPT ![s].mine = mine, ![s].made = made, ![s].todo = todo]
    BY <1>6 DEF LockOrder
  <2>3. Becomes(s, Leaves(x, mine, todo, x.new, made, x.seized))
    BY <1>1, <1>2, <1>3, <2>1, <2>2, LockLeaves
  <2> QED
    BY <1>1, <2>1, <2>3, LeavesKeeps
<1>7. CASE At(s, "pay") /\ \E p \in This(s).ids : Pay(s, p)
  <2>1. Open(s) /\ \E p : Pay(s, p)
    BY <1>7 DEF At
  <2>2. UNCHANGED <<vars, tables>>
    BY <2>1 DEF Pay
  <2>3. PICK todo, seized : tx' = [tx EXCEPT ![s].todo = todo, ![s].seized = seized]
    BY <2>1 DEF Pay
  <2>4. Becomes(s, AfterPay(x, todo, seized))
    BY <1>1, <1>2, <2>3 DEF Becomes, AfterPay
  <2>5. Becomes(s, Leaves(x, x.mine, todo, x.new, x.made, seized))
    BY <1>3, <2>1, <2>4, PayLeaves
  <2> QED
    BY <1>1, <2>2, <2>5, LeavesKeeps
<1>8. CASE \/ AddTo(s) \/ Take(s) \/ ReadPosition(s) \/ Put(s)
           \/ \E i : CancelRow(s, i)
           \/ SelectPositions(s) \/ SeizedAll(s) \/ RefundSide(s) \/ CloseLive(s)
           \/ (\E p : SeizePosition(s, p)) \/ \E z : CreditRow(s, z)
  <2>1. Open(s) /\ \E mine, todo : Continue(s, mine, todo)
    <3>1. CASE AddTo(s) \/ Take(s) \/ Put(s)
      BY <3>1 DEF AddTo, Take, Put, At
    <3>2. CASE ReadPosition(s)
      BY <3>2 DEF ReadPosition, At
    <3>3. CASE \E i : CancelRow(s, i)
      BY <3>3 DEF CancelRow, At
    <3>4. CASE SelectPositions(s) \/ SeizedAll(s) \/ RefundSide(s) \/ CloseLive(s)
      BY <3>4 DEF SelectPositions, SeizedAll, RefundSide, CloseLive, At
    <3>5. CASE (\E p : SeizePosition(s, p)) \/ \E z : CreditRow(s, z)
      BY <3>5 DEF SeizePosition, CreditRow, At
    <3> QED
      BY <1>8, <3>1, <3>2, <3>3, <3>4, <3>5
  <2> QED
    BY <1>4, <2>1
<1> QED
  BY <1>5, <1>6, <1>7, <1>8 DEF Query

LEMMA EndsOne ==
  ASSUME TInv, NEW s \in Sessions, Commit(s) \/ Rollback(s)
  PROVE  OnlyOne(s) /\ ~Open(s)'
BY DEF TInv, Commit, Rollback, OnlyOne, Open


\* Requests and workers leave the settlements alone, and pay nothing.
LEMMA TradingKeeps ==
  ASSUME TInv, NEW T, Trading(T)
  PROVE  /\ \A p \in Pollers : tx'[p] = tx[p]
         /\ settled' = settled /\ paid' = paid
<1>1. tx = [q \in Sessions |-> tx[q]]
  BY DEF TInv
<1>2. ASSUME NEW s \in Clerks, OnlyOne(s) PROVE \A p \in Pollers : tx'[p] = tx[p]
  BY <1>2, SessionsAssumption DEF OnlyOne, Clerks, Sessions
<1>3. CASE \E c \in Clients : TPlace(c, T) \/ TCancel(c)
  <2>1. PICK c \in Clients : TPlace(c, T) \/ TCancel(c)
    BY <1>3
  <2>2. UNCHANGED tables /\ \E job, todo : Begin(c, job, todo)
    <3>1. CASE TPlace(c, T)
      BY <3>1 DEF TPlace, BeginPlace
    <3>2. CASE TCancel(c)
      BY <3>2 DEF TCancel, BeginCancel
    <3> QED
      BY <2>1, <3>1, <3>2
  <2> QED
    BY <1>1, <1>2, <2>2, BeginOne DEF tables, Clerks
<1>4. CASE \E w \in Workers : TTick(w)
  <2>1. PICK w \in Workers : TTick(w)
    BY <1>4
  <2>2. UNCHANGED tables /\ (tx' = tx \/ \E job, todo : Begin(w, job, todo))
    BY <2>1 DEF TTick, BeginGone, BeginFill
  <2> QED
    BY <1>1, <1>2, <2>2, BeginOne DEF tables, Clerks
<1>5. CASE \E t \in Tokens : Workers # {} /\ CloseBook(t) /\ UNCHANGED <<tables, tx>>
  BY <1>5 DEF tables
<1>6. CASE \E s \in Clients \cup Workers : Statement(s) \/ Rollback(s)
  <2>1. PICK s \in Clients \cup Workers : Statement(s) \/ Rollback(s)
    BY <1>6
  <2>2. s \in Sessions /\ s \in Clerks
    BY DEF Sessions, Clerks
  <2>3. CASE Query(s)
    BY <1>2, <2>2, <2>3, QueryKeeps DEF tables
  <2>4. CASE Commit(s)
    BY <1>2, <2>2, <2>4, EndsOne, ClerkPaysNone
  <2>5. CASE Rollback(s)
    BY <1>2, <2>2, <2>5, EndsOne DEF Rollback, tables
  <2> QED
    BY <2>1, <2>3, <2>4, <2>5 DEF Statement
<1> QED
  BY <1>3, <1>4, <1>5, <1>6 DEF Trading

-----------------------------------------------------------------------------
(* Gamma does not take prices or a winner back.                            *)

Onward(m) ==
    /\ wasSplit \subseteq wasSplit'
    /\ gamma'[m] = "split" => m \in wasSplit'
    /\ gamma[m] \in Tokens => gamma'[m] = gamma[m]
    /\ gamma[m] \notin Undecided => gamma'[m] \notin Undecided
    /\ gamma'[m] # gamma[m] /\ m \notin wasSplit' => gamma[m] \in Undecided

LEMMA WorldMoves ==
  ASSUME SyncTypeOK, SplitSeen, World, NEW m \in Markets
  PROVE  Onward(m)
<1>1. PICK n \in Markets : \E says \in {"unpriced", "split"} \cup TokensOf(n) :
                             CloseMarket(n, says)
  BY DEF World
<1>7. PICK says \in {"unpriced", "split"} \cup TokensOf(n) : CloseMarket(n, says)
  BY <1>1
<1>2. /\ Stage(gamma[n]) < Stage(says)
      /\ gamma' = [gamma EXCEPT ![n] = says]
      /\ wasSplit' = IF says = "split" THEN wasSplit \cup {n} ELSE wasSplit
  BY <1>7 DEF CloseMarket
<1>3. gamma \in [Markets -> Says] /\ says \in Says
  BY <1>7, MarketsOfTokens DEF SyncTypeOK, Says, Undecided
<1>4. \A a \in Says : /\ a \in Tokens <=> Stage(a) = 3
                      /\ a = "split" <=> Stage(a) = 2
                      /\ a \in Undecided <=> Stage(a) \in {0, 1}
                      /\ Stage(a) \in 0..3
  BY SyncAssumption DEF Says, Stage, Undecided
<1>5. CASE n # m
  BY <1>2, <1>3, <1>5 DEF SplitSeen, Onward
<1>6. CASE n = m
  <2>1. gamma'[m] = says /\ gamma[m] \in Says
    BY <1>2, <1>3, <1>6
  <2>2. PICK a, b : a = Stage(gamma[m]) /\ b = Stage(says)
    OBVIOUS
  <2>3. a \in 0..3 /\ b \in 0..3 /\ a < b
    BY <1>2, <1>3, <1>4, <1>6, <2>1, <2>2
  <2>4. wasSplit \subseteq wasSplit' /\ (says = "split" => m \in wasSplit')
    BY <1>2, <1>6
  <2>5. gamma[m] \notin Tokens
    BY <1>4, <2>1, <2>2, <2>3
  <2>6. says \in Undecided => gamma[m] \in Undecided
    <3>1. b \in {0, 1} => a \in {0, 1}
      BY <2>3
    <3> QED
      BY <1>3, <1>4, <2>1, <2>2, <3>1
  <2>7. gamma[m] \in Undecided \/ gamma[m] = "split"
    BY <2>1, <2>5 DEF Says
  <2>8. gamma[m] = "split" => m \in wasSplit'
    BY <2>4 DEF SplitSeen
  <2> QED
    BY <2>1, <2>4, <2>5, <2>6, <2>7, <2>8 DEF Onward
<1> QED
  BY <1>5, <1>6

LEMMA GammaMoves ==
  ASSUME SyncTypeOK, SplitSeen, [SNext]_svars, NEW m \in Markets
  PROVE  Onward(m)
<1>1. CASE World
  BY <1>1, WorldMoves
<1>2. CASE gamma' = gamma /\ wasSplit' = wasSplit
  BY <1>2 DEF Onward, SplitSeen
<1>3. CASE \E r \in Requests : Request(r)
  BY <1>2, <1>3 DEF Request, AskToken, StoreAsked
<1>4. CASE \E p \in Pollers : Poller(p)
  BY <1>2, <1>4 DEF Poller, Poll, StorePolled, CheckPositions, StartSettling,
                    ReadStored, PollFails, Drop, sync
<1>5. CASE (Trading(known) /\ UNCHANGED sync) \/ UNCHANGED svars
  BY <1>2, <1>5 DEF svars, sync
<1> QED
  BY <1>1, <1>3, <1>4, <1>5 DEF SNext

\* What is true of a market stays true.
LEMMA RightStays ==
  ASSUME NEW t, NEW verdict, Right(t, verdict), Onward(MarketOf[t]), MarketOf[t] \in Markets,
         t \in Tokens
  PROVE  Right(t, verdict)'
<1>1. PICK m : m = MarketOf[t]
  OBVIOUS
<1>2. verdict = "yes" => gamma'[m] = t
  BY <1>1 DEF Right, Onward
<1>3. verdict = "no" => gamma'[m] \notin Undecided
  BY <1>1 DEF Right, Onward
<1>4. verdict = "no" /\ gamma'[m] = t => m \in wasSplit'
  BY <1>1 DEF Right, Onward
<1> QED
  BY <1>1, <1>2, <1>3, <1>4 DEF Right

-----------------------------------------------------------------------------
(* What is known of the outcomes stays true.                               *)

\* A true answer makes the columns it is stored in true.
LEMMA StoreKeeps ==
  ASSUME SyncTypeOK, ColumnsTrue, NEW a, Told(a), a.says \in Says,
         NEW S, S \subseteq TokensOf(a.market), StoreTokens(a, S)
  PROVE  /\ known' \subseteq Tokens
         /\ winner' \in [Tokens -> {"null", "yes", "no"}]
         /\ \A t \in Tokens : Right(t, winner'[t])
<1>1. S \subseteq Tokens /\ \A t \in S : MarketOf[t] = a.market
  BY MarketsOfTokens
<1>2. /\ known' = known \cup S
      /\ winner' = [t \in Tokens |-> IF t \in S THEN WinnerIn(a, t) ELSE winner[t]]
  BY DEF StoreTokens
<1>3. \A t \in Tokens : WinnerIn(a, t) \in {"null", "yes", "no"}
  BY DEF WinnerIn
<1>4. known' \subseteq Tokens /\ winner' \in [Tokens -> {"null", "yes", "no"}]
  BY <1>1, <1>2, <1>3 DEF SyncTypeOK
<1>5. ASSUME NEW t \in Tokens PROVE Right(t, winner'[t])
  <2>1. CASE t \in S
    <3>1. winner'[t] = WinnerIn(a, t) /\ MarketOf[t] = a.market
      BY <1>1, <1>2, <2>1
    <3>2. CASE a.says \in Undecided
      BY <3>1, <3>2 DEF WinnerIn, Right
    <3>3. CASE a.says = "split"
      <4>1. a.says # t /\ a.says \notin Undecided
        BY <3>3, SyncAssumption DEF Undecided
      <4> QED
        BY <3>1, <3>3, <4>1 DEF WinnerIn, Right, Told
    <3>4. CASE a.says \in Tokens
      <4>1. gamma[a.market] = a.says /\ a.says \notin Undecided
        BY <3>4, SyncAssumption DEF Told
      <4> QED
        BY <3>1, <4>1 DEF WinnerIn, Right
    <3> QED
      BY <3>2, <3>3, <3>4 DEF Says
  <2>2. CASE t \notin S
    BY <1>2, <2>2 DEF ColumnsTrue
  <2> QED
    BY <2>1, <2>2
<1> QED
  BY <1>4, <1>5

\* An answer just given is true.
LEMMA GammaTells ==
  ASSUME SplitSeen, NEW a, a.market \in Markets, a.says = gamma[a.market]
  PROVE  Told(a)
BY SyncAssumption DEF Told, SplitSeen, Undecided

\* The table and the answers after a step, judged by Gamma before it.
TableTrue ==
    /\ known' \subseteq Tokens
    /\ winner' \in [Tokens -> {"null", "yes", "no"}]
    /\ \A t \in Tokens : Right(t, winner'[t])

AskedTrue ==
    /\ lookup' \in [Requests -> Answers \cup {Nothing}]
    /\ \A r \in Requests : lookup'[r] # Nothing => Told(lookup'[r])

PolledTrue ==
    /\ polled' \in [Pollers -> Work \cup {Nothing}]
    /\ \A p \in Pollers : polled'[p] # Nothing => Told(polled'[p])

WorldTyped == gamma' \in [Markets -> Says] /\ wasSplit' \subseteq Markets

LEMMA SameTruth ==
  ASSUME Truth
  PROVE  /\ UNCHANGED <<known, winner>> => TableTrue
         /\ UNCHANGED lookup => AskedTrue
         /\ UNCHANGED polled => PolledTrue
         /\ UNCHANGED <<gamma, wasSplit>> => WorldTyped
BY DEF Truth, SyncTypeOK, AnswersTrue, ColumnsTrue, TableTrue, AskedTrue,
       PolledTrue, WorldTyped

LEMMA RequestTruth ==
  ASSUME Truth, NEW r \in Requests, Request(r)
  PROVE  TableTrue /\ AskedTrue /\ PolledTrue /\ WorldTyped
<1>1. SyncTypeOK /\ SplitSeen /\ AnswersTrue /\ ColumnsTrue
  BY DEF Truth
<1>2. CASE \E t \in Tokens : AskToken(r, t)
  <2>1. PICK t \in Tokens : AskToken(r, t)
    BY <1>2
  <2>2. PICK a : a = [market |-> MarketOf[t], says |-> gamma[MarketOf[t]]]
    OBVIOUS
  <2>3. /\ lookup' = [lookup EXCEPT ![r] = a]
        /\ UNCHANGED <<gamma, known, winner, polled, wasSplit>>
    BY <2>1, <2>2 DEF AskToken
  <2>4. a.market \in Markets /\ a.says = gamma[a.market] /\ a.says \in Says
    BY <1>1, <2>2, MarketsOfTokens DEF SyncTypeOK
  <2>5. a \in Answers /\ Told(a)
    BY <1>1, <2>2, <2>4, GammaTells DEF Answers
  <2>6. AskedTrue
    BY <1>1, <2>3, <2>5 DEF SyncTypeOK, AnswersTrue, AskedTrue
  <2> QED
    BY <2>3, <2>6, SameTruth
<1>3. CASE StoreAsked(r)
  <2>1. PICK a : a = lookup[r]
    OBVIOUS
  <2>2. /\ a # Nothing /\ \E S \in SUBSET TokensOf(a.market) : StoreTokens(a, S)
        /\ lookup' = [lookup EXCEPT ![r] = Nothing]
        /\ UNCHANGED <<gamma, polled, wasSplit>>
    BY <1>3, <2>1 DEF StoreAsked
  <2>3. PICK S \in SUBSET TokensOf(a.market) : StoreTokens(a, S)
    BY <2>2
  <2>4. Told(a) /\ a \in Answers /\ a.says \in Says
    BY <1>1, <2>1, <2>2, HeldAnswers DEF AnswersTrue, Answers
  <2>5. TableTrue
    BY <1>1, <2>3, <2>4, StoreKeeps DEF TableTrue
  <2>6. AskedTrue
    BY <1>1, <2>2 DEF SyncTypeOK, AnswersTrue, AskedTrue
  <2> QED
    BY <2>2, <2>5, <2>6, SameTruth
<1> QED
  BY <1>2, <1>3 DEF Request

\* A poller's answer, as it goes on with it or drops it.
LEMMA PolledBecomes ==
  ASSUME SyncTypeOK, AnswersTrue, NEW p \in Pollers, NEW b,
         polled' = [polled EXCEPT ![p] = b],
         b = Nothing \/ (b \in Work /\ Told(b))
  PROVE  PolledTrue
BY DEF SyncTypeOK, AnswersTrue, PolledTrue

LEMMA GoesOnWith ==
  ASSUME SyncTypeOK, AnswersTrue, NEW p \in Pollers, polled[p] # Nothing,
         NEW next \in {"check", "settle"}, polled' = [polled EXCEPT ![p].next = next]
  PROVE  PolledTrue
<1>1. PICK a : a = polled[p]
  OBVIOUS
<1>2. a \in Work /\ Told(a)
  BY <1>1, HeldAnswers DEF AnswersTrue
<1>3. PICK b : b = [a EXCEPT !.next = next]
  OBVIOUS
<1>4. b \in Work /\ b.market = a.market /\ b.says = a.says
  BY <1>2, <1>3 DEF Work
<1>5. Told(b)
  BY <1>2, <1>4 DEF Told
<1>6. polled' = [polled EXCEPT ![p] = b]
  BY <1>1, <1>3 DEF SyncTypeOK
<1> QED
  BY <1>4, <1>5, <1>6, PolledBecomes

LEMMA PollerTruth ==
  ASSUME Truth, NEW p \in Pollers, Poller(p)
  PROVE  TableTrue /\ AskedTrue /\ PolledTrue /\ WorldTyped
<1>1. SyncTypeOK /\ SplitSeen /\ AnswersTrue /\ ColumnsTrue
  BY DEF Truth
<1>2. CASE \E m \in Markets : Poll(p, m)
  <2>1. PICK m \in Markets : Poll(p, m)
    BY <1>2
  <2>2. PICK b : b = [market |-> m, says |-> gamma[m], next |-> "store"]
    OBVIOUS
  <2>3. /\ gamma[m] # "open" /\ polled' = [polled EXCEPT ![p] = b]
        /\ UNCHANGED <<gamma, known, winner, lookup, wasSplit>>
    BY <2>1, <2>2 DEF Poll
  <2>4. b.market \in Markets /\ b.says = gamma[b.market] /\ b.says \in Says \ {"open"}
    BY <1>1, <2>2, <2>3 DEF SyncTypeOK
  <2>5. b \in Work /\ Told(b)
    BY <1>1, <2>2, <2>4, GammaTells DEF Work
  <2> QED
    BY <1>1, <2>3, <2>5, SameTruth, PolledBecomes
<1>3. CASE \E S \in SUBSET Tokens : StorePolled(p, S)
  <2>1. PICK S \in SUBSET Tokens : StorePolled(p, S)
    BY <1>3
  <2>2. PICK a : a = polled[p]
    OBVIOUS
  <2>3. /\ a # Nothing /\ S \subseteq TokensOf(a.market) /\ StoreTokens(a, S)
        /\ polled' = [polled EXCEPT ![p].next = "check"]
        /\ UNCHANGED <<gamma, lookup, wasSplit>>
    BY <2>1, <2>2 DEF StorePolled, Doing
  <2>4. Told(a) /\ a \in Work /\ a.says \in Says
    BY <1>1, <2>2, <2>3, HeldAnswers DEF AnswersTrue, Work
  <2>5. TableTrue
    BY <1>1, <2>3, <2>4, StoreKeeps DEF TableTrue
  <2> QED
    BY <1>1, <2>2, <2>3, <2>5, SameTruth, GoesOnWith
<1>4. CASE Drop(p)
  <2>1. /\ polled' = [polled EXCEPT ![p] = Nothing]
        /\ UNCHANGED <<gamma, known, winner, lookup, wasSplit>>
    BY <1>4 DEF Drop
  <2> QED
    BY <1>1, <2>1, SameTruth, PolledBecomes
<1>5. CASE StartSettling(p)
  <2>1. /\ polled[p] # Nothing /\ polled' = [polled EXCEPT ![p].next = "settle"]
        /\ UNCHANGED <<gamma, known, winner, lookup, wasSplit>>
    BY <1>5 DEF StartSettling, Doing
  <2> QED
    BY <1>1, <2>1, SameTruth, GoesOnWith
<1>6. CASE UNCHANGED sync
  BY <1>6, SameTruth DEF sync
<1> QED
  BY <1>2, <1>3, <1>4, <1>5, <1>6 DEF Poller, CheckPositions, PollFails, ReadStored

LEMMA StepTruth ==
  ASSUME Truth, [SNext]_svars
  PROVE  TableTrue /\ AskedTrue /\ PolledTrue /\ WorldTyped
<1>1. CASE World
  <2>1. PICK m \in Markets : \E says \in {"unpriced", "split"} \cup TokensOf(m) :
                                CloseMarket(m, says)
    BY <1>1 DEF World
  <2>2. PICK says \in {"unpriced", "split"} \cup TokensOf(m) : CloseMarket(m, says)
    BY <2>1
  <2>3. /\ gamma' = [gamma EXCEPT ![m] = says] /\ wasSplit' \in {wasSplit, wasSplit \cup {m}}
        /\ UNCHANGED <<known, winner, lookup, polled>>
    BY <2>2 DEF CloseMarket
  <2>4. says \in Says
    BY <2>2, MarketsOfTokens DEF Says, Undecided
  <2>5. WorldTyped
    BY <2>3, <2>4 DEF Truth, SyncTypeOK, WorldTyped
  <2> QED
    BY <2>3, <2>5, SameTruth
<1>2. CASE \E r \in Requests : Request(r)
  BY <1>2, RequestTruth
<1>3. CASE \E p \in Pollers : Poller(p)
  BY <1>3, PollerTruth
<1>4. CASE UNCHANGED sync
  BY <1>4, SameTruth DEF sync
<1> QED
  BY <1>1, <1>2, <1>3, <1>4 DEF SNext, svars

LEMMA TruthNext ==
  ASSUME Truth, [SNext]_svars
  PROVE  Truth'
<1>1. \A m \in Markets : Onward(m)
  BY GammaMoves DEF Truth
<1>2. TableTrue /\ AskedTrue /\ PolledTrue /\ WorldTyped
  BY StepTruth
<1>3. SyncTypeOK'
  BY <1>2 DEF SyncTypeOK, TableTrue, AskedTrue, PolledTrue, WorldTyped
<1>4. SplitSeen'
  BY <1>1 DEF SplitSeen, Onward
<1>5. ASSUME NEW a, Told(a), a.market \in Markets
      PROVE  /\ a.says \in Tokens => gamma'[a.market] = a.says
             /\ a.says = "split" => /\ gamma'[a.market] \notin Undecided
                                    /\ a.market \in wasSplit'
  BY <1>1, <1>5 DEF Told, Onward
<1>6. AnswersTrue'
  <2>1. ASSUME NEW r \in Requests, lookup'[r] # Nothing PROVE Told(lookup[r])'
    <3>1. Told(lookup'[r]) /\ lookup'[r] \in Answers
      BY <1>2, <2>1 DEF AskedTrue
    <3>2. lookup'[r].market \in Markets
      BY <3>1 DEF Answers
    <3> QED
      BY <1>5, <3>1, <3>2 DEF Told
  <2>2. ASSUME NEW p \in Pollers, polled'[p] # Nothing PROVE Told(polled[p])'
    <3>1. Told(polled'[p]) /\ polled'[p] \in Work
      BY <1>2, <2>2 DEF PolledTrue
    <3>2. polled'[p].market \in Markets
      BY <3>1 DEF Work
    <3> QED
      BY <1>5, <3>1, <3>2 DEF Told
  <2> QED
    BY <2>1, <2>2 DEF AnswersTrue
<1>7. ColumnsTrue'
  <2>1. ASSUME NEW t \in Tokens PROVE Right(t, winner[t])'
    <3>1. PICK v : v = winner'[t]
      OBVIOUS
    <3>2. Right(t, v) /\ MarketOf[t] \in Markets
      BY <1>2, <3>1, MarketsOfTokens DEF TableTrue
    <3>3. Right(t, v)'
      BY <1>1, <3>2, RightStays
    <3> QED
      BY <3>1, <3>3 DEF Right
  <2> QED
    BY <2>1 DEF ColumnsTrue
<1> QED
  BY <1>3, <1>4, <1>6, <1>7 DEF Truth

-----------------------------------------------------------------------------
(* The settlements.                                                        *)

SettlementsNow == \A p \in Pollers : Open(p)' => Settles(tx'[p], polled'[p])

LEMMA SettlementsStay ==
  ASSUME SInv, UNCHANGED polled, \A p \in Pollers : tx'[p] = tx[p]
  PROVE  SettlementsNow
BY DEF SInv, SettlementsTrue, SettlementsNow, Open

\* A step of one poller leaves what the others do.
LEMMA OneSettles ==
  ASSUME SInv, NEW p \in Pollers, OnlyOne(p),
         \A q \in Pollers \ {p} : polled'[q] = polled[q],
         Open(p)' => Settles(tx'[p], polled'[p])
  PROVE  SettlementsNow
<1> SUFFICES ASSUME NEW q \in Pollers, Open(q)' PROVE Settles(tx'[q], polled'[q])
  BY DEF SettlementsNow
<1>1. CASE q # p
  <2>1. tx'[q] = tx[q] /\ polled'[q] = polled[q]
    BY <1>1 DEF OnlyOne, Sessions
  <2>2. Open(q)
    BY <2>1 DEF Open
  <2> QED
    BY <2>1, <2>2 DEF SInv, SettlementsTrue
<1>2. CASE q = p
  BY <1>2
<1> QED
  BY <1>1, <1>2

LEMMA PollerSettles ==
  ASSUME SInv, NEW p \in Pollers, Poller(p)
  PROVE  SettlementsNow
<1>1. /\ TInv /\ SyncTypeOK /\ polled \in [Pollers -> Work \cup {Nothing}]
      /\ tx = [q \in Sessions |-> tx[q]] /\ p \in Sessions
  BY DEF SInv, Truth, SyncTypeOK, TInv, Sessions
<1>2. Open(p) => polled[p] # Nothing /\ polled[p].next = "settle"
  BY DEF SInv, SettlementsTrue, Settles
<1>3. ASSUME ~Open(p), UNCHANGED tvars, \A q \in Pollers \ {p} : polled'[q] = polled[q]
      PROVE  SettlementsNow
  BY <1>3, OneSettles DEF tvars, OnlyOne, Open
<1>4. CASE \E m \in Markets : Poll(p, m)
  BY <1>1, <1>2, <1>3, <1>4 DEF Poll
<1>5. CASE \E S \in SUBSET Tokens : StorePolled(p, S)
  BY <1>1, <1>2, <1>3, <1>5 DEF StorePolled, Doing
<1>6. CASE CheckPositions(p) \/ PollFails(p)
  BY <1>1, <1>2, <1>3, <1>6 DEF CheckPositions, PollFails, Doing, Drop
<1>7. CASE StartSettling(p)
  <2>1. PICK a : a = polled[p]
    OBVIOUS
  <2>2. /\ a # Nothing /\ polled' = [polled EXCEPT ![p].next = "settle"]
        /\ BeginSettle(p, a.market) /\ ~Open(p)
    BY <1>7, <2>1 DEF StartSettling, Doing, BeginSettle, Begin
  <2>3. PICK job, todo : /\ Begin(p, job, todo)
                         /\ job = [kind |-> "settle", market |-> a.market, S |-> {},
                                   won |-> {}, lost |-> {}]
    BY <2>2 DEF BeginSettle
  <2>4. /\ tx'[p].job = job /\ OnlyOne(p)
    BY <1>1, <2>3, BeginOne DEF Begin
  <2>5. a \in Work
    BY <1>1, <2>1, <2>2, HeldAnswers
  <2>6. PICK b : b = [a EXCEPT !.next = "settle"]
    OBVIOUS
  <2>7. b \in Work /\ b.next = "settle" /\ b.market = a.market
    BY <2>5, <2>6 DEF Work
  <2>8. polled'[p] = b /\ \A q \in Pollers \ {p} : polled'[q] = polled[q]
    BY <1>1, <2>1, <2>2, <2>6
  <2>9. b # Nothing
    BY <2>7, SyncAssumption
  <2>10. Settles(tx'[p], polled'[p])
    BY <2>3, <2>4, <2>7, <2>8, <2>9 DEF Settles
  <2> QED
    BY <2>4, <2>8, <2>10, OneSettles
<1>8. CASE ReadStored(p)
  <2>1. PICK S : S = TokensOf(polled[p].market) \cap known
    OBVIOUS
  <2>2. ReadTokens(p, S, winner) /\ UNCHANGED sync
    BY <1>8, <2>1 DEF ReadStored
  <2>3. PICK x : x = tx[p]
    OBVIOUS
  <2>4. Open(p) /\ Shaped(x) /\ Settles(x, polled[p])
    BY <1>1, <2>2, <2>3 DEF ReadTokens, At, TInv, TxOK, SInv, SettlementsTrue
  <2>5. PICK j, todo : /\ j = [kind |-> "settle", market |-> x.job.market, S |-> S,
                               won |-> {t \in S : winner[t] = "yes"},
                               lost |-> {t \in S : winner[t] = "no"}]
                       /\ tx' = [tx EXCEPT ![p].job = j, ![p].todo = todo]
    BY <2>2, <2>3 DEF ReadTokens
  <2>6. PICK y : y = AfterRead(x, j, todo)
    OBVIOUS
  <2>7. y.job = j
    BY <2>4, <2>6, ReadLeaves
  <2>8. tx'[p] = y /\ OnlyOne(p)
    BY <1>1, <2>3, <2>5, <2>6 DEF AfterRead, OnlyOne
  <2>9. \A t \in Tokens : Right(t, winner[t])
    BY DEF SInv, Truth, ColumnsTrue
  <2>10. /\ \A t \in j.won \cap Tokens : Right(t, "yes")
         /\ \A t \in j.lost \cap Tokens : Right(t, "no")
    BY <2>5, <2>9
  <2>11. j.market = polled[p].market /\ polled[p] # Nothing /\ polled[p].next = "settle"
    BY <2>4, <2>5 DEF Settles
  <2>12. Settles(y, polled[p])
    BY <2>7, <2>10, <2>11 DEF Settles
  <2> QED
    BY <2>2, <2>8, <2>12, OneSettles DEF sync
<1>9. CASE Query(p) /\ UNCHANGED sync
  <2>1. tx'[p].job = tx[p].job /\ OnlyOne(p)
    BY <1>1, <1>9, QueryKeeps
  <2>2. Open(p)
    BY <1>9 DEF Query, AddTo, Take, Insert, LockOrder, ReadPosition, Put,
                SelectPositions, SeizedAll, RefundSide, CloseLive, At
  <2>3. Settles(tx[p], polled[p])
    BY <2>2 DEF SInv, SettlementsTrue
  <2>4. Settles(tx'[p], polled'[p])
    BY <1>9, <2>1, <2>3 DEF Settles, sync
  <2> QED
    BY <1>9, <2>1, <2>4, OneSettles DEF sync
<1>10. CASE (Commit(p) \/ Rollback(p)) /\ Drop(p)
  BY <1>1, <1>10, EndsOne, OneSettles DEF Drop
<1> QED
  BY <1>4, <1>5, <1>6, <1>7, <1>8, <1>9, <1>10 DEF Poller

LEMMA SettlementsNext ==
  ASSUME SInv, [SNext]_svars
  PROVE  SettlementsTrue'
<1>1. SettlementsNow
  <2>1. CASE Trading(known) /\ UNCHANGED sync
    BY <2>1, TradingKeeps, SettlementsStay DEF SInv, sync
  <2>2. CASE World
    BY <2>2, SettlementsStay DEF World, CloseMarket, tvars
  <2>3. CASE \E r \in Requests : Request(r)
    BY <2>3, SettlementsStay DEF Request, AskToken, StoreAsked, tvars
  <2>4. CASE \E p \in Pollers : Poller(p)
    BY <2>4, PollerSettles
  <2>5. CASE UNCHANGED svars
    BY <2>5, SettlementsStay DEF svars, sync, tvars
  <2> QED
    BY <2>1, <2>2, <2>3, <2>4, <2>5 DEF SNext
<1>2. \A m \in Markets : Onward(m)
  BY GammaMoves DEF SInv, Truth
<1>3. ASSUME NEW t \in Tokens, NEW v, Right(t, v) PROVE Right(t, v)'
  BY <1>2, <1>3, MarketsOfTokens, RightStays
<1>4. ASSUME NEW p \in Pollers, Open(p)' PROVE Settles(tx[p], polled[p])'
  <2>1. PICK x, a : x = tx'[p] /\ a = polled'[p]
    OBVIOUS
  <2>2. Settles(x, a)
    BY <1>1, <1>4, <2>1 DEF SettlementsNow
  <2>3. Settles(x, a)'
    BY <1>3, <2>2 DEF Settles
  <2> QED
    BY <2>1, <2>3 DEF Settles
<1> QED
  BY <1>4 DEF SettlementsTrue

-----------------------------------------------------------------------------
(* The payments.                                                           *)

LEMMA Products ==
  /\ \A a, b, c \in Nat : (a + b) * c = a * c + b * c
  /\ \A a \in Nat : a * 0 = 0 /\ a + 0 = a
OBVIOUS

\* A settlement adds to what was paid what the winners it has read give.
LEMMA FairSettlement ==
  ASSUME SInv, NEW p \in Pollers, Commit(p), NEW u \in Users, NEW t \in Tokens
  PROVE  Fair(t, settled'[u][t], paid'[u][t])
<1>1. p \in Sessions /\ TInv
  BY DEF Sessions, SInv
<1>2. PICK x : x = tx[p]
  OBVIOUS
<1>3. /\ Open(p) /\ TxOK(p, x) /\ x.todo = <<>> /\ Publishes(x)
      /\ settled' = [v \in Users |-> [r \in Tokens |->
                            settled[v][r] + SettledBy(p, v, r)]]
      /\ paid' = [v \in Users |-> [r \in Tokens |-> paid[v][r] + PaidBy(p, v, r)]]
  BY <1>1, <1>2, CommitPublishes
<1>4. PollerOK(x) /\ Rows
  BY <1>1, <1>3 DEF TxOK, TInv, Inv
<1>5. Fair(t, settled[u][t], paid[u][t]) /\ settled[u][t] \in Nat /\ paid[u][t] \in Nat
  BY <1>1 DEF SInv, Payments, TInv
<1>6. settled'[u][t] = settled[u][t] + SettledBy(p, u, t)
      /\ paid'[u][t] = paid[u][t] + PaidBy(p, u, t)
  BY <1>3
<1>7. CASE <<u, t>> \notin DOMAIN x.seized
  BY <1>2, <1>5, <1>6, <1>7, Products DEF SettledBy, PaidBy
<1>8. CASE <<u, t>> \in DOMAIN x.seized
  <2>1. SettledIn(x, u, t) \in Nat
    BY <1>3, <1>4, SettlePaid DEF PollerOK
  <2>2. PICK n \in Nat, m \in Nat, k \in Nat, b \in Nat :
          /\ n = settled[u][t] /\ m = paid[u][t]
          /\ k = SettledIn(x, u, t) /\ b = ShareValue
    BY <1>5, <2>1, SessionsAssumption
  <2>3. /\ SettledBy(p, u, t) = k
        /\ PaidBy(p, u, t) = k * (IF t \in x.job.won THEN b ELSE 0)
    BY <1>2, <1>8, <2>2 DEF SettledBy, PaidBy, SettledIn, ShareOut
  <2>4. t \in x.job.won \cup x.job.lost
    BY <1>4, <1>8 DEF PollerOK, Judged, Ruled
  <2>5. /\ t \in x.job.won => Right(t, "yes")
        /\ t \in x.job.lost => Right(t, "no")
    BY <1>2, <1>3 DEF SInv, SettlementsTrue, Settles
  <2>6. Fair(t, n, m)
    BY <1>5, <2>2
  <2>7. gamma[MarketOf[t]] \notin Undecided
    BY <2>4, <2>5, SyncAssumption DEF Right
  <2>8. CASE t \in x.job.won
    <3>1. gamma[MarketOf[t]] = t
      BY <2>5, <2>8 DEF Right
    <3>2. settled'[u][t] = n + k /\ paid'[u][t] = m + k * b
      BY <1>6, <2>2, <2>3, <2>8
    <3>3. (n + k) * b = n * b + k * b
      BY Products
    <3>4. MarketOf[t] \notin wasSplit => m = n * b
      BY <2>2, <2>6, <3>1 DEF Fair
    <3> QED
      BY <2>2, <2>7, <3>1, <3>2, <3>3, <3>4 DEF Fair
  <2>9. CASE t \notin x.job.won
    <3>1. t \in x.job.lost
      BY <2>4, <2>9
    <3>2. MarketOf[t] \notin wasSplit => gamma[MarketOf[t]] # t
      BY <2>5, <3>1 DEF Right
    <3>3. settled'[u][t] = n + k /\ paid'[u][t] = m
      BY <1>6, <2>2, <2>3, <2>9, Products
    <3> QED
      BY <2>6, <2>7, <3>2, <3>3 DEF Fair
  <2> QED
    BY <2>8, <2>9
<1> QED
  BY <1>7, <1>8

LEMMA PaysOrNot ==
  ASSUME SInv, [SNext]_svars
  PROVE  (settled' = settled /\ paid' = paid) \/ \E p \in Pollers : Commit(p)
<1>1. TInv
  BY DEF SInv
<1>2. CASE Trading(known) /\ UNCHANGED sync
  BY <1>1, <1>2, TradingKeeps
<1>3. CASE World
  BY <1>3 DEF World, CloseMarket, tvars, tables
<1>4. CASE \E r \in Requests : Request(r)
  BY <1>4 DEF Request, AskToken, StoreAsked, tvars, tables
<1>5. CASE \E p \in Pollers : Poller(p)
  <2>1. PICK p \in Pollers : Poller(p)
    BY <1>5
  <2>2. TSettle(p) => UNCHANGED tables
    BY DEF TSettle, BeginSettle, ReadsTokens, ReadTokens
  <2>3. Query(p) => UNCHANGED tables
    BY <1>1, QueryKeeps DEF Sessions
  <2>4. Rollback(p) => UNCHANGED tables
    BY DEF Rollback
  <2> QED
    BY <2>1, <2>2, <2>3, <2>4, PollerSteps DEF Statement, tables, tvars
<1>6. CASE UNCHANGED svars
  BY <1>6 DEF svars, tvars, tables
<1> QED
  BY <1>2, <1>3, <1>4, <1>5, <1>6 DEF SNext

\* What was fair stays fair.
LEMMA FairStays ==
  ASSUME NEW t \in Tokens, NEW n \in Nat, NEW money, Fair(t, n, money),
         Onward(MarketOf[t]), money \in Nat
  PROVE  Fair(t, n, money)'
<1>1. PICK m : m = MarketOf[t]
  OBVIOUS
<1>2. money > 0 => gamma'[m] = t
  BY <1>1 DEF Fair, Onward
<1>3. n > 0 => gamma'[m] \notin Undecided
  BY <1>1 DEF Fair, Onward
<1>4. ASSUME m \notin wasSplit'
      PROVE  money = IF gamma'[m] = t THEN n * ShareValue ELSE 0
  <2>1. m \notin wasSplit
    BY <1>1, <1>4 DEF Onward
  <2>2. CASE gamma'[m] = gamma[m]
    BY <1>1, <2>1, <2>2 DEF Fair
  <2>3. CASE gamma'[m] # gamma[m]
    <3>1. gamma[m] \in Undecided
      BY <1>1, <1>4, <2>3 DEF Onward
    <3>2. n = 0 /\ gamma[m] # t
      BY <1>1, <3>1, SyncAssumption DEF Fair
    <3>3. money = 0
      BY <1>1, <2>1, <3>2 DEF Fair
    <3>4. n * ShareValue = 0
      BY <3>2, SessionsAssumption
    <3> QED
      BY <3>3, <3>4
  <2> QED
    BY <2>2, <2>3
<1> QED
  BY <1>1, <1>2, <1>3, <1>4 DEF Fair

LEMMA PaymentsNext ==
  ASSUME SInv, [SNext]_svars
  PROVE  Payments'
<1>1. TInv'
  BY StepsBelow, TInvNext DEF SInv
<1>2. \A m \in Markets : Onward(m)
  BY GammaMoves DEF SInv, Truth
<1>3. ASSUME NEW u \in Users, NEW t \in Tokens
      PROVE  Fair(t, settled'[u][t], paid'[u][t])
  <2>1. CASE settled' = settled /\ paid' = paid
    BY <2>1 DEF SInv, Payments
  <2>2. CASE \E p \in Pollers : Commit(p)
    BY <2>2, FairSettlement
  <2> QED
    BY <2>1, <2>2, PaysOrNot
<1>4. ASSUME NEW u \in Users, NEW t \in Tokens
      PROVE  Fair(t, settled[u][t], paid[u][t])'
  <2>1. settled'[u][t] \in Nat /\ paid'[u][t] \in Nat
    BY <1>1 DEF TInv
  <2>2. PICK n \in Nat, k \in Nat : n = settled'[u][t] /\ k = paid'[u][t]
    BY <2>1
  <2>3. Fair(t, n, k)
    BY <1>3, <2>2
  <2>4. Onward(MarketOf[t])
    BY <1>2, MarketsOfTokens
  <2>5. Fair(t, n, k)'
    BY <2>3, <2>4, FairStays
  <2> QED
    BY <2>2, <2>5 DEF Fair
<1> QED
  BY <1>4 DEF Payments

-----------------------------------------------------------------------------
(* The theorems.                                                           *)

LEMMA SInvInit ==
  ASSUME SInit
  PROVE  SInv
<1>1. TInv
  BY TInvInit DEF SInit
<1>2. /\ gamma = [m \in Markets |-> "open"] /\ known = {} /\ wasSplit = {}
      /\ winner = [t \in Tokens |-> "null"]
      /\ lookup = [r \in Requests |-> Nothing] /\ polled = [p \in Pollers |-> Nothing]
  BY DEF SInit
<1>3. tx = [s \in Sessions |-> NoTx] /\ settled = [u \in Users |-> [t \in Tokens |-> 0]]
      /\ paid = [u \in Users |-> [t \in Tokens |-> 0]]
  BY DEF SInit, TInit
<1>4. Truth
  BY <1>2, MarketsOfTokens
     DEF Truth, SyncTypeOK, SplitSeen, AnswersTrue, ColumnsTrue, Right, Says, Undecided
<1>5. SettlementsTrue
  BY <1>3 DEF SettlementsTrue, Open, Sessions
<1>6. Payments
  BY <1>3, SessionsAssumption DEF Payments, Fair
<1> QED
  BY <1>1, <1>4, <1>5, <1>6 DEF SInv

LEMMA SInvNext ==
  ASSUME SInv, [SNext]_svars
  PROVE  SInv'
<1>1. TInv'
  BY StepsBelow, TInvNext DEF SInv
<1>2. Truth'
  BY TruthNext DEF SInv
<1> QED
  BY <1>1, <1>2, SettlementsNext, PaymentsNext DEF SInv

\* The sessions of Transactions, the answers of Gamma, the winner columns and
\* what settlements have read of them stay in line with Gamma.
THEOREM SInvariance == SSpec => []SInv
<1>1. SInit => SInv
  BY SInvInit
<1>2. SInv /\ [SNext]_svars => SInv'
  BY SInvNext
<1> QED
  BY <1>1, <1>2, PTL DEF SSpec

\* Market synchronisation and the poller drive the sessions of Transactions
\* within its rules: they begin and go through settlements as it allows.
THEOREM SettlementImplementsTransactions == SSpec => TSpec
<1>1. SInit => TInit
  BY DEF SInit
<1>2. SInv /\ [SNext]_svars => [TNext]_tvars
  BY StepsBelow
<1> QED
  BY <1>1, <1>2, SInvariance, PTL DEF SSpec, TSpec

\* Types, and balances that are never negative, with every settlement taken
\* apart into statements.
THEOREM STypeCorrect == SSpec => []STypeOK
<1>1. SInv => STypeOK
  BY DEF SInv, Truth, TInv, Inv, Rows, Ticks, TypeOK, STypeOK
<1> QED
  BY <1>1, SInvariance, PTL

\* Only shares of the token that Gamma names as the winner are paid for.
THEOREM WinnersPaid == SSpec => []OnlyWinnersPaid
<1>1. SInv => OnlyWinnersPaid
  BY DEF SInv, Payments, Fair, OnlyWinnersPaid
<1> QED
  BY <1>1, SInvariance, PTL

\* In a market that never had prices without a "1", settlements pay what the
\* outcome gives, whatever was stored late or settled early.
THEOREM PayoutsFollowGamma == SSpec => []PaidAtOutcome
<1>1. SInv => PaidAtOutcome
  BY DEF SInv, Payments, Fair, PaidAtOutcome
<1> QED
  BY <1>1, SInvariance, PTL

\* Nothing is settled before Gamma gives prices.
THEOREM SettlementsFollowPrices == SSpec => []SettledAfterPrices
<1>1. SInv => SettledAfterPrices
  BY DEF SInv, Payments, Fair, SettledAfterPrices
<1> QED
  BY <1>1, SInvariance, PTL

\* No share is settled twice, whichever pollers settle the market.
THEOREM SharesSettledOnce == SSpec => []SettledWereBought
<1>1. SInv => SettledWereBought
  BY DEF SInv, TInv
<1> QED
  BY <1>1, SInvariance, PTL

=============================================================================
