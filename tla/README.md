# Specifications of the paper-trading server

TLA+ specifications of poly-paper-api: a Go server that speaks Polymarket's CLOB
API, keeps play-money accounts in PostgreSQL, fills orders against Polymarket's
real order books and settles positions when Polymarket resolves a market. The
modules are checked by TLC on small instances, and their main invariants are
proved with TLAPS for every value of the constants.

## The system

| part | source | state it keeps | operations |
|---|---|---|---|
| order service | `trading/service.go`, `handler.go` | none; writes wallets, orders, trades, positions | place (with an immediate fill), cancel one / many / all / by market, fill an order for the worker |
| trading repository | `trading/repository.go` | the SQL of those tables | reserve, credit, refund, create, lock, cancel, list |
| matching worker | `trading/worker.go` | the orders read at the start of a tick | every second: fetch the book of each token with LIVE orders, match, fill; cancel on 404 |
| order book | `trading/orderbook.go` | none | fetch a book; `MatchOrder` |
| market poller | `sync/poller.go` | the answer of Gamma it works on | every minute: fetch closed markets of active tokens, store markets and tokens, start settlement |
| resolver | `sync/resolver.go` | none | `SettleMarket`: pay and close positions, refund and cancel LIVE orders |
| accounts | `auth/service.go`, `auth/repository.go`, `auth/handler.go` | users, wallets, API keys, nonces | register, deposit, withdraw, create / derive / delete keys, verify signed requests |
| dashboard queries | `auth/dashboard_queries.go` | none | listings, statistics |
| routing | `server`, `auth/*middleware.go`, `cmd/server/main.go`, generated routers | none | bind parameters, authenticate, run the handler |
| rate limiter | `middleware/ratelimit.go` | requests left per address | count, refill, clean up |
| migrations | `database/migrate.go`, `migrations/*.sql` | schema, `schema_migrations` | check, apply, record |
| proxy, pool, configuration, browser client | `trading/proxy.go`, `database/postgres.go`, `config`, `dashboard` | none | I/O |

The parts share the database and call Polymarket. HTTP handlers, the worker and
the poller run concurrently; several server processes may share one database.
Every request and every fill is a transaction at READ COMMITTED, or a few
statements outside any. Two things make the system hard. What is read in one
place and used later may be stale: the worker's snapshot and its book, the book
`PlaceOrder` fetched before its transaction, the Gamma answers of a poller or a
request, a row read before a lock was waited for. And everything may stop
between two statements: a tick at its deadline, a poll, a registration, a start.

The hazards are listed with their lines in `PROJECT.json`; they are what the
properties are about.

## Modules

    Sums                 sums of table columns
    Vault                what the owner of an account is promised
    Ledger               the transactions, the worker          refines Vault
      Transactions       + SettleMarket, statement by          refines Ledger, but for
                         statement, on row locks               what settlements commit
        Settlement       + Gamma, outcome_tokens, pollers      refines Transactions
    OrderBook            MatchOrder                            justifies Fills of Ledger
    Rounding, Profit     the arithmetic of one order, of one position
    Accounts, Nonces, RateLimiter, Migrations, Listings, Routes

`MCLedger`, `MCSettlement`, `MCTransactions` and `MCServices` give constants their
values; the modules ending in `Proofs` hold the proofs. A definition whose
comment calls it a mutant is a small fault of the definition that follows it. No
specification uses it; it shows that a property can fail.

### Ledger

| Ledger | code |
|---|---|
| `collateral`, `conditional` | `wallets` rows; the allowance column always moves with the balance and is left out |
| `position`, `orders`, `trades` | the tables; an order is named by its place in the creation order |
| `gone` | tokens whose book answers 404 |
| `snapshot[w]`, `book[w]` | what a tick of worker `w` has read: ids and `size_matched` of LIVE orders, and the token whose book it holds |
| `funded` | auxiliary: money put in minus taken out |
| `PlaceOrder` | `service.go` `PlaceOrder` with `applyFill`, `updatePosition` and the refund of a FAK order; `answer` is what `MatchOrder` said earlier, or nothing when the book was unavailable |
| `CancelOrder`, `CancelOrdersByFilter` | the cancel requests; `CancelOrders` is one `CancelOrder` per id |
| `TickStart`, `FetchBook`, `FetchFails`, `FetchNotFound`, `SkipOrder`, `ExecuteFill`, `TickAbort` | `worker.tick`, `CancelLiveOrdersByTokenID`, `executeFill` |
| `Deposit`, `Withdraw` | the dashboard requests |

One action is one transaction, or one step of the worker outside a transaction.
Amounts are integers (sizes in units coarser than the code's tolerance
0.000001, prices in ticks, money in size times price); what rounding does is the
subject of `Rounding` and `Profit`. `MatchOrder` may answer any fill within limit
and size, which is what `OrderBook` establishes. Requests that the code refuses
change nothing and are no steps. GTD expiration is stored by the code and never
acted on, so a GTD order is a GTC order.

### Vault

What an account's owner is promised: money is free, reserved or spent, and moves
between the three by funding, reserving, spending and releasing. The refinement
mapping takes the wallet, the reservations of LIVE orders and the net cost of the
trades. `AccountsAreVaults` says that every step of `Ledger`, of whichever user or
worker, is a step or a stutter of *every* account's vault.

### Transactions

The same requests and the worker, and `SettleMarket`, as sequences of statements
(`todo`) of an open transaction (`tx[s]`) that has its own version (`mine`) of each
row it has locked, and publishes them all at `Commit`. The committed rows are the
variables of `Ledger`. A statement that meets a row locked by somebody else waits
for it; a statement that selects rows sees what was committed when it began, and
looks at each row again when it has the lock: that is what READ COMMITTED does
with `UPDATE ... WHERE status = 'LIVE'`. Statements that take several rows take them
one by one, in any order (`CancelRow`, `SeizePosition`, `Pay`, `CreditRow`): the order
of the scan decides who waits for whom. `FOR UPDATE` of a row that does not exist
locks nothing (`opened`: whether a positions row exists), a UNIQUE key is a row
too, and a constraint that is broken ends the transaction (`Refused`). The
database breaks a deadlock by failing one of its transactions.

`SettleMarket` reads the market's tokens and their winners (`ReadTokens`), selects
the open positions of the market and locks them, passes over those whose token had
no winner when it was read (`Decided`), pays the others one after the other (the
credit, the emptied wallet and the zeroed position are statements of their own),
adds up the reservations of LIVE BUY orders, credits them, the same for SELL
orders, and cancels what is LIVE by then. What happens to an order between these
statements is not seen, which is what `settlement_race` is about. In this module
alone a settlement may read any set of tokens with any of the `Verdicts` as their
winners; `Settlement` says which. The open positions of a market are those of
stored tokens in the code (a JOIN on `outcome_tokens`) and of all its tokens here,
which are the same: no order is placed on a token that is not stored, and none is
ever removed. The auxiliary `settled` and `paid` count the shares settlements closed
and what they paid for them.

Statements in a row that wait for nothing and read nothing others write are one
step. `Deposit` and `Withdraw` are single statements, the same here as in `Ledger`,
and are left out; FAK orders differ from GTC orders by one more refund in the
same transaction: they are in the module and in the proofs, but not in the runs.

### Settlement

`Transactions` plus `outcome_tokens` (`known`, `winner`), what Gamma says of a market
(`gamma`), the requests that look an unknown token up and store it (`lookup`), and
the pollers (`polled`: a Gamma answer and the next step on it: store, check for open
positions, settle). Requests and workers trade as in `Transactions`, on known tokens
only, and a settlement runs statement by statement among them; it reads the winners
that are stored at that moment (`ReadStored`).

Gamma says that a market is open, that it is closed and has no `outcomePrices`
("unpriced"), that it is closed and none of its prices is "1" ("split"), or it names
the winner. `WinnerIn` is what the code makes of it: no verdict for the first two, a
loser for every token of a split market, a winner and losers otherwise
(`poller.go:234`, and `service.go:587` in the same way). Gamma moves through these in
this order, possibly skipping some, and does not take prices or a winner back: this
is assumed of Polymarket. A list of prices shorter than the list of tokens is left
out.

A poller holds the answer for one market at a time; a batch whose markets are stored
one after the other is several pollers. A token upsert that fails is skipped by the
poller and ends a request, so a step stores any subset of the market's tokens.
`wasSplit` (the markets that once had prices without a winner) and `before` (the
orders when a settlement began) are auxiliary.

| property | says |
|---|---|
| `OnlyWinnersPaid` | nobody is paid for a token other than the one Gamma names as the winner |
| `PaidAtOutcome` | in a market that never was split, users are paid exactly what the outcome gives for the shares that were settled |
| `SettledAfterPrices` | nothing is settled while Gamma has given no prices |
| `SettlesAlone` | a settlement during which no order changed acts as one step: money, tokens and LIVE orders end as they should, but for what `settlement_wallet` finds |
| `OutcomeSettles` | a market with prices is settled in the end |

Money and tokens are *not* accounted for through a settlement that others interfere
with: `settlement_race` refutes it, and no property here claims it.

### Rounding

Prices of one order in three forms: the ratio of the request, the price with four
digits in the row, the average a fill is made at. As in `PlaceOrder`, the debit and
the refund of a FAK remainder are computed at the unrounded price, excesses and every
later refund at the stored one, and an immediate fill has the unrounded price as its
limit where a worker's has the stored one. Raw amounts are integers of either sign.
The code divides and debits whatever they are (a negative BUY amount is a credit),
and what keeps that out are the CHECKs on `orders`: a size that is not positive or a
price outside 0 to 1 fails the INSERT and with it the transaction. A negative price
that rounds to zero passes the CHECKs, and is in the model. Raw amounts with a fraction
are left out. Comparisons of floating-point numbers at a tie may go either way.

`PaidWithinRounding` bounds what an order has cost against its fills and its
remaining reservation: half a price step per token and one unit of money per
statement that rounds. It is a bound on the amount. It is not small against the money
of an order whose price is near a step: a BUY order at 0.00006 is stored at 0.0001
and, when it is canceled, refunded for more than was debited.

### Settings of the other modules

| module | state | what a step is |
|---|---|---|
| `OrderBook` | rows of the book, what was taken | one turn of `MatchOrder`'s loop, on parsed and sorted rows; the sort is not stable |
| `Rounding` | one order in raw units, the money that left the wallet for it | a transaction of `Ledger` with its roundings |
| `Profit` | one positions row, what was really earned | a fill or a settlement, with the average price rounded to four digits |
| `Accounts` | `users`, `wallets`, `api_keys`, what each connection does | one statement of `Register`, of a deposit or withdrawal, or of a key request; a restart between any two |
| `Nonces` | `used_nonces`, signed requests under way | the check and the recording of a nonce, two statements; the clock |
| `RateLimiter` | map entries of each address | a request, a cleanup, both under the mutex; the clock |
| `Migrations` | schema, `schema_migrations`, where each server is | check, apply, record; a kill between any two |
| `Listings` | rows by age with random ids, a client's walk | a page, with orders placed and closed between pages |
| `Routes` | a request in the pipeline | binding, authentication, answer, for each of the routes of both routers |

Whether a signature, password or token verifies is a given of each request.

## Runs

| run | bounds | shows |
|---|---|---|
| `ledger_stale_ticks` | 1 account, 1 token, 2 orders of size 1-2 at prices 1-2, GTC/FOK/FAK, 2 workers; 62,982 states | with stale snapshots, partial fills, cancels and a 404: money and tokens conserved, positions and `size_matched` equal the trades, no fill after an order closed, fill keys never collide, accounts refine `Vault` |
| `ledger_gone_books` | 2 accounts, 3 tokens in 2 markets, one unit order each, deposits and withdrawals of 1, `FairSpec`; 50,664 states | orders on a token whose book is gone do not stay LIVE, those placed late included; no money leaks between accounts |
| `settlement` | 1 account, 2 tokens of 1 market, 1 unit order, 1 connection, 1 poller, 1 request; 151,527 states | with stale answers, prices without a winner and a settlement that reads winners which change afterwards: who is paid, how much, and when |
| `settlement_live` | 1 token, 2 unit orders, `FairSSpec`; 45,119 states | every market with prices is settled; a settlement left alone acts as one step |
| `transactions` | 1 account, 1 token, 2 unit orders; 1 connection, 1 worker, 2 pollers; 163,870 states | what requests and workers commit is a step of `Ledger`, and two settlements at once, or one that meets a fill, pay each share once |
| `transactions_live` | 1 account with money for one order; 2 connections, 1 poller; `TFairSpec`; 28,207 states | an order posted twice at once is stored once; every transaction ends |
| `services` | each part on its own (below); 454,885 states | the properties of accounts, nonces, rate limiter, migrations, listings, routes, rounding, profit and the order book: `MatchOrder`'s fill is within limit and size, as large as possible and as cheap as possible, against every way of taking the rows |
| `settlement_wallet`, `settlement_race`, `settlement_no_winner`, `order_pages`, `migrations_stuck` | as small | the five findings, each a counterexample |

The bounds are the least at which the interesting cases meet. Two workers, an
order of size 2 and fills of 1 give two snapshots of different age, a partial
fill and a cap; two orders per account give a position from one and a LIVE order
from the other; two prices give a fill better than the limit. In `settlement` one
token is bought, the other is not, and either can win; the request and the poller
hold answers of different age, and the request can store one between the poller's
and the settlement's statements. The two orders of `settlement_live` let a market be
settled while one token is held and offered by a LIVE order. Several pollers meet in
`transactions`, at the only place where they share something, the rows; its
`Verdicts` is "yes" alone, since what the table says matters to `Settlement` only.
`transactions_live` has no worker: deadlocks between a worker's fill or 404 and a
settlement are in `transactions`, where they are broken but not followed to the end.
`Salts` bounds the number of orders (the UNIQUE constraint on maker and salt),
`MaxFunded` the deposits, `MaxRows` the book.

`services` explores parts that share no variable with each other: `MCServices`
picks one at the start and moves only that one, so the state space is the sum of
theirs. Two connections for two emails cover two registrations of one email and
one of another, overtaken by a deposit and cut by a restart; two signers cover a
check and a record crossing; two addresses, rate 2, window 2 and five ticks of
the clock cover two refills and a cleanup; two crashes of one server cover a
repeated file; three rows in pages of one cover a row inserted and one closed
between pages; `Routes` has all routes. `Rounding` has two steps of price and raw
amounts from -7 to 7, so that every remainder and tie occurs, with two fills;
`Profit` four trades of up to three shares; `OrderBook` up to 3 rows at 3 prices, sizes
0 to 2, and rows that do not parse.

No run with a liveness property uses symmetry. `services` and `migrations_stuck` may
stop: a function that returns, clocks and counters at their bounds, a server that
serves.

### Fairness

- `FairSpec` (Ledger): the worker's ticker goes on (weak fairness of starting a
  tick, of dealing with the fetch and with each entry), and a token that answers
  404 is not skipped for ever: the tick visits its tokens in the random order of a
  Go map, so neither a deadline nor a failed fetch always hits the same one
  (strong fairness of `FetchNotFound`).
- `TFairSpec` (Transactions): a session that waits for a row gets it in turn
  (PostgreSQL queues them), code between two statements goes on, and deadlocks
  are broken after `deadlock_timeout`. Nothing is retried, and nothing has to be.
- `FairSSpec` (Settlement): that of its sessions, as in `TFairSpec`, and the poller's.
  Polls go on every minute, so a market that can be polled again and again is
  (strong fairness of `Poll`); a poll's upserts do not fail for ever at the same
  token; and if a market is polled again and again, some of these polls come to
  their end. The last is a condition on outages and on deadlocks that always choose
  the settlement as their victim: a poll may fail or be rolled back at any point,
  any number of times, but not every time.
- `MSpec` (Migrations): a server that can go on does, and one that is down is
  started again, by the deployment's restart policy.

Nothing is assumed of users or order books, and of Gamma only that it does not take
back what it said.

## Findings

- `settlement_wallet`: `SettleMarket` zeroes the CONDITIONAL wallet of a paid
  position (`resolver.go:148`) and then refunds the tokens of LIVE SELL orders into
  it, although the position it paid counted them.
- `settlement_race`: `SettleMarket` refunds LIVE orders in two statements and
  cancels what is LIVE in a third ("Refund reservations for LIVE orders before
  canceling them", `resolver.go:167`). An order that commits in between is canceled
  without a refund; one canceled in between is refunded twice.
- `settlement_no_winner`: `src/PLAN.md:707` sets winners when a market is resolved,
  "closed=true, has winning outcome". The code sets them when a market is closed and
  has prices (`poller.go:234`): if none of them is "1", every token is a loser, the
  positions are closed for nothing, and a winner that Gamma names later is not paid
  any more. `PaidAtOutcome` and `PayoutsFollowGamma` leave such markets out by name.
- `order_pages`: `GetOrders` lists by age and continues by id, and ids are random:
  a client that follows the cursors to the end misses LIVE orders.
- `migrations_stuck`: a crash between applying file 1 or 2 and recording it
  keeps the server from ever starting again (`docs/commands.md:11` says migrations
  run automatically on start). Which of the two files it is in the run's trace
  depends on the order of TLC's search.

Smaller things a reader may want to know, seen while modelling:

- `service.go:65` says an order is created LIVE when the book is unavailable; a FAK
  order is created CANCELED and a FOK order not at all. `docs/architecture.md:121`
  still describes the instant fill that LIVE orders and the worker replaced.
- A process that dies between the two statements of `Register` leaves a user
  without the opening money, and the email cannot be registered again.
- Two servers that start at the same time may both apply file 4 after one of them
  applied file 5, and lose `fill_key`; `ServesWholeSchema` is stated for one server
  at a time.
- The rate limiter's key is `RemoteAddr` with its port, so it counts connections
  rather than addresses; `AtMostTwoWindows` is the bound that holds for one key,
  twice the rate in one window.
- An order at a price below half a step of 0.0001 is stored at price 0, and one just
  above it is refunded at almost twice what was debited (see `Rounding`).
- The nonce check does not refuse every replay: the look-up and the record are two
  statements, and the row of an address is overwritten (`docs/auth.md:48` speaks of
  replay protection). `OnlyRepeatsRefused` is the converse.

## Proofs

All theorems hold for every value of the constants under the named assumptions
of the modules: positive sizes, prices and amounts, an initial balance that is a
natural number; a share value that is a natural number; for settlement also finitely
many tokens and all three verdicts; disjoint names for workers, connections and
pollers; and, where a variable may hold a value that stands for "none"
(`NoRow`, `NoOrder`, `NoVisitor`, `Nobody`, `Nothing`), that this value is none of the others.

`TInv` and `SInv`, the largest inductive invariants, were checked by TLC too, on the
instances of `transactions`, `transactions_live` and `settlement`.

### Ledger

`LedgerProofs`: one inductive invariant gives `TypeCorrect`, `FillsFitOrders` and
`StatusCorrect`. Types alone are not inductive: a balance stays a natural number
only because an order's `matched` never exceeds its size, because a fill's price
is within the limit, and because a worker's snapshot names existing orders. The
proof goes action by action. It also shows that every step which touches the
accounts is one of five transactions (lemma `Transactions`): fund, place, cancel a
set of LIVE orders, fill, or nothing. Everything after that speaks of these five.

`ConservationProofs`: `MoneyConserved`, `TokensBacked`, `PositionsMatchTrades`. Lemma
`StepMoves` says how much each of the sums over orders and trades changes in a
step: an account's money (`Money`) only by funding, the tokens that back a position
(`Backing`) and the position by the same trade. The three need each other: the
clamp in `updatePosition` is harmless only because a SELL's tokens are still in the
position. `Counted` says that the sums are numbers; it follows from the invariant.
The tables' history gives `ClosedStayClosed`, `MatchedEqualsTrades` and
`FillKeysNeverCollide`: the strengthening (`TradesFit`) says that a trade's order
exists and that its key names a size the order has reached since; a new fill goes
beyond that size, so its key is new. `LedgerImplementsVault` (with
`AccountsStayVaults`, the form the run checks): each kind of transaction is one
action of the account's vault or leaves it alone.

### Transactions

`StatementProofs` has the invariant (`TInv`) and what each statement does to it,
`TransactionsProofs` every action and the theorems:

- `TransactionsImplementLedger`: statement by statement, on snapshots and row
  locks, for any number of connections, workers and pollers, whatever fails or is
  killed in between, every commit of a request or a worker is one step of
  `Ledger`, so the theorems about `Ledger` speak of the code's transactions as they
  run. The commit of a settlement is the only step that is none.
- `OrdersSignedOnce` and `SettlementsPayWhatWasBought`, which the runs check.
- `BalancesStayNatural`, `ClosedStayWithSettlements`, `MatchedEqualsTradesWithSettlements`,
  `FillKeysDifferWithSettlements`: what of `Ledger` survives the settlements, races
  between refund and cancel included (conservation of money does not; that is the
  finding `settlement_race`).

`TInv` says of an open transaction what its statements have done and have yet to
do, together. `Outlook` of a wallet is what the session sees in it plus what its
coming statements add; it equals what is committed plus what the transaction of
`Ledger` adds at once (`Pays`), at every point. So nothing has to be known of the
order of the statements but what matters: the reservation is taken and the salt's
key locked before the order counts as affordable and new (`Reserves`, `Inserts`);
the position is read once, under a lock, or, when it has no row, under the lock of
the wallet of its tokens (`PositionComes`), the only thing that keeps two first
fills of a token apart; a cancellation's rows are LIVE orders among those it was
asked for (`Closes`, `Aims`), and what it adds is what those it has closed reserve
(`Refunding`). A settlement holds the positions it pays for, has paid each at most
once and zeroes it before it commits (`Pocket`). The locks are exclusive
(`Disjoint`), so a statement of one session changes nothing of what another relies
on (`TxKept`), and a commit publishes only rows that no other session has locked.
`Unopened` is the invariant that makes rows which do not exist yet harmless:
without a row in `positions` there are no tokens, none on offer and no SELL order.

### Settlement

`SettlementProofs`, for any number of markets, pollers and requests.
`SettlementImplementsTransactions`: a settlement reads one of the tables that
`Transactions` allows, and everything else is a step of `Transactions` or leaves its
variables alone, so `TInv` and its theorems hold here too; `STypeCorrect` and
`SharesSettledOnce` follow.

`SInv` adds to `TInv` what makes old knowledge harmless at each of the places it is
kept: an answer that a request or a poller holds (`AnswersTrue`), the winner column
(`ColumnsTrue`), what an open settlement has read of it and may commit much later
(`SettlementsTrue`), and what has been paid (`Payments`). Gamma never contradicts any
of them, except for a market that once was split: there a loser may still turn out to
be the winner. Two facts carry the proof: Gamma only moves forward (`GammaMoves`), and
each statement of a settlement leaves its winners and losers as they were read. From
`Payments` follow `WinnersPaid` (in split markets too: a winner is never revoked),
`PayoutsFollowGamma` and `SettlementsFollowPrices`.

### OrderBook

`OrderBookProofs`: `MatchTypes` and `MatchWithinLimit`, the loop invariant of
`MatchOrder`, which justifies `Fills` in `Ledger`; `MatchFillsMost` and
`MatchPricesBest`, that the greedy loop is optimal for every book. The invariant
(`Progress`) names the permutation `p` the sort picked and the amount `g` taken of
each row: whole levels up to the last one, nothing beyond, and the loop's totals
are the sums over `g`. When the loop ends there is a price such that all of what is
better is taken and none of what is worse (`LoopTakesBest`). Another taking `f` of
the same amount then differs from `g` by moving units to rows no better than that
price: `CheaperFirst` adds `f(i) * price` to both costs, compares row by row, and
needs no induction over the rows beyond the laws of `SumTo`.

### The other modules

`ServicesProofs`:

- accounts: `EmailsUnique`, `OpeningMoneyPaidOnce`, `OwnersRemoveKeys` (ids of keys are
  never given twice, and a client's key keeps its owner);
- `RepeatsRefused`: a row of `used_nonces` is as old as the acceptance it stands for;
- `ServesMigrated`: the files recorded are always the first k, and the schema is that
  of k or k + 1 files; files 3 to 5 may be repeated, 1 and 2 refuse. For one server
  at a time;
- `TwoWindowsAtMost`, `SpentBeforeRefused`: `LimiterInv` counts what an address was let
  through since its entry was refilled (the tokens that are gone) and in the window
  before (a whole rate at most);
- `HandlersFindUser`, `OpenRoutesStayOpen`: a lemma goes through the table of routes
  group by group (`EveryRouteAgrees`: the switch asks for credentials exactly where
  the handler asks for the user), the rest is the pipeline, for any users;
- `WalksSkipNothing`: a row that has not been shown yet is among those the offset has
  not passed (`NotYetShown`), since rows are only inserted in front;
- `RoundingIsBounded`: `RoundingInv` bounds, for each side and status, what was paid
  against the cost of the fills and the reservation that is left, with half a price
  step per token and half a unit per rounding, for raw amounts of either sign;
- `ProfitMatchesMoney`: the gap between profit and money moves only when a purchase
  rounds the average, by half a step per share held.

`SumsProofs` proves the equations and laws of `SumTo` and `SumOver`, by minimal
counterexample where others would use induction.

Model-checked only: liveness and deadlock (`GoneOrdersClosed`, `OutcomeSettles`,
`TransactionsEnd`, out of the prover's reach, like `ENABLED`), `SettlesAlone`, and the
five counterexamples. Every other property of a passing run is a theorem. No module
declares a `RECURSIVE` operator: `Sums` is recursive functions, with their equations
proved in `SumsProofs`.

## Not modelled

- Cryptography (EIP-712, HMAC, JWT, bcrypt, key encryption): what verifies is an
  input. The decoding and encoding of requests in generated code and the OpenAPI
  text it embeds: of the generated routers, the routes and the parameters they
  require are in `Routes`.
- The market data proxy, the connection pool, configuration: they keep no state
  and make no decision.
- The dashboard's browser client, which renders what the API answers.
- Statistics: `GetStats` adds up what `Profit` shows to be right.
- The liquidity of a book being used by several orders: every fill is simulated
  against the same copy of the book, by design.
