---------------------------- MODULE Settlement ----------------------------
(***************************************************************************)
(* Transactions together with market synchronisation: the outcome_tokens   *)
(* table, the requests and the poller that fill it from the Gamma API, and *)
(* the settlements the poller starts, statement by statement, while        *)
(* requests and workers go on trading.                                     *)
(*                                                                         *)
(* What is read in one step and used in a later one is an answer of Gamma  *)
(* that a request or a poller holds, and the winner columns a settlement   *)
(* has read, while Gamma, the table and the ledger move on.                *)
(***************************************************************************)
EXTENDS Transactions

CONSTANTS
    Requests,       \* order requests for tokens the server does not know yet
    Nothing         \* no answer of Gamma is being held

\* What Gamma says of a market: that it is open, closed without outcomePrices,
\* closed with prices none of which is "1", or the token whose price is "1".
Undecided == {"open", "unpriced"}
Says      == Undecided \cup {"split"} \cup Tokens

\* The answers that requests hold, and what pollers work on.
Answers == [market : Markets, says : Says]
Work    == [market : Markets, says : Says \ {"open"},
            next : {"store", "check", "settle"}]

ASSUME SyncAssumption ==
    /\ Nothing \notin Answers \cup Work
    /\ (Undecided \cup {"split"}) \cap Tokens = {}
    /\ IsFiniteSet(Tokens)
    /\ Verdicts = {"null", "yes", "no"}

VARIABLES
    gamma,      \* what Gamma says of a market
    known,      \* the tokens in outcome_tokens
    winner,     \* outcome_tokens.winner
    lookup,     \* per request: the answer it is about to store
    polled,     \* per poller: the answer it works on, and what it does next
    wasSplit,   \* auxiliary: markets Gamma once gave prices without a "1"
    before      \* auxiliary, per poller: the orders when its settlement began

sync  == <<gamma, known, winner, lookup, polled, wasSplit, before>>
svars == <<tvars, sync>>

\* The winner column for token t: outcomePrices[i] == "1" for a closed market
\* with prices, so that every token of a split market lost.  The mutant takes
\* a closed market without prices for a lost one.
WinnerWhenClosed(answer, t) ==
    IF answer.says = t THEN "yes"
    ELSE IF answer.says = "open" THEN "null" ELSE "no"
WinnerIn(answer, t) ==
    IF answer.says \in Undecided THEN "null"
    ELSE IF answer.says = t THEN "yes" ELSE "no"

\* Upserts of the tokens in S, each a statement of its own.  The poller goes on
\* after one that failed, a request stops there; the order in which Gamma
\* lists the tokens is left open, so both may store any of them.
StoreTokens(answer, S) ==
    /\ known' = known \cup S
    /\ winner' = [t \in Tokens |->
                     IF t \in S THEN WinnerIn(answer, t) ELSE winner[t]]

-----------------------------------------------------------------------------
(* The world outside: Gamma closes a market, gives prices to a closed one  *)
(* and names the winner, skipping any of these; it does not take back the  *)
(* prices or the winner.                                                   *)

Stage(says) == IF says = "open" THEN 0 ELSE IF says = "unpriced" THEN 1
               ELSE IF says = "split" THEN 2 ELSE 3

CloseMarket(m, says) ==
    /\ Stage(gamma[m]) < Stage(says)
    /\ gamma' = [gamma EXCEPT ![m] = says]
    /\ wasSplit' = IF says = "split" THEN wasSplit \cup {m} ELSE wasSplit
    /\ UNCHANGED <<tvars, known, winner, lookup, polled, before>>

-----------------------------------------------------------------------------
(* fetchAndStoreToken, called by requests for a token that is not known.   *)

AskToken(r, t) ==
    /\ lookup[r] = Nothing
    /\ t \notin known
    /\ lookup' = [lookup EXCEPT ![r] =
                     [market |-> MarketOf[t], says |-> gamma[MarketOf[t]]]]
    /\ UNCHANGED <<tvars, gamma, known, winner, polled, wasSplit, before>>

StoreAsked(r) ==
    /\ lookup[r] # Nothing
    /\ \E S \in SUBSET TokensOf(lookup[r].market) : StoreTokens(lookup[r], S)
    /\ lookup' = [lookup EXCEPT ![r] = Nothing]
    /\ UNCHANGED <<tvars, gamma, polled, wasSplit, before>>

-----------------------------------------------------------------------------
(* The poller: fetch a closed market, store it, check for open positions,  *)
(* settle.                                                                 *)

Doing(p, step) == polled[p] # Nothing /\ polled[p].next = step

\* Mutant of Active: what users hold is forgotten.
ActiveOrdersOnly(t) == \E i \in Live : orders[i].token = t

\* A token is active while an order on it is LIVE or somebody holds it.
Active(t) == \/ \E i \in Live : orders[i].token = t
             \/ \E u \in Users : position[u][t] > 0

Poll(p, m) ==
    /\ polled[p] = Nothing
    /\ \E t \in TokensOf(m) : Active(t)
    /\ gamma[m] # "open"
    /\ polled' = [polled EXCEPT ![p] =
                     [market |-> m, says |-> gamma[m], next |-> "store"]]
    /\ UNCHANGED <<tvars, gamma, known, winner, lookup, wasSplit, before>>

StorePolled(p, S) ==
    /\ Doing(p, "store")
    /\ S \subseteq TokensOf(polled[p].market)
    /\ StoreTokens(polled[p], S)
    /\ polled' = [polled EXCEPT ![p].next = "check"]
    /\ UNCHANGED <<tvars, gamma, lookup, wasSplit, before>>

HasOpenPositions(m) ==
    \E u \in Users, t \in TokensOf(m) \cap known : position[u][t] > 0

\* The poller is done with the market.
Drop(p) ==
    /\ polled' = [polled EXCEPT ![p] = Nothing]
    /\ before' = [before EXCEPT ![p] = <<>>]
    /\ UNCHANGED <<gamma, known, winner, lookup, wasSplit>>

\* handleResolution settles only when somebody holds a token of the market.
CheckPositions(p) ==
    /\ Doing(p, "check")
    /\ ~HasOpenPositions(polled[p].market)
    /\ Drop(p)
    /\ UNCHANGED tvars

StartSettling(p) ==
    /\ Doing(p, "check")
    /\ HasOpenPositions(polled[p].market)
    /\ BeginSettle(p, polled[p].market)
    /\ polled' = [polled EXCEPT ![p].next = "settle"]
    /\ before' = [before EXCEPT ![p] = orders]
    /\ UNCHANGED <<gamma, known, winner, lookup, wasSplit>>

\* SettleMarket reads the tokens of the market that are stored by now.
ReadStored(p) ==
    /\ Doing(p, "settle")
    /\ ReadTokens(p, TokensOf(polled[p].market) \cap known, winner)
    /\ UNCHANGED sync

\* A request to Gamma or a statement before the settlement fails: the next poll
\* starts over.
PollFails(p) ==
    /\ polled[p] # Nothing
    /\ ~Open(p)
    /\ Drop(p)
    /\ UNCHANGED tvars

-----------------------------------------------------------------------------
SInit ==
    /\ TInit
    /\ gamma = [m \in Markets |-> "open"]
    /\ known = {}
    /\ winner = [t \in Tokens |-> "null"]
    /\ lookup = [r \in Requests |-> Nothing]
    /\ polled = [p \in Pollers |-> Nothing]
    /\ wasSplit = {}
    /\ before = [p \in Pollers |-> <<>>]

World == \E m \in Markets :
            \E says \in {"unpriced", "split"} \cup TokensOf(m) : CloseMarket(m, says)

Request(r) == (\E t \in Tokens : AskToken(r, t)) \/ StoreAsked(r)

Poller(p) ==
    \/ \E m \in Markets : Poll(p, m)
    \/ \E S \in SUBSET Tokens : StorePolled(p, S)
    \/ CheckPositions(p) \/ StartSettling(p) \/ ReadStored(p)
    \/ Query(p) /\ UNCHANGED sync
    \/ (Commit(p) \/ Rollback(p)) /\ Drop(p)
    \/ PollFails(p)

\* Orders are placed on known tokens only.
SNext ==
    \/ Trading(known) /\ UNCHANGED sync
    \/ World
    \/ \E r \in Requests : Request(r)
    \/ \E p \in Pollers : Poller(p)

SSpec == SInit /\ [][SNext]_svars

\* The poller runs every minute, and does not fail at one point for ever: it
\* stores every token of an answer again and again, and if it polls a market
\* again and again, then some of these polls come to their end.
WorksOn(p, m) == polled[p] # Nothing /\ polled[p].market = m

Completes(p, m) == WorksOn(p, m) /\ (Commit(p) \/ CheckPositions(p))

PollFairness ==
    \A p \in Pollers, m \in Markets :
        /\ SF_svars(Poll(p, m))
        /\ SF_svars(WorksOn(p, m) /\ StorePolled(p, TokensOf(m)))
        /\ WF_svars(CheckPositions(p) \/ StartSettling(p))
        /\ []<><<Poll(p, m)>>_svars => []<><<Completes(p, m)>>_svars

FairSSpec == SSpec /\ TFairness /\ PollFairness

-----------------------------------------------------------------------------
(* Properties.                                                             *)

SyncTypeOK ==
    /\ gamma \in [Markets -> Says]
    /\ known \subseteq Tokens
    /\ winner \in [Tokens -> {"null", "yes", "no"}]
    /\ lookup \in [Requests -> Answers \cup {Nothing}]
    /\ polled \in [Pollers -> Work \cup {Nothing}]
    /\ wasSplit \subseteq Markets

\* Types, and balances that never become negative.
STypeOK == TypeOK /\ SyncTypeOK

\* Only a share of the token that Gamma names as the winner, in the end and
\* whatever it said before, is ever paid for: stale answers that a request or
\* a poller stores late, and winners read before, never make a loser win.
OnlyWinnersPaid ==
    \A u \in Users, t \in Tokens : paid[u][t] > 0 => gamma[MarketOf[t]] = t

\* In a market that never had prices without a "1", what users are paid is what
\* the outcome of Gamma gives for the shares that were settled, however old
\* the answers are that the table was filled from.
PaidAtOutcome ==
    \A u \in Users, t \in Tokens :
        MarketOf[t] \notin wasSplit =>
            paid[u][t] = IF gamma[MarketOf[t]] = t
                         THEN settled[u][t] * ShareValue ELSE 0

\* Nothing is settled while Gamma has given no prices: an answer without them
\* that is stored late takes a winner back but settles nothing.
SettledAfterPrices ==
    \A u \in Users, t \in Tokens :
        settled[u][t] > 0 => gamma[MarketOf[t]] \notin Undecided

\* PLAN.md: "If market is resolved (closed=true, has winning outcome)": nothing
\* is settled before Gamma has an outcome.
SettledAfterOutcome ==
    \A u \in Users, t \in Tokens :
        settled[u][t] > 0 => gamma[MarketOf[t]] \in Tokens

\* A settlement during which no order was placed, filled or closed pays its
\* positions, refunds what LIVE orders reserve and cancels them as if it were
\* one step: each user keeps her money and gets the payout, each token that
\* was reserved or in a wallet stays hers unless its position was settled, and
\* nothing stays LIVE.  What a LIVE SELL order reserves is given back even if
\* it was settled.
SettlesAsOneStep(p) ==
    /\ \A u \in Users :
          collateral'[u] + HeldMoney(Live, u)'
             = collateral[u] + HeldMoney(Live, u)
                  + SumOver(paid'[u], Tokens) - SumOver(paid[u], Tokens)
    /\ \A u \in Users, t \in Tokens :
          conditional'[u][t] + HeldTokens(Live, u, t)'
             = HeldTokens(Live, u, t)
                  + IF <<u, t>> \in DOMAIN tx[p].seized THEN 0 ELSE conditional[u][t]
    /\ \A i \in Live' : orders'[i].token \notin tx[p].job.S

SettlesAlone ==
    [][\A p \in Pollers : Commit(p) /\ before[p] = orders => SettlesAsOneStep(p)]_svars

\* A market with prices is settled: nobody is left holding its tokens, also
\* when trades went on or polls failed after Gamma closed it.
OutcomeSettles ==
    \A t \in Tokens :
        gamma[MarketOf[t]] \notin Undecided ~> \A u \in Users : position[u][t] = 0

=============================================================================
