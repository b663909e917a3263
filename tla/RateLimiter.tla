----------------------------- MODULE RateLimiter ----------------------------
(***************************************************************************)
(* The window of the rate limiter: every remote address has a number of    *)
(* tokens and the time they were last refilled. Handler and cleanup run    *)
(* under one mutex, so each is one step. The key is r.RemoteAddr, which    *)
(* has the port of the connection in it: a "visitor" is a connection.      *)
(***************************************************************************)
EXTENDS Integers, Sequences, FiniteSets

CONSTANTS
    Visitors,
    Rate,       \* requests per window
    Window,
    MaxTime,    \* bound: when the clock stops
    NoVisitor

ASSUME LimiterAssumption ==
    /\ Rate \in Nat \ {0} /\ Window \in Nat \ {0}
    /\ NoVisitor \notin [tokens : Int, lastReset : Nat]

VARIABLES
    clock,
    visitors,   \* [tokens, lastReset] of each visitor in the map, or NoVisitor
    admitted,   \* auxiliary: when each visitor's requests were passed on
    limited     \* auxiliary: the visitor whose request was refused last, or NoVisitor

lvars == <<clock, visitors, admitted, limited>>

LInit ==
    /\ clock = 0 /\ visitors = [v \in Visitors |-> NoVisitor]
    /\ admitted = [v \in Visitors |-> << >>] /\ limited = NoVisitor

Fresh == [tokens |-> Rate, lastReset |-> clock]

\* Mutant: lastReset is moved on by every request, not only by a refill.
Slid(e) == [tokens |-> IF clock - e.lastReset > Window THEN Rate ELSE e.tokens,
            lastReset |-> clock]

\* The entry a request finds: refilled if it is new or its window has passed.
Refilled(e) == IF clock - e.lastReset > Window THEN Fresh ELSE e
Entry(v) == IF visitors[v] = NoVisitor THEN Fresh ELSE Refilled(visitors[v])

Request(v) == LET e == Entry(v) IN
    IF e.tokens <= 0
    THEN /\ visitors' = [visitors EXCEPT ![v] = e] /\ limited' = v
         /\ UNCHANGED <<clock, admitted>>
    ELSE /\ visitors' = [visitors EXCEPT ![v] = [e EXCEPT !.tokens = @ - 1]]
         /\ admitted' = [admitted EXCEPT ![v] = Append(@, clock)]
         /\ limited' = NoVisitor /\ UNCHANGED clock

\* Mutant: the cutoff is one window too late.
StaleAtOnce(e) == e.lastReset < clock

Stale(e) == e.lastReset < clock - 2 * Window

\* Once a minute: drop the entries that have been idle for two windows.
Cleanup ==
    /\ visitors' = [v \in Visitors |->
          IF visitors[v] # NoVisitor /\ Stale(visitors[v]) THEN NoVisitor ELSE visitors[v]]
    /\ limited' = NoVisitor /\ UNCHANGED <<clock, admitted>>

LimiterTick ==
    /\ clock < MaxTime /\ clock' = clock + 1 /\ limited' = NoVisitor
    /\ UNCHANGED <<visitors, admitted>>

LNext == LimiterTick \/ Cleanup \/ \E v \in Visitors : Request(v)
LSpec == LInit /\ [][LNext]_lvars

-----------------------------------------------------------------------------
\* How many requests of a visitor were passed on from one time to another.
Admitted(v, from, to) ==
    Cardinality({i \in DOMAIN admitted[v] : from <= admitted[v][i] /\ admitted[v][i] <= to})

\* A visitor gets at most two windows' worth of requests through in any stretch
\* of one window: the refill at the end of a window and the removal of idle
\* entries never add up to more (ratelimit.go:50 and ratelimit.go:73).
AtMostTwoWindows == \A v \in Visitors : \A t \in 0 .. clock :
    Admitted(v, t, t + Window) <= 2 * Rate

\* A refused visitor has had its full rate within the window before: waiting
\* always helps, and one visitor does not use up another's tokens.
RefusedOnlyWhenSpent ==
    limited # NoVisitor => Admitted(limited, clock - Window, clock) >= Rate

=============================================================================
