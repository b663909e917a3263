-------------------------------- MODULE Routes ------------------------------
(***************************************************************************)
(* From a request to its handler. The generated routers bind the           *)
(* parameters an operation declares and answer 400 when one is missing;    *)
(* then the authentication middleware decides by path and method, in a     *)
(* switch written by hand, which credentials to ask for; then the handler  *)
(* runs for the user the middleware found. A path is the sequence of its   *)
(* segments, below /clob for the CLOB; "id" stands for a path parameter.   *)
(***************************************************************************)
EXTENDS Naturals, Sequences

CONSTANTS
    Owners,     \* users that sign requests
    Nobody

ASSUME RoutesAssumption == Nobody \notin Owners

VARIABLES
    request,    \* the request in the pipeline: [endpoint, cred, complete]
    stage,      \* how far it is, or the status it was answered with
    user        \* the user id in its context

hvars == <<request, stage, user>>

-----------------------------------------------------------------------------
(* The endpoints, with the headers their operations require: those of an    *)
(* L1 or an L2 signature, or none; and whether a query parameter is         *)
(* required.                                                                *)

Clob(method, path, binds, query) ==
    [router |-> "clob", method |-> method, path |-> path, binds |-> binds, query |-> query]
L2(method, path)     == Clob(method, path, "L2", FALSE)
Public(method, path) == Clob(method, path, "none", FALSE)
Query(path)          == Clob("GET", path, "none", TRUE)

KeyEndpoints ==
    {Clob("POST", <<"auth", "api-key">>, "L1", FALSE),
     Clob("GET", <<"auth", "derive-api-key">>, "L1", FALSE),
     L2("DELETE", <<"auth", "api-key">>), L2("GET", <<"auth", "api-keys">>)}
BalanceEndpoints ==
    {L2("GET", <<"balance-allowance">>), L2("GET", <<"balance-allowance", "update">>)}
CancelEndpoints ==
    {L2("DELETE", <<"cancel-all">>), L2("DELETE", <<"cancel-market-orders">>)}
DataEndpoints ==
    {L2("GET", <<"data", "order", "id">>), L2("GET", <<"data", "orders">>),
     L2("GET", <<"data", "trades">>)}
NotificationEndpoints ==
    {L2("DELETE", <<"notifications">>), L2("GET", <<"notifications">>)}
OrderEndpoints ==
    {L2("DELETE", <<"order">>), L2("POST", <<"order">>),
     Clob("GET", <<"order-scoring">>, "L2", TRUE)}
OrdersEndpoints ==
    {L2("DELETE", <<"orders">>), L2("POST", <<"orders">>), L2("POST", <<"orders-scoring">>)}
HeartbeatEndpoints == {L2("POST", <<"v1", "heartbeats">>)}
BookEndpoints == {Query(<<"book">>), Public("POST", <<"books">>)}
FeeEndpoints ==
    {Query(<<"fee-rate">>), Public("GET", <<"fee-rate", "id">>),
     Query(<<"last-trade-price">>), Query(<<"last-trades-prices">>),
     Public("POST", <<"last-trades-prices">>),
     Public("GET", <<"live-activity", "events", "id">>)}
MarketEndpoints ==
    {Public("GET", <<"markets">>), Public("GET", <<"markets", "id">>),
     Query(<<"midpoint">>), Public("POST", <<"midpoints">>), Query(<<"neg-risk">>)}
PriceEndpoints ==
    {Query(<<"price">>), Query(<<"prices">>), Public("POST", <<"prices">>),
     Query(<<"spread">>), Public("POST", <<"spreads">>), Query(<<"tick-size">>),
     Public("GET", <<"tick-size", "id">>), Public("GET", <<"time">>)}
     \cup {Public("GET", <<p>>) :
               p \in {"sampling-markets", "sampling-simplified-markets", "simplified-markets"}}

ClobEndpoints ==
    {Public("GET", << >>)}
        \cup KeyEndpoints \cup BalanceEndpoints \cup CancelEndpoints \cup DataEndpoints
        \cup NotificationEndpoints \cup OrderEndpoints \cup OrdersEndpoints
        \cup HeartbeatEndpoints \cup BookEndpoints \cup FeeEndpoints
        \cup MarketEndpoints \cup PriceEndpoints

Dash(method, path) ==
    [router |-> "dashboard", method |-> method, path |-> path, binds |-> "none", query |-> FALSE]

DashboardEndpoints ==
    {Dash("GET", <<"api", p>>) : p \in {"eth-address", "orders", "positions", "trades", "wallet"}}
        \cup {Dash("POST", <<"api", "wallet", p>>) : p \in {"deposit", "withdraw"}}
        \cup {Dash("POST", <<"auth", p>>) : p \in {"login", "register"}}

\* Routes that main adds to the generated ones.
MainEndpoints ==
    {Dash("GET", <<"health">>), Dash("GET", <<"api", "stats">>)}
        \cup {Dash(m, <<"api", "api-keys">>) : m \in {"GET", "POST", "DELETE"}}

Endpoints == ClobEndpoints \cup DashboardEndpoints \cup MainEndpoints

\* Whether the handler asks the context who is calling: GetUserID in the
\* dashboard, trading and key handlers, or the key of the header.
AsksForUser(e) ==
    \/ e.router = "clob" /\ e.binds # "none"
    \/ e.router = "dashboard" /\ Len(e.path) > 0 /\ e.path[1] = "api"

-----------------------------------------------------------------------------
\* Mutant: the switch without "/orders".
SingleOrderPaths ==
    {<<"order">>, <<"cancel-all">>, <<"cancel-market-orders">>,
     <<"balance-allowance">>, <<"balance-allowance", "update">>, <<"notifications">>,
     <<"order-scoring">>, <<"orders-scoring">>}

\* The trading paths of CLOBAuthMiddleware's switch.
TradingPaths == SingleOrderPaths \cup {<<"orders">>}

StartsWith(path, p) == Len(path) >= Len(p) /\ \A i \in 1 .. Len(p) : path[i] = p[i]

\* Mutant: whatever is not listed asks for an API key.
DefaultsToL2 == "L2"
Otherwise == "open"

CLOBAuth(e) ==
    CASE e.path = <<"auth", "api-key">> /\ e.method = "POST" -> "L1"
      [] e.path = <<"auth", "derive-api-key">> /\ e.method = "GET" -> "L1"
      [] e.path = <<"auth", "api-key">> /\ e.method = "DELETE" -> "L2"
      [] e.path = <<"auth", "api-keys">> /\ e.method = "GET" -> "L2"
      [] e.path \in TradingPaths -> "L2"
      [] StartsWith(e.path, <<"data">>) \/ StartsWith(e.path, <<"v1", "heartbeats">>) -> "L2"
      [] OTHER -> Otherwise

DashboardAuth(e) == IF StartsWith(e.path, <<"api">>) THEN "JWT" ELSE "open"

Asked(e) == IF e.router = "clob" THEN CLOBAuth(e) ELSE DashboardAuth(e)

-----------------------------------------------------------------------------
\* What a request carries: nothing, a bearer token, the three headers of an L1
\* signature or the five of an L2 signature, which verify or not.
NoCredentials == [kind |-> "none", owner |-> Nobody, valid |-> FALSE]
Credentials == {NoCredentials} \cup
    [kind : {"JWT", "L1", "L2"}, owner : Owners, valid : BOOLEAN]

Headers(cred) == CASE cred.kind = "L2" -> {"L1", "L2", "none"}
                   [] cred.kind = "L1" -> {"L1", "none"}
                   [] OTHER -> {"none"}

NoRequest == [endpoint |-> Dash("GET", <<"health">>), cred |-> NoCredentials, complete |-> TRUE]

HInit == request = NoRequest /\ stage = "answered" /\ user = Nobody

Arrive ==
    /\ stage = "answered"
    /\ request' \in [endpoint : Endpoints, cred : Credentials, complete : BOOLEAN]
    /\ stage' = "arrived" /\ user' = Nobody

Bind == LET e == request.endpoint IN
    /\ stage = "arrived"
    /\ stage' = IF e.binds \in Headers(request.cred) /\ (e.query => request.complete)
                THEN "bound" ELSE "400"
    /\ UNCHANGED <<request, user>>

\* JWTMiddleware, L1Middleware and L2Middleware put the user they verified into
\* the request's context.
Authenticate == LET asked == Asked(request.endpoint) IN
    /\ stage = "bound"
    /\ \/ asked = "open" /\ stage' = "handler" /\ UNCHANGED user
       \/ /\ asked = request.cred.kind /\ request.cred.valid
          /\ stage' = "handler" /\ user' = request.cred.owner
       \/ /\ asked # "open"
          /\ asked # request.cred.kind \/ ~request.cred.valid
          /\ stage' = "401" /\ UNCHANGED user
    /\ UNCHANGED request

\* The handler, or the error, has answered.
Answer ==
    /\ stage \in {"handler", "400", "401"}
    /\ request' = NoRequest /\ stage' = "answered" /\ user' = Nobody

HNext == Arrive \/ Bind \/ Authenticate \/ Answer
HSpec == HInit /\ [][HNext]_hvars

-----------------------------------------------------------------------------
\* The switch, the generated parameters and the handlers agree: a handler that
\* asks who is calling finds the user whose credentials the request carries,
\* on every route.
HandlersKnowUser ==
    stage = "handler" /\ AsksForUser(request.endpoint) =>
        request.cred.valid /\ user = request.cred.owner /\ user # Nobody

\* Market data, registration and login need no credentials: no request for them
\* is refused for want of any.
OpenToAll == stage = "401" => AsksForUser(request.endpoint)

=============================================================================
