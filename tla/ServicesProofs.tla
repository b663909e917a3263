--------------------------- MODULE ServicesProofs ---------------------------
(***************************************************************************)
(* Registration and API keys, nonces, migrations, the rate limiter, the    *)
(* routes, the listings and the rounding of money: for any number of       *)
(* users, connections, clients, rows and crashes, and whatever the bounds  *)
(* of their models are.                                                    *)
(***************************************************************************)
EXTENDS Accounts, Nonces, Migrations, RateLimiter, Routes, Listings, Rounding, Profit,
    SumsProofs

-----------------------------------------------------------------------------
(* Accounts.                                                               *)

Keys == [id : 1 .. created, user : Nat]

\* An API key that a client holds, which may have been deleted.
Held(k) == /\ k \in Keys
           /\ \A l \in keys : l.id = k.id => l = k

RequestsOK ==
    /\ req = [r \in Requests |-> req[r]]
    /\ \A r \in Requests :
          /\ req[r].at \in {"idle", "user", "wallet", "answer", "signed", "delete"}
          /\ req[r].at \in {"wallet", "answer"} => req[r].user \in UserIds
          /\ req[r].at = "answer" =>
                /\ req[r].user \in DOMAIN wallets
                /\ wallets[req[r].user] - moved[req[r].user] = OpeningMoney
          /\ req[r].at \in {"signed", "delete"} => Held(req[r].key)

TablesOK ==
    /\ users \in Seq(Emails)
    /\ moved \in [UserIds -> Int]
    /\ DOMAIN wallets \subseteq UserIds
    /\ wallets \in [DOMAIN wallets -> Int]
    /\ \A u \in UserIds \ DOMAIN wallets : moved[u] = 0
    /\ answered \subseteq DOMAIN wallets

KeysOK ==
    /\ created \in Nat
    /\ \A k \in keys : Held(k)

\* A connection's email is kept through the whole registration.
EmailsOK == \A r \in Requests : req[r].at = "user" => req[r].email \in Emails

AInv == /\ TablesOK /\ RequestsOK /\ KeysOK /\ EmailsOK
        /\ OneUserPerEmail /\ OpeningMoneyOnce

LEMMA AInvInit == AInit => AInv
<1> SUFFICES ASSUME AInit PROVE AInv
  OBVIOUS
<1>1. TablesOK
  BY DEF AInit, TablesOK, UserIds
<1>2. RequestsOK /\ KeysOK /\ EmailsOK
  BY DEF AInit, RequestsOK, KeysOK, EmailsOK, Idle
<1>3. OneUserPerEmail /\ OpeningMoneyOnce
  BY DEF AInit, OneUserPerEmail, OpeningMoneyOnce, UserIds
<1> QED
  BY <1>1, <1>2, <1>3 DEF AInv

\* The newest key of a user is one of its keys.
LEMMA NewestExists ==
  ASSUME KeysOK, NEW u, KeysOf(u) # {}
  PROVE  Newest(u) \in KeysOf(u)
<1> DEFINE T == {created - k.id : k \in KeysOf(u)}
<1>1. \A k \in KeysOf(u) : k.id \in 1 .. created /\ created \in Nat
  BY DEF KeysOK, KeysOf, Held, Keys
<1>2. T \in SUBSET Nat /\ T # {}
  BY <1>1
<1>3. PICK n \in T : \A m \in T : n <= m
  <2> HIDE DEF T
  <2> QED
    BY <1>2, LeastElement
<1>4. PICK k \in KeysOf(u) : n = created - k.id
  BY <1>3
<1>5. ASSUME NEW l \in KeysOf(u) PROVE l.id <= k.id
  <2>1. created - l.id \in T
    OBVIOUS
  <2>2. n <= created - l.id
    BY <1>3, <2>1
  <2> QED
    BY <1>1, <1>4, <2>2
<1> QED
  BY <1>5 DEF Newest

\* A step of one connection that leaves the tables alone.
LEMMA TurnKeeps ==
  ASSUME AInv, NEW r \in Requests, NEW next, Turn(r, next),
         UNCHANGED <<users, wallets, moved, answered, keys, created>>,
         next.at \in {"idle", "user", "wallet", "answer", "signed", "delete"},
         next.at = "user" => next.email \in Emails,
         next.at \in {"wallet", "answer"} => next.user \in UserIds,
         next.at = "answer" =>
            /\ next.user \in DOMAIN wallets
            /\ wallets[next.user] - moved[next.user] = OpeningMoney,
         next.at \in {"signed", "delete"} => Held(next.key)
  PROVE  AInv'
<1>1. /\ req' = [q \in Requests |-> IF q = r THEN next ELSE req[q]]
      /\ UserIds' = UserIds
      /\ \A k : Held(k)' <=> Held(k)
  BY DEF AInv, RequestsOK, Turn, UserIds, Held, Keys
<1>2. RequestsOK'
  BY <1>1 DEF AInv, RequestsOK
<1>3. EmailsOK'
  BY <1>1 DEF AInv, EmailsOK
<1>4. TablesOK' /\ KeysOK' /\ OneUserPerEmail' /\ OpeningMoneyOnce'
  BY <1>1 DEF AInv, TablesOK, KeysOK, OneUserPerEmail, OpeningMoneyOnce
<1> QED
  BY <1>2, <1>3, <1>4 DEF AInv

LEMMA RegistrationKeeps ==
  ASSUME AInv, NEW r \in Requests, Registration(r)
  PROVE  AInv'
<1>1. CASE RegisterLookup(r)
  <2>1. PICK e \in Emails : Turn(r, [at |-> "user", email |-> e])
    BY <1>1 DEF RegisterLookup
  <2> QED
    BY <1>1, <2>1, TurnKeeps
       DEF RegisterLookup, accountsUnchanged, keysUnchanged
<1>2. CASE RegisterUser(r)
  <2>1. CASE Taken(req[r].email)
    <3>1. Turn(r, Idle) /\ users' = users
      BY <1>2, <2>1 DEF RegisterUser, CreateUser
    <3>2. moved' = moved
      BY <1>2, <3>1 DEF RegisterUser, AInv, TablesOK, UserIds
    <3> QED
      BY <1>2, <3>1, <3>2, TurnKeeps DEF RegisterUser, keysUnchanged, Idle
  <2>2. CASE ~Taken(req[r].email)
    <3> DEFINE n == Len(users) + 1
               next == [at |-> "wallet", user |-> n]
    <3>1. /\ users' = Append(users, req[r].email)
          /\ Turn(r, next)
          /\ req[r].email \in Emails
          /\ UNCHANGED <<wallets, answered, keys, created>>
      BY <1>2, <2>2 DEF RegisterUser, CreateUser, keysUnchanged, AInv, EmailsOK
    <3>2. /\ users \in Seq(Emails) /\ Len(users) \in Nat
          /\ UserIds = 1 .. Len(users)
      BY DEF AInv, TablesOK, UserIds
    <3>3. /\ users' \in Seq(Emails) /\ UserIds' = 1 .. n
          /\ users'[n] = req[r].email
          /\ \A u \in UserIds : users'[u] = users[u]
          /\ UserIds \subseteq UserIds'
      BY <3>1, <3>2 DEF UserIds
    <3>4. moved' = [u \in UserIds' |-> IF u \in UserIds THEN moved[u] ELSE 0]
      BY <1>2 DEF RegisterUser, UserIds
    <3>5. TablesOK'
      BY <3>1, <3>3, <3>4 DEF AInv, TablesOK
    <3>6. OneUserPerEmail'
      <4>1. \A u \in UserIds : users[u] # req[r].email
        BY <2>2 DEF Taken
      <4>2. \A u \in UserIds' : u \in UserIds \/ u = n
        BY <3>2, <3>3
      <4> QED
        BY <3>3, <4>1, <4>2 DEF AInv, OneUserPerEmail
    <3>7. OpeningMoneyOnce'
      BY <3>1, <3>4, <3>3 DEF AInv, OpeningMoneyOnce, TablesOK
    <3>8. /\ req' = [q \in Requests |-> IF q = r THEN next ELSE req[q]]
          /\ \A k : Held(k)' <=> Held(k)
          /\ n \in UserIds'
      BY <3>1, <3>2, <3>3 DEF AInv, RequestsOK, Turn, Held, Keys
    <3>9. RequestsOK'
      <4>1. /\ wallets' = wallets
            /\ \A u \in DOMAIN wallets : u \in UserIds /\ moved'[u] = moved[u]
        BY <3>1, <3>3, <3>4 DEF AInv, TablesOK
      <4> QED
        BY <3>3, <3>8, <4>1 DEF AInv, RequestsOK
    <3>10. EmailsOK' /\ KeysOK'
      BY <3>1, <3>8 DEF AInv, EmailsOK, KeysOK
    <3> QED
      BY <3>5, <3>6, <3>7, <3>9, <3>10 DEF AInv
  <2> QED
    BY <2>1, <2>2
<1>3. CASE RegisterWallet(r)
  <2> DEFINE u == req[r].user
  <2>1. CASE u \in DOMAIN wallets
    BY <1>3, <2>1, TurnKeeps
       DEF RegisterWallet, CreateCollateralWallet, keysUnchanged, Idle
  <2>2. CASE u \notin DOMAIN wallets
    <3> DEFINE next == [at |-> "answer", user |-> u]
    <3>1. /\ wallets' = [v \in DOMAIN wallets \cup {u} |->
                            IF v = u THEN OpeningMoney ELSE wallets[v]]
          /\ Turn(r, next)
          /\ UNCHANGED <<users, moved, answered, keys, created>>
      BY <1>3, <2>2 DEF RegisterWallet, CreateCollateralWallet, keysUnchanged
    <3>2. u \in UserIds /\ moved[u] = 0
      BY <1>3, <2>2 DEF RegisterWallet, AInv, RequestsOK, TablesOK
    <3>3. OpeningMoney \in Int
      BY AccountsAssumption
    <3>4. UserIds' = UserIds /\ \A k : Held(k)' <=> Held(k)
      BY <3>1 DEF UserIds, Held, Keys
    <3> HIDE DEF u
    <3>5. TablesOK'
      BY <2>2, <3>1, <3>2, <3>3, <3>4 DEF AInv, TablesOK
    <3>6. /\ wallets'[u] - moved'[u] = OpeningMoney
          /\ u \in DOMAIN wallets'
          /\ \A v \in DOMAIN wallets :
                v \in DOMAIN wallets' /\ wallets'[v] - moved'[v] = wallets[v] - moved[v]
      BY <2>2, <3>1, <3>2, <3>3
    <3>7. OpeningMoneyOnce'
      <4>1. \A v \in DOMAIN wallets' : v \in DOMAIN wallets \/ v = u
        BY <3>1
      <4> QED
        BY <3>1, <3>6, <4>1 DEF AInv, OpeningMoneyOnce
    <3>8. req' = [q \in Requests |-> IF q = r THEN next ELSE req[q]]
      BY <3>1 DEF AInv, RequestsOK, Turn
    <3>9. RequestsOK' /\ EmailsOK'
      BY <3>2, <3>4, <3>6, <3>8 DEF AInv, RequestsOK, EmailsOK
    <3>10. KeysOK' /\ OneUserPerEmail'
      BY <3>1, <3>4 DEF AInv, KeysOK, OneUserPerEmail
    <3> QED
      BY <3>5, <3>7, <3>9, <3>10 DEF AInv
  <2> QED
    BY <2>1, <2>2
<1>4. CASE RegisterAnswer(r)
  <2> DEFINE u == req[r].user
  <2>1. /\ u \in DOMAIN wallets /\ wallets[u] - moved[u] = OpeningMoney
    BY <1>4 DEF RegisterAnswer, AInv, RequestsOK
  <2>2. /\ UNCHANGED <<users, wallets, moved, keys, created>>
        /\ answered' = answered \cup {u}
        /\ Turn(r, Idle)
    BY <1>4 DEF RegisterAnswer, keysUnchanged
  <2>3. /\ req' = [q \in Requests |-> IF q = r THEN Idle ELSE req[q]]
        /\ UserIds' = UserIds
        /\ \A k : Held(k)' <=> Held(k)
    BY <2>2 DEF AInv, RequestsOK, Turn, UserIds, Held, Keys
  <2>4. RequestsOK' /\ EmailsOK'
    BY <2>2, <2>3 DEF AInv, RequestsOK, EmailsOK, Idle
  <2>5. TablesOK' /\ OpeningMoneyOnce' /\ KeysOK' /\ OneUserPerEmail'
    BY <2>1, <2>2, <2>3
       DEF AInv, TablesOK, OpeningMoneyOnce, KeysOK, OneUserPerEmail
  <2> QED
    BY <2>4, <2>5 DEF AInv
<1> QED
  BY <1>1, <1>2, <1>3, <1>4 DEF Registration

\* A deposit or a withdrawal moves the wallet of a user together with what the
\* user moved; only a deposit makes a wallet, which then holds nothing else.
LEMMA WalletMoves ==
  ASSUME AInv, NEW u \in UserIds, NEW n \in Int,
         moved' = [moved EXCEPT ![u] = moved[u] + n],
         wallets' = [v \in DOMAIN wallets \cup {u} |->
                        IF v # u THEN wallets[v]
                        ELSE IF u \in DOMAIN wallets THEN wallets[u] + n ELSE n],
         UNCHANGED <<users, answered, keys, created, req>>
  PROVE  AInv'
<1>1. UserIds' = UserIds /\ \A k : Held(k)' <=> Held(k)
  BY DEF UserIds, Held, Keys
<1>2. TablesOK'
  BY <1>1 DEF AInv, TablesOK
<1>3. \A v \in DOMAIN wallets :
         /\ v \in DOMAIN wallets'
         /\ wallets'[v] - moved'[v] = wallets[v] - moved[v]
  BY DEF AInv, TablesOK
<1>4. ASSUME u \notin DOMAIN wallets
      PROVE  wallets'[u] - moved'[u] = 0
  BY <1>4 DEF AInv, TablesOK
<1>5. OpeningMoneyOnce'
  <2>1. \A v \in DOMAIN wallets' : v \in DOMAIN wallets \/ v = u
    OBVIOUS
  <2>2. \A v \in DOMAIN wallets' : wallets'[v] - moved'[v] \in {0, OpeningMoney}
    BY <1>3, <1>4, <2>1 DEF AInv, OpeningMoneyOnce
  <2>3. \A v \in answered : v \in DOMAIN wallets /\ wallets[v] - moved[v] = OpeningMoney
    BY DEF AInv, OpeningMoneyOnce
  <2>4. \A v \in answered' : v \in DOMAIN wallets' /\ wallets'[v] - moved'[v] = OpeningMoney
    BY <1>3, <2>3
  <2> QED
    BY <2>2, <2>4 DEF OpeningMoneyOnce
<1>6. RequestsOK' /\ EmailsOK'
  BY <1>1, <1>3 DEF AInv, RequestsOK, EmailsOK
<1>7. KeysOK' /\ OneUserPerEmail'
  BY <1>1 DEF AInv, KeysOK, OneUserPerEmail
<1> QED
  BY <1>2, <1>5, <1>6, <1>7 DEF AInv

LEMMA MoneyKeeps ==
  ASSUME AInv, NEW r \in Requests, Money(r)
  PROVE  AInv'
<1>1. UNCHANGED <<users, answered, keys, created, req>>
  BY DEF Money, Deposit, Withdraw, keysUnchanged
<1>2. /\ moved \in [UserIds -> Int]
      /\ wallets \in [DOMAIN wallets -> Int]
  BY DEF AInv, TablesOK
<1>3. CASE Deposit(r)
  <2>1. PICK u \in UserIds :
           /\ moved' = [moved EXCEPT ![u] = moved[u] + 1]
           /\ wallets' = [v \in DOMAIN wallets \cup {u} |->
                IF v # u THEN wallets[v]
                ELSE IF u \in DOMAIN wallets THEN wallets[u] + 1 ELSE 1]
    BY <1>3 DEF Deposit
  <2>2. 1 \in Int
    OBVIOUS
  <2> QED
    BY <1>1, <2>1, <2>2, WalletMoves
<1>4. CASE Withdraw(r)
  <2>1. PICK u \in UserIds \cap DOMAIN wallets :
           /\ moved' = [moved EXCEPT ![u] = moved[u] - 1]
           /\ wallets' = [wallets EXCEPT ![u] = wallets[u] - 1]
    BY <1>4 DEF Withdraw
  <2> DEFINE n == 0 - 1
  <2>2. /\ n \in Int
        /\ moved[u] - 1 = moved[u] + n /\ wallets[u] - 1 = wallets[u] + n
    BY <1>2
  <2> HIDE DEF n
  <2>3. wallets' = [v \in DOMAIN wallets \cup {u} |->
                      IF v # u THEN wallets[v]
                      ELSE IF u \in DOMAIN wallets THEN wallets[u] + n ELSE n]
    BY <1>2, <2>1, <2>2
  <2>4. moved' = [moved EXCEPT ![u] = moved[u] + n]
    BY <2>1, <2>2
  <2> QED
    BY <1>1, <2>2, <2>3, <2>4, WalletMoves
<1> QED
  BY <1>3, <1>4 DEF Money

LEMMA KeyRequestKeeps ==
  ASSUME AInv, NEW r \in Requests, KeyRequest(r)
  PROVE  AInv'
<1>1. CASE CreateAPIKey(r)
  <2>1. PICK u \in UserIds :
           LET k == [id |-> created + 1, user |-> u]
           IN  /\ keys' = keys \cup {k} /\ created' = created + 1
               /\ Turn(r, [at |-> "signed", key |-> k])
               /\ accountsUnchanged
    BY <1>1 DEF CreateAPIKey
  <2>0. PICK k : k = [id |-> created + 1, user |-> u]
    OBVIOUS
  <2> DEFINE next == [at |-> "signed", key |-> k]
  <2>2. /\ keys' = keys \cup {k} /\ created' = created + 1
        /\ Turn(r, next)
        /\ UNCHANGED <<users, wallets, moved, answered>>
        /\ created \in Nat
    BY <2>0, <2>1 DEF accountsUnchanged, AInv, KeysOK
  <2>3. u \in Nat
    BY DEF AInv, TablesOK, UserIds
  <2>4. Held(k)'
    <3>1. k \in Keys'
      BY <2>0, <2>2, <2>3 DEF Keys
    <3>2. \A l \in keys : l.id # k.id
      BY <2>0, <2>2 DEF AInv, KeysOK, Held, Keys
    <3> QED
      BY <2>2, <3>1, <3>2 DEF Held
  <2>5. ASSUME NEW h, Held(h) PROVE Held(h)'
    <3>1. h \in Keys /\ h.id \in 1 .. created /\ h.id # created + 1
      BY <2>2, <2>5 DEF Held, Keys
    <3>2. h \in Keys'
      BY <2>2, <3>1 DEF Keys
    <3>3. k.id = created + 1
      BY <2>0
    <3>4. \A l \in keys' : l.id = h.id => l = h
      BY <2>2, <2>5, <3>1, <3>3 DEF Held
    <3> QED
      BY <3>2, <3>4 DEF Held
  <2>6. KeysOK'
    BY <2>2, <2>4, <2>5 DEF AInv, KeysOK
  <2>7. /\ req' = [q \in Requests |-> IF q = r THEN next ELSE req[q]]
        /\ UserIds' = UserIds
    BY <2>2 DEF AInv, RequestsOK, Turn, UserIds
  <2>8. RequestsOK' /\ EmailsOK'
    BY <2>2, <2>4, <2>5, <2>7 DEF AInv, RequestsOK, EmailsOK
  <2>9. TablesOK' /\ OpeningMoneyOnce' /\ OneUserPerEmail'
    BY <2>2, <2>7 DEF AInv, TablesOK, OpeningMoneyOnce, OneUserPerEmail
  <2> QED
    BY <2>6, <2>8, <2>9 DEF AInv
<1>2. CASE DeriveAPIKey(r)
  <2>1. PICK u \in UserIds :
           /\ KeysOf(u) # {}
           /\ Turn(r, [at |-> "signed", key |-> Newest(u)])
    BY <1>2 DEF DeriveAPIKey
  <2>2. Held(Newest(u))
    BY <2>1, NewestExists DEF AInv, KeysOK, KeysOf
  <2> QED
    BY <1>2, <2>1, <2>2, TurnKeeps
       DEF DeriveAPIKey, accountsUnchanged, keysUnchanged
<1>3. CASE VerifyL2Auth(r)
  <2>1. Held(req[r].key)
    BY <1>3 DEF VerifyL2Auth, AInv, RequestsOK
  <2>2. UNCHANGED <<users, wallets, moved, answered, keys, created>>
    BY <1>3 DEF VerifyL2Auth, accountsUnchanged, keysUnchanged
  <2>3. CASE req[r].key \in keys
    <3>1. Turn(r, [at |-> "delete", key |-> req[r].key])
      BY <1>3, <2>3 DEF VerifyL2Auth
    <3> QED
      BY <2>1, <2>2, <3>1, TurnKeeps
  <2>4. CASE req[r].key \notin keys
    <3>1. Turn(r, Idle)
      BY <1>3, <2>4 DEF VerifyL2Auth
    <3> QED
      BY <2>2, <3>1, TurnKeeps DEF Idle
  <2> QED
    BY <2>3, <2>4
<1>4. CASE DeleteAPIKey(r) \/ DeleteAPIKeyForUser(r)
  <2>1. /\ keys' \subseteq keys
        /\ UNCHANGED <<users, wallets, moved, answered, created>>
        /\ Turn(r, Idle) \/ req' = req
    BY <1>4 DEF DeleteAPIKey, DeleteAPIKeyForUser, accountsUnchanged
  <2>2. (\A k : Held(k) => Held(k)') /\ UserIds' = UserIds
    BY <2>1 DEF Held, Keys, UserIds
  <2>3. /\ req' = [q \in Requests |-> req'[q]]
        /\ \A q \in Requests : req'[q] \in {Idle, req[q]}
    BY <2>1 DEF Turn, AInv, RequestsOK
  <2>4. RequestsOK' /\ EmailsOK'
    BY <2>1, <2>2, <2>3 DEF AInv, RequestsOK, EmailsOK, Idle
  <2>5. KeysOK'
    BY <2>1, <2>2 DEF AInv, KeysOK
  <2>6. TablesOK' /\ OpeningMoneyOnce' /\ OneUserPerEmail'
    BY <2>1, <2>2 DEF AInv, TablesOK, OpeningMoneyOnce, OneUserPerEmail
  <2> QED
    BY <2>4, <2>5, <2>6 DEF AInv
<1> QED
  BY <1>1, <1>2, <1>3, <1>4 DEF KeyRequest

LEMMA AInvariance == ASpec => []AInv
<1>1. AInv /\ [ANext]_avars => AInv'
  <2> SUFFICES ASSUME AInv, [ANext]_avars PROVE AInv'
    OBVIOUS
  <2>1. CASE Restart
    <3>1. /\ req' = [q \in Requests |-> req'[q]]
          /\ \A q \in Requests : req'[q] \in {Idle, req[q]}
          /\ UNCHANGED <<users, wallets, moved, answered, keys, created>>
      BY <2>1 DEF Restart, accountsUnchanged, keysUnchanged
    <3>2. UserIds' = UserIds /\ \A k : Held(k)' <=> Held(k)
      BY <3>1 DEF UserIds, Held, Keys
    <3>3. RequestsOK' /\ EmailsOK'
      BY <3>1, <3>2 DEF AInv, RequestsOK, EmailsOK, Idle
    <3>4. TablesOK' /\ KeysOK' /\ OpeningMoneyOnce' /\ OneUserPerEmail'
      BY <3>1, <3>2
         DEF AInv, TablesOK, KeysOK, OpeningMoneyOnce, OneUserPerEmail
    <3> QED
      BY <3>3, <3>4 DEF AInv
  <2>2. CASE \E r \in Requests : Registration(r) \/ Money(r) \/ KeyRequest(r)
    BY <2>2, RegistrationKeeps, MoneyKeeps, KeyRequestKeeps
  <2>3. CASE UNCHANGED avars
    <3>1. UNCHANGED <<users, wallets, moved, answered, keys, created, req>>
      BY <2>3 DEF avars
    <3>2. UserIds' = UserIds /\ \A k : Held(k)' <=> Held(k)
      BY <3>1 DEF UserIds, Held, Keys
    <3>3. RequestsOK' /\ EmailsOK'
      BY <3>1, <3>2 DEF AInv, RequestsOK, EmailsOK
    <3>4. TablesOK' /\ KeysOK' /\ OpeningMoneyOnce' /\ OneUserPerEmail'
      BY <3>1, <3>2
         DEF AInv, TablesOK, KeysOK, OpeningMoneyOnce, OneUserPerEmail
    <3> QED
      BY <3>3, <3>4 DEF AInv
  <2> QED
    BY <2>1, <2>2, <2>3 DEF ANext
<1> QED
  BY <1>1, AInvInit, PTL DEF ASpec

\* However many registrations of an email run at once, it gets one user.
THEOREM EmailsUnique == ASpec => []OneUserPerEmail
<1>1. AInv => OneUserPerEmail
  BY DEF AInv
<1> QED
  BY <1>1, AInvariance, PTL

\* A user gets the opening money at most once, and has it when the
\* registration is answered, whatever deposits came first and wherever other
\* registrations stopped.
THEOREM OpeningMoneyPaidOnce == ASpec => []OpeningMoneyOnce
<1>1. AInv => OpeningMoneyOnce
  BY DEF AInv
<1> QED
  BY <1>1, AInvariance, PTL

\* Only requests of its owner delete an API key: the id of a key that was
\* checked, or that a browser names, is never the id of somebody else's key.
THEOREM OwnersRemoveKeys == ASpec => KeysRemovedByOwner
<1>1. AInv /\ [ANext]_avars => [\A k \in keys \ keys' : caller' = k.user]_avars
  <2> SUFFICES ASSUME AInv, [ANext]_avars, NEW k \in keys \ keys'
               PROVE  caller' = k.user
    OBVIOUS
  <2>1. PICK r \in Requests : DeleteAPIKey(r) \/ DeleteAPIKeyForUser(r)
    <3>1. ~ UNCHANGED avars
      BY DEF avars
    <3>2. ~ Restart
      BY DEF Restart, keysUnchanged
    <3>3. PICK r \in Requests : Registration(r) \/ Money(r) \/ KeyRequest(r)
      BY <3>1, <3>2 DEF ANext
    <3>4. ~ Registration(r)
      BY DEF Registration, RegisterLookup, RegisterUser, RegisterWallet,
             RegisterAnswer, keysUnchanged
    <3>5. ~ Money(r)
      BY DEF Money, Deposit, Withdraw, keysUnchanged
    <3>6. ~ (CreateAPIKey(r) \/ DeriveAPIKey(r) \/ VerifyL2Auth(r))
      BY DEF CreateAPIKey, DeriveAPIKey, VerifyL2Auth, keysUnchanged
    <3> QED
      BY <3>3, <3>4, <3>5, <3>6 DEF KeyRequest
  <2>2. CASE DeleteAPIKey(r)
    <3>1. k.id = req[r].key.id /\ caller' = req[r].key.user
      BY <2>2 DEF DeleteAPIKey
    <3>2. Held(req[r].key)
      BY <2>2 DEF DeleteAPIKey, AInv, RequestsOK
    <3> QED
      BY <3>1, <3>2 DEF Held
  <2>3. CASE DeleteAPIKeyForUser(r)
    BY <2>3 DEF DeleteAPIKeyForUser, DeletedForUser
  <2> QED
    BY <2>1, <2>2, <2>3
<1> QED
  BY <1>1, AInvariance, PTL DEF ASpec, KeysRemovedByOwner

-----------------------------------------------------------------------------
(* Nonces: what the table remembers of a nonce was let through when the row *)
(* was written, and is forgotten by both at the same time.                  *)

Remembered ==
    \A n \in Numbers : used[n] # NoValue =>
        /\ used[n].at \in Int
        /\ used[n].at > now - Memory =>
              \E a \in accepted :
                  a.ts = used[n].ts /\ a.nonce = n /\ a.at = used[n].at

NonceInv ==
    /\ now \in Int
    /\ used = [n \in Numbers |-> used[n]]
    /\ \A s \in Signers : signing[s] # NoValue => signing[s].nonce \in Numbers
    /\ signing = [s \in Signers |-> signing[s]]
    /\ Remembered
    /\ OnlyRepeatsRefused

LEMMA NonceStep ==
  ASSUME NonceInv, NNext
  PROVE  NonceInv'
<1>0. Memory \in Int
  BY NoncesAssumption
<1>1. CASE ClockTick
  <2>1. /\ now' = now + 1 /\ refused' = NoValue
        /\ accepted' = {a \in accepted : a.at > now' - Memory}
        /\ UNCHANGED <<used, signing>>
    BY <1>1 DEF ClockTick
  <2>2. ASSUME NEW n \in Numbers, used[n] # NoValue, used[n].at > now' - Memory
        PROVE  \E a \in accepted' :
                  a.ts = used[n].ts /\ a.nonce = n /\ a.at = used[n].at
    <3>1. used[n].at > now - Memory
      BY <1>0, <2>1, <2>2 DEF NonceInv, Remembered
    <3> QED
      BY <2>1, <2>2, <3>1 DEF NonceInv, Remembered
  <2>3. Remembered'
    BY <2>1, <2>2 DEF NonceInv, Remembered
  <2> QED
    BY <2>1, <2>3 DEF NonceInv, OnlyRepeatsRefused
<1>2. ASSUME NEW s \in Signers, Sign(s) PROVE NonceInv'
  <2>1. PICK ts \in (now - Skew) .. (now + Skew), n \in Numbers :
           signing' = [signing EXCEPT ![s] =
                          [ts |-> ts, nonce |-> n, at |-> "check"]]
    BY <1>2 DEF Sign
  <2>2. UNCHANGED <<now, used, accepted, refused>>
    BY <1>2 DEF Sign
  <2>3. \A q \in Signers : signing'[q] # NoValue => signing'[q].nonce \in Numbers
    BY <2>1 DEF NonceInv
  <2> QED
    BY <2>1, <2>2, <2>3 DEF NonceInv, Remembered, OnlyRepeatsRefused
<1>3. ASSUME NEW s \in Signers, Check(s) PROVE NonceInv'
  <2> DEFINE q == signing[s]
             outside == q.ts - now > TimestampWindow \/ now - q.ts > TimestampWindow
             again   == ~outside /\ IsNonceUsed(q.nonce, q.ts)
  <2>1. /\ q # NoValue
        /\ signing' = [signing EXCEPT ![s] =
              IF outside \/ again THEN NoValue ELSE [q EXCEPT !.at = "record"]]
        /\ refused' = IF again THEN [ts |-> q.ts, nonce |-> q.nonce] ELSE NoValue
        /\ UNCHANGED <<now, used, accepted>>
    BY <1>3 DEF Check
  <2>2. q.nonce \in Numbers
    BY <2>1 DEF NonceInv
  <2>3. OnlyRepeatsRefused'
    <3>1. CASE again
      <4>1. /\ refused'.ts = q.ts /\ refused'.nonce = q.nonce
            /\ IsNonceUsed(q.nonce, q.ts)
        BY <2>1, <3>1
      <4>2. \E a \in accepted : a.ts = q.ts /\ a.nonce = q.nonce
        BY <2>2, <4>1 DEF IsNonceUsed, NonceInv, Remembered
      <4> QED
        BY <2>1, <4>1, <4>2 DEF OnlyRepeatsRefused
    <3>2. CASE ~again
      BY <2>1, <3>2 DEF OnlyRepeatsRefused
    <3> QED
      BY <3>1, <3>2
  <2>4. \A c \in Signers : signing'[c] # NoValue => signing'[c].nonce \in Numbers
    <3>1. [q EXCEPT !.at = "record"].nonce = q.nonce
      OBVIOUS
    <3> QED
      BY <2>1, <2>2, <3>1 DEF NonceInv
  <2>5. Remembered'
    BY <2>1 DEF NonceInv, Remembered
  <2> QED
    BY <2>1, <2>3, <2>4, <2>5 DEF NonceInv
<1>4. ASSUME NEW s \in Signers, Record(s) PROVE NonceInv'
  <2> DEFINE q == signing[s]
             a == [ts |-> q.ts, nonce |-> q.nonce, at |-> now]
  <2>1. /\ q # NoValue
        /\ used' = [used EXCEPT ![q.nonce] = [ts |-> q.ts, at |-> now]]
        /\ accepted' = accepted \cup {a}
        /\ signing' = [signing EXCEPT ![s] = NoValue]
        /\ refused' = NoValue /\ now' = now
    BY <1>4 DEF Record
  <2>2. ASSUME NEW n \in Numbers, used'[n] # NoValue
        PROVE  /\ used'[n].at \in Int
               /\ used'[n].at > now' - Memory =>
                     \E b \in accepted' :
                        b.ts = used'[n].ts /\ b.nonce = n /\ b.at = used'[n].at
    <3>1. CASE n = q.nonce
      <4>1. used'[n] = [ts |-> q.ts, at |-> now]
        BY <2>1, <3>1 DEF NonceInv
      <4>2. a \in accepted' /\ a.ts = q.ts /\ a.nonce = n /\ a.at = now
        BY <2>1, <3>1
      <4> QED
        BY <4>1, <4>2 DEF NonceInv
    <3>2. CASE n # q.nonce
      BY <2>1, <2>2, <3>2 DEF NonceInv, Remembered
    <3> QED
      BY <3>1, <3>2
  <2>3. Remembered'
    BY <2>2 DEF Remembered
  <2>4. \A c \in Signers : signing'[c] # NoValue => signing'[c].nonce \in Numbers
    BY <2>1 DEF NonceInv
  <2> QED
    BY <2>1, <2>3, <2>4 DEF NonceInv, OnlyRepeatsRefused
<1>5. ASSUME NEW s \in Signers, Drop(s) PROVE NonceInv'
  BY <1>5 DEF Drop, NonceInv, Remembered, OnlyRepeatsRefused
<1> QED
  BY <1>1, <1>2, <1>3, <1>4, <1>5 DEF NNext

\* A request is refused for its nonce only when the same nonce and timestamp
\* were let through within Memory, for any number of concurrent requests and
\* any skew of the clocks.
THEOREM RepeatsRefused == NSpec => []OnlyRepeatsRefused
<1>1. NInit => NonceInv
  BY DEF NInit, NonceInv, Remembered, OnlyRepeatsRefused
<1>2. NonceInv /\ [NNext]_nvars => NonceInv'
  <2>1. NonceInv /\ UNCHANGED nvars => NonceInv'
    BY DEF nvars, NonceInv, Remembered, OnlyRepeatsRefused
  <2> QED
    BY <2>1, NonceStep
<1>3. NonceInv => OnlyRepeatsRefused
  BY DEF NonceInv
<1> QED
  BY <1>1, <1>2, <1>3, PTL DEF NSpec

-----------------------------------------------------------------------------
(* Migrations.  The files recorded are the first k; the schema is the one   *)
(* after them, or after one file more, whose record a crash prevented.      *)

After(k) ==
    CASE k = 0 -> {}
      [] k = 1 -> {"tables", "api_key", "fill_key", "associate_trades"}
      [] k = 2 -> {"tables", "fill_key", "associate_trades"}
      [] k = 3 -> {"tables", "fill_key", "associate_trades", "any outcome"}
      [] k = 4 -> {"tables", "any outcome"}
      [] k = 5 -> {"tables", "any outcome", "fill_key"}

Progress(s, k) ==
    /\ recorded = 1 .. k
    /\ schema \in {After(k), After(IF k = 5 THEN 5 ELSE k + 1)}
    /\ server[s].at = "check" => server[s].file \in 1 .. (k + 1) \cap Files
    /\ server[s].at \in {"apply", "record"} => k < 5 /\ server[s].file = k + 1
    /\ server[s].at = "record" => schema = After(k + 1)
    /\ server[s].at = "serving" => k = 5

\* The deployments the files are written for start one server at a time.
OneServer == \E s : Servers = {s}

MigrationInv ==
    /\ OneServer
    /\ server = [s \in Servers |-> server[s]]
    /\ \A s \in Servers :
          /\ server[s].at \in {"down", "check", "apply", "record", "serving"}
          /\ \E k \in 0 .. 5 : Progress(s, k)

\* The schemas and the files one by one.
LEMMA Schemas ==
  /\ After(0) = {}
  /\ After(1) = {"tables", "api_key", "fill_key", "associate_trades"}
  /\ After(2) = {"tables", "fill_key", "associate_trades"}
  /\ After(3) = {"tables", "fill_key", "associate_trades", "any outcome"}
  /\ After(4) = {"tables", "any outcome"}
  /\ After(5) = {"tables", "any outcome", "fill_key"}
<1>1. After(0) = {}
  BY DEF After
<1>2. After(1) = {"tables", "api_key", "fill_key", "associate_trades"}
  BY DEF After
<1>3. After(2) = {"tables", "fill_key", "associate_trades"}
  BY DEF After
<1>4. After(3) = {"tables", "fill_key", "associate_trades", "any outcome"}
  BY DEF After
<1>5. After(4) = {"tables", "any outcome"}
  BY DEF After
<1>6. After(5) = {"tables", "any outcome", "fill_key"}
  BY DEF After
<1> QED
  BY <1>1, <1>2, <1>3, <1>4, <1>5, <1>6

LEMMA FilesChange ==
  /\ Applied(1) = schema \cup {"tables", "api_key", "fill_key", "associate_trades"}
  /\ Applied(2) = schema \ {"api_key"}
  /\ Applied(3) = schema \cup {"any outcome"}
  /\ Applied(4) = schema \ {"fill_key", "associate_trades"}
  /\ Applied(5) = schema \cup {"fill_key"}
  /\ Executable(1) => "tables" \notin schema
  /\ Executable(2) => "api_key" \in schema
<1>1. Applied(1) = schema \cup {"tables", "api_key", "fill_key", "associate_trades"}
  BY DEF Applied
<1>2. Applied(2) = schema \ {"api_key"}
  BY DEF Applied
<1>3. Applied(3) = schema \cup {"any outcome"}
  BY DEF Applied
<1>4. Applied(4) = schema \ {"fill_key", "associate_trades"}
  BY DEF Applied
<1>5. Applied(5) = schema \cup {"fill_key"}
  BY DEF Applied
<1>6. /\ Executable(1) => "tables" \notin schema
      /\ Executable(2) => "api_key" \in schema
  BY DEF Executable
<1> QED
  BY <1>1, <1>2, <1>3, <1>4, <1>5, <1>6

\* A file that can be executed makes the schema that follows it, whether or not
\* it was executed before.
LEMMA FileApplies ==
  ASSUME NEW k \in 0 .. 4, Executable(k + 1),
         schema = After(k) \/ schema = After(k + 1)
  PROVE  Applied(k + 1) = After(k + 1)
<1>1. CASE k = 0
  <2>1. k + 1 = 1
    BY <1>1
  <2>2. "tables" \notin schema /\ "tables" \in After(1)
    BY <2>1, Schemas, FilesChange
  <2>3. schema = After(0)
    BY <1>1, <2>1, <2>2
  <2>4. schema = {}
    BY <2>3, Schemas
  <2> QED
    BY <2>1, <2>4, Schemas, FilesChange
<1>2. CASE k = 1
  <2>1. k + 1 = 2
    BY <1>2
  <2>2. schema # After(2)
    BY <2>1, Schemas, FilesChange
  <2>3. schema = {"tables", "api_key", "fill_key", "associate_trades"}
    BY <1>2, <2>1, <2>2, Schemas
  <2>4. schema \ {"api_key"} = {"tables", "fill_key", "associate_trades"}
    BY <2>3
  <2> QED
    BY <2>1, <2>4, Schemas, FilesChange
<1>3. CASE k = 2
  <2>1. k + 1 = 3
    BY <1>3
  <2>2. schema \cup {"any outcome"}
           = {"tables", "fill_key", "associate_trades", "any outcome"}
    <3>1. \/ schema = {"tables", "fill_key", "associate_trades"}
          \/ schema = {"tables", "fill_key", "associate_trades", "any outcome"}
      BY <1>3, <2>1, Schemas
    <3> QED
      BY <3>1
  <2> QED
    BY <2>1, <2>2, Schemas, FilesChange
<1>4. CASE k = 3
  <2>1. k + 1 = 4
    BY <1>4
  <2>2. schema \ {"fill_key", "associate_trades"} = {"tables", "any outcome"}
    <3>1. \/ schema = {"tables", "fill_key", "associate_trades", "any outcome"}
          \/ schema = {"tables", "any outcome"}
      BY <1>4, <2>1, Schemas
    <3> QED
      BY <3>1
  <2> QED
    BY <2>1, <2>2, Schemas, FilesChange
<1>5. CASE k = 4
  <2>1. k + 1 = 5
    BY <1>5
  <2>2. schema \cup {"fill_key"} = {"tables", "any outcome", "fill_key"}
    <3>1. \/ schema = {"tables", "any outcome"}
          \/ schema = {"tables", "any outcome", "fill_key"}
      BY <1>5, <2>1, Schemas
    <3> QED
      BY <3>1
  <2> QED
    BY <2>1, <2>2, Schemas, FilesChange
<1> QED
  BY <1>1, <1>2, <1>3, <1>4, <1>5

\* A step of the server keeps the invariant when it keeps its own progress.
LEMMA Progresses ==
  ASSUME MigrationInv, NEW s \in Servers, NEW k \in 0 .. 5, Progress(s, k)',
         NEW at \in {"down", "check", "apply", "record", "serving"},
         NEW f, server' = [server EXCEPT ![s] = [at |-> at, file |-> f]]
  PROVE  MigrationInv'
<1>1. \A q \in Servers : q = s
  BY DEF MigrationInv, OneServer
<1>2. server'[s].at = at /\ server' = [q \in Servers |-> server'[q]]
  BY DEF MigrationInv
<1> QED
  BY <1>1, <1>2 DEF MigrationInv, OneServer

LEMMA MigrationStep ==
  ASSUME MigrationInv, NEW s \in Servers, Migrate(s) \/ Crash(s)
  PROVE  MigrationInv'
<1>1. PICK k \in 0 .. 5 : Progress(s, k)
  BY DEF MigrationInv
<1>2. server = [q \in Servers |-> server[q]]
  BY DEF MigrationInv
<1> DEFINE f == server[s].file
<1>3. CASE Start(s)
  <2>1. /\ server' = [server EXCEPT ![s] = [at |-> "check", file |-> 1]]
        /\ UNCHANGED <<schema, recorded>>
    BY <1>3 DEF Start, Goes
  <2>2. Progress(s, k)'
    BY <1>1, <1>2, <2>1 DEF Progress, Files
  <2> QED
    BY <2>1, <2>2, Progresses
<1>4. CASE CheckFile(s)
  <2>1. /\ server[s].at = "check" /\ UNCHANGED <<schema, recorded>>
        /\ recorded = 1 .. k /\ f \in 1 .. (k + 1) /\ f \in 1 .. 5
    BY <1>1, <1>4 DEF CheckFile, Progress, Files
  <2>2. CASE f \in recorded /\ f + 1 \in Files
    <3>1. server' = [server EXCEPT ![s] = [at |-> "check", file |-> f + 1]]
      BY <1>4, <2>2 DEF CheckFile, Continues, Goes
    <3>2. f + 1 \in 1 .. (k + 1)
      BY <2>1, <2>2
    <3> HIDE DEF f
    <3>3. Progress(s, k)'
      BY <1>1, <1>2, <2>1, <2>2, <3>1, <3>2 DEF Progress
    <3> QED
      BY <3>1, <3>3, Progresses
  <2>3. CASE f \in recorded /\ f + 1 \notin Files
    <3>1. server' = [server EXCEPT ![s] = [at |-> "serving", file |-> f + 1]]
      BY <1>4, <2>3 DEF CheckFile, Continues, Goes
    <3>2. k = 5
      BY <2>1, <2>3 DEF Files
    <3>3. Progress(s, k)'
      BY <1>1, <1>2, <2>1, <3>1, <3>2 DEF Progress
    <3> QED
      BY <3>1, <3>3, Progresses
  <2>4. CASE f \notin recorded
    <3>1. server' = [server EXCEPT ![s] = [at |-> "apply", file |-> f]]
      BY <1>4, <2>4 DEF CheckFile, Goes
    <3>2. f = k + 1 /\ k < 5
      BY <2>1, <2>4
    <3>3. Progress(s, k)'
      BY <1>1, <1>2, <2>1, <3>1, <3>2 DEF Progress
    <3> QED
      BY <3>1, <3>3, Progresses
  <2> QED
    BY <2>2, <2>3, <2>4
<1>5. CASE ApplyFile(s)
  <2>1. /\ server[s].at = "apply" /\ recorded' = recorded
        /\ f = k + 1 /\ k \in 0 .. 4
        /\ schema = After(k) \/ schema = After(k + 1)
    BY <1>1, <1>5 DEF ApplyFile, Progress
  <2>2. CASE Executable(f)
    <3>1. /\ schema' = Applied(f)
          /\ server' = [server EXCEPT ![s] = [at |-> "record", file |-> f]]
      BY <1>5, <2>2 DEF ApplyFile, Goes
    <3>2. Applied(f) = After(k + 1)
      BY <2>1, <2>2, FileApplies
    <3>3. Progress(s, k)'
      BY <1>1, <1>2, <2>1, <3>1, <3>2 DEF Progress
    <3> QED
      BY <3>1, <3>3, Progresses
  <2>3. CASE ~Executable(f)
    <3>1. /\ schema' = schema
          /\ server' = [server EXCEPT ![s] = [at |-> "down", file |-> 1]]
      BY <1>5, <2>3 DEF ApplyFile, Down
    <3>2. Progress(s, k)'
      BY <1>1, <1>2, <2>1, <3>1 DEF Progress
    <3> QED
      BY <3>1, <3>2, Progresses
  <2> QED
    BY <2>2, <2>3
<1>6. CASE RecordFile(s)
  <2>1. /\ server[s].at = "record" /\ schema' = schema
        /\ recorded = 1 .. k /\ f = k + 1 /\ k \in 0 .. 4
        /\ schema = After(k + 1)
    BY <1>1, <1>6 DEF RecordFile, Progress
  <2>2. recorded' = 1 .. (k + 1) /\ Continues(s, f + 1)
    <3>1. f \notin recorded
      BY <2>1
    <3>2. recorded' = recorded \cup {f} /\ Continues(s, f + 1)
      BY <1>6, <3>1 DEF RecordFile
    <3> QED
      BY <2>1, <3>2
  <2>3. CASE k < 4
    <3>1. PICK n \in 1 .. 4 : n = k + 1
      BY <2>1, <2>3
    <3>2. server' = [server EXCEPT ![s] = [at |-> "check", file |-> n + 1]]
      BY <2>1, <2>2, <2>3, <3>1 DEF Continues, Goes, Files
    <3>3. Progress(s, n)'
      BY <1>2, <2>1, <2>2, <3>1, <3>2 DEF Progress, Files
    <3>4. n \in 0 .. 5
      OBVIOUS
    <3> QED
      BY <3>2, <3>3, <3>4, Progresses
  <2>4. CASE k = 4
    <3>1. server' = [server EXCEPT ![s] = [at |-> "serving", file |-> 6]]
      BY <2>1, <2>2, <2>4 DEF Continues, Goes, Files
    <3>2. Progress(s, 5)'
      BY <1>2, <2>1, <2>2, <2>4, <3>1 DEF Progress
    <3>3. 5 \in 0 .. 5 /\ "serving" \in {"down", "check", "apply", "record", "serving"}
      OBVIOUS
    <3> QED
      BY <3>1, <3>2, <3>3, Progresses
  <2> QED
    BY <2>1, <2>3, <2>4
<1>7. CASE Crash(s)
  <2>1. /\ server' = [server EXCEPT ![s] = [at |-> "down", file |-> 1]]
        /\ UNCHANGED <<schema, recorded>>
    BY <1>7 DEF Crash, Down
  <2>2. Progress(s, k)'
    BY <1>1, <1>2, <2>1 DEF Progress
  <2> QED
    BY <2>1, <2>2, Progresses
<1> QED
  BY <1>3, <1>4, <1>5, <1>6, <1>7 DEF Migrate, MigrateFile

\* A server that is started alone serves only when every file is recorded and
\* the schema has what the queries need, however often and wherever starts
\* before it were killed.
THEOREM ServesMigrated == OneServer /\ MSpec => []ServesWholeSchema
<1>1. OneServer /\ MInit => MigrationInv
  <2> SUFFICES ASSUME OneServer, MInit PROVE MigrationInv
    OBVIOUS
  <2>1. \A s \in Servers : server[s] = [at |-> "down", file |-> 1]
    BY DEF MInit, Down
  <2>2. \A s \in Servers : Progress(s, 0)
    BY <2>1 DEF MInit, Progress, After
  <2> QED
    BY <2>1, <2>2 DEF MInit, MigrationInv
<1>2. MigrationInv /\ [MNext]_mvars => MigrationInv'
  <2>1. MigrationInv /\ UNCHANGED mvars => MigrationInv'
    BY DEF mvars, MigrationInv, OneServer, Progress
  <2> QED
    BY <2>1, MigrationStep DEF MNext
<1>3. MigrationInv => ServesWholeSchema
  <2> SUFFICES ASSUME MigrationInv, NEW s \in Servers, server[s].at = "serving"
               PROVE  Needed \subseteq schema /\ recorded = Files
    BY DEF ServesWholeSchema
  <2>1. PICK k \in 0 .. 5 : Progress(s, k)
    BY DEF MigrationInv
  <2>2. k = 5 /\ recorded = 1 .. 5 /\ schema = After(5)
    BY <2>1 DEF Progress
  <2>3. Needed \subseteq After(5)
    BY DEF Needed, After
  <2> QED
    BY <2>2, <2>3 DEF Files
<1> QED
  BY <1>1, <1>2, <1>3, PTL DEF MSpec

-----------------------------------------------------------------------------
(* Profit.                                                                 *)

\* What the row shows beyond the money it made.
Gap(r, e) == r.pnl - 2 * r.size * r.avg - e

ProfitInv ==
    /\ earned \in Int /\ slack \in Nat /\ trades \in Nat
    /\ \/ row = NoRow /\ earned = 0 /\ slack = 0
       \/ /\ row \in [size : Nat, avg : Int, pnl : Int]
          /\ Gap(row, earned) <= slack /\ 0 - Gap(row, earned) <= slack

\* A purchase moves the gap by the rounding of the average.
LEMMA RoundedAverage ==
  ASSUME NEW basis \in Int, NEW total \in Nat, NEW avg \in Int,
         2 * (avg * (2 * total) - basis) <= 2 * total,
         2 * (basis - avg * (2 * total)) <= 2 * total
  PROVE  /\ basis - 2 * total * avg <= total
         /\ 0 - (basis - 2 * total * avg) <= total
<1>1. PICK m \in Int : m = total * avg
  OBVIOUS
<1>2. avg * (2 * total) = 2 * m /\ 2 * total * avg = 2 * m
  BY <1>1
<1>3. 2 * (2 * m - basis) <= 2 * total /\ 2 * (basis - 2 * m) <= 2 * total
  BY <1>2
<1>4. basis - 2 * m <= total /\ 0 - (basis - 2 * m) <= total
  BY <1>3
<1> QED
  BY <1>2, <1>4

LEMMA BuyKeeps ==
  ASSUME ProfitInv, NEW n \in 1 .. MaxSize, NEW p \in 0 .. 2 * PriceSteps, Buy(n, p)
  PROVE  ProfitInv'
<1>1. n \in Nat /\ p \in Nat /\ earned \in Int /\ slack \in Nat
  BY ProfitAssumption DEF ProfitInv
<1> DEFINE held  == IF row = NoRow THEN 0 ELSE row.size
           basis == IF row = NoRow THEN 0 ELSE 2 * row.size * row.avg
           pnl   == IF row = NoRow THEN 0 ELSE row.pnl
<1>2. /\ held \in Nat /\ basis \in Int /\ pnl \in Int
      /\ pnl - basis - earned <= slack /\ 0 - (pnl - basis - earned) <= slack
  <2>1. CASE row = NoRow
    BY <2>1, ProfitAssumption DEF ProfitInv
  <2>2. CASE row # NoRow
    <3>1. /\ row.size \in Nat /\ row.avg \in Int /\ row.pnl \in Int
          /\ Gap(row, earned) <= slack /\ 0 - Gap(row, earned) <= slack
      BY <2>2 DEF ProfitInv
    <3> QED
      BY <2>2, <3>1 DEF Gap
  <2> QED
    BY <2>1, <2>2
<1>3. PICK avg \in NearestStep(basis + n * p, 2 * (held + n)) :
         row' = Upsert(held + n, avg, 0)
  BY DEF Buy
<1>4. row' = [size |-> held + n, avg |-> avg, pnl |-> 0 + pnl]
  BY <1>3 DEF Upsert
<1>5. /\ earned' = earned + (0 - n * p) /\ slack' = slack + held + n
      /\ trades' = trades + 1 /\ trades \in Nat
  BY DEF Buy, Trade, ProfitInv
<1> HIDE DEF held, basis, pnl
<1>6. PICK outlay \in Nat : outlay = n * p
  BY <1>1
<1>7. PICK total \in Nat : total = held + n /\ total > 0
  BY <1>1, <1>2
<1>8. /\ avg \in Int
      /\ 2 * (avg * (2 * total) - (basis + outlay)) <= 2 * total
      /\ 2 * ((basis + outlay) - avg * (2 * total)) <= 2 * total
  BY <1>2, <1>3, <1>6, <1>7 DEF NearestStep
<1>9. PICK worth \in Int : worth = 2 * total * avg
  BY <1>8
<1>10. PICK new \in Int : new = basis + outlay
  BY <1>2, <1>6
<1>11. new - worth <= total /\ 0 - (new - worth) <= total
  <2>1. /\ 2 * (avg * (2 * total) - new) <= 2 * total
        /\ 2 * (new - avg * (2 * total)) <= 2 * total
    BY <1>8, <1>10
  <2>2. /\ new - 2 * total * avg <= total
        /\ 0 - (new - 2 * total * avg) <= total
    BY <1>8, <2>1, RoundedAverage
  <2> QED
    BY <1>9, <2>2
<1>12. /\ row' = [size |-> total, avg |-> avg, pnl |-> pnl]
       /\ earned' = earned - outlay /\ slack' = slack + total
  BY <1>1, <1>2, <1>4, <1>5, <1>6, <1>7
<1>13. Gap(row', earned') = pnl - worth - (earned - outlay)
  BY <1>9, <1>12 DEF Gap
<1>14. /\ pnl - worth - (earned - outlay) <= slack + total
       /\ 0 - (pnl - worth - (earned - outlay)) <= slack + total
  BY <1>1, <1>2, <1>6, <1>7, <1>9, <1>10, <1>11
<1>15. row' \in [size : Nat, avg : Int, pnl : Int]
  BY <1>2, <1>7, <1>8, <1>12
<1>16. earned' \in Int /\ slack' \in Nat /\ trades' \in Nat
  BY <1>1, <1>5, <1>6, <1>7, <1>12
<1> QED
  BY <1>12, <1>13, <1>14, <1>15, <1>16 DEF ProfitInv

\* A sale, and a settlement, charge n shares with the average.
LEMMA SaleKeeps ==
  ASSUME ProfitInv, row # NoRow, NEW n \in Nat, n <= row.size, NEW p \in Nat,
         earned' = earned + n * p, slack' = slack, trades' = trades + 1,
         row' = [size |-> row.size - n, avg |-> row.avg,
                 pnl |-> row.pnl + n * (p - 2 * row.avg)]
  PROVE  ProfitInv'
<1>1. /\ row.size \in Nat /\ row.avg \in Int /\ row.pnl \in Int
      /\ Gap(row, earned) <= slack /\ 0 - Gap(row, earned) <= slack
      /\ earned \in Int /\ slack \in Nat /\ trades \in Nat
  BY DEF ProfitInv
<1>2. PICK a, b, c : a = n * p /\ b = n * row.avg /\ c = row.size * row.avg
  OBVIOUS
<1>3. a \in Int /\ b \in Int /\ c \in Int
  BY <1>1, <1>2
<1>4. n * (p - 2 * row.avg) = a - 2 * b
  BY <1>1, <1>2
<1>5. (row.size - n) * row.avg = c - b
  BY <1>1, <1>2
<1>6. 2 * (row.size - n) * row.avg = 2 * (c - b)
  BY <1>1, <1>5
<1>7. /\ row'.pnl = row.pnl + (a - 2 * b) /\ earned' = earned + a
      /\ 2 * row'.size * row'.avg = 2 * (c - b)
  BY <1>2, <1>4, <1>6
<1>8. Gap(row, earned) = row.pnl - 2 * c - earned
  <2>1. 2 * row.size * row.avg = 2 * c
    BY <1>1, <1>2
  <2> QED
    BY <2>1 DEF Gap
<1>9. Gap(row', earned') = Gap(row, earned)
  <2>1. PICK r, e : r = row' /\ e = earned'
    OBVIOUS
  <2>2. /\ r.pnl = row.pnl + (a - 2 * b) /\ e = earned + a
        /\ 2 * r.size * r.avg = 2 * (c - b)
    BY <1>7, <2>1
  <2>3. Gap(r, e) = (row.pnl + (a - 2 * b)) - 2 * (c - b) - (earned + a)
    <3>1. Gap(r, e) = r.pnl - 2 * r.size * r.avg - e
      BY DEF Gap
    <3> QED
      BY <2>2, <3>1, Zenon
  <2>4. Gap(r, e) = row.pnl - 2 * c - earned
    BY <1>1, <1>3, <2>3
  <2> QED
    BY <1>8, <2>1, <2>4
<1>10. row' \in [size : Nat, avg : Int, pnl : Int]
  <2>1. row.size - n \in Nat /\ n * (p - 2 * row.avg) \in Int
    BY <1>1, <1>3, <1>4
  <2> QED
    BY <1>1, <2>1
<1>11. earned' \in Int /\ slack' \in Nat /\ trades' \in Nat
  BY <1>1, <1>3, <1>7
<1> QED
  BY <1>1, <1>9, <1>10, <1>11 DEF ProfitInv

LEMMA ProfitStep == ProfitInv /\ [PNext]_pvars => ProfitInv'
<1> SUFFICES ASSUME ProfitInv, [PNext]_pvars PROVE ProfitInv'
  OBVIOUS
<1>1. ASSUME NEW n \in 1 .. MaxSize, NEW p \in 0 .. 2 * PriceSteps, Buy(n, p)
      PROVE  ProfitInv'
  BY <1>1, BuyKeeps
<1>2. ASSUME NEW n \in 1 .. MaxSize, NEW p \in 0 .. 2 * PriceSteps, Sell(n, p)
      PROVE  ProfitInv'
  <2>1. row # NoRow /\ row \in [size : Nat, avg : Int, pnl : Int]
    BY <1>2 DEF Sell, ProfitInv
  <2>2. n \in Nat /\ p \in Nat /\ n <= row.size
    BY <1>2, ProfitAssumption DEF Sell
  <2>3. /\ earned' = earned + n * p /\ slack' = slack /\ trades' = trades + 1
        /\ row' = [size |-> row.size - n, avg |-> row.avg,
                   pnl |-> n * (p - 2 * row.avg) + row.pnl]
    BY <1>2, <2>1 DEF Sell, Trade, Upsert, SaleProfit
  <2>4. row'.pnl = row.pnl + n * (p - 2 * row.avg)
    <3>1. PICK d \in Int : d = n * (p - 2 * row.avg)
      BY <2>1, <2>2
    <3> QED
      BY <2>1, <2>3, <3>1
  <2>5. row' = [size |-> row.size - n, avg |-> row.avg,
                pnl |-> row.pnl + n * (p - 2 * row.avg)]
    BY <2>3, <2>4
  <2> QED
    BY <2>1, <2>2, <2>3, <2>5, SaleKeeps
<1>3. ASSUME Settle PROVE ProfitInv'
  <2>1. PICK payout \in {0, 2 * PriceSteps} :
          /\ row # NoRow /\ row.size > 0 /\ Trade(row.size * payout)
          /\ row' = [row EXCEPT !.size = 0,
                                !.pnl = @ + row.size * (payout - 2 * row.avg)]
          /\ UNCHANGED slack
    BY <1>3 DEF Settle
  <2>2. row \in [size : Nat, avg : Int, pnl : Int]
    BY <2>1 DEF ProfitInv
  <2>3. payout \in Nat /\ row.size \in Nat /\ row.size <= row.size
        /\ row.size - row.size = 0
    BY <2>2, ProfitAssumption
  <2>4. row' = [size |-> row.size - row.size, avg |-> row.avg,
                pnl |-> row.pnl + row.size * (payout - 2 * row.avg)]
    BY <2>1, <2>2, <2>3
  <2>5. earned' = earned + row.size * payout /\ trades' = trades + 1
    BY <2>1 DEF Trade
  <2> QED
    BY <2>1, <2>3, <2>4, <2>5, SaleKeeps
<1>4. CASE UNCHANGED pvars
  BY <1>4 DEF pvars, ProfitInv, Gap
<1> QED
  BY <1>1, <1>2, <1>3, <1>4 DEF PNext

\* The profit of a position is the money it made, up to the rounding of its
\* averages, however often it is bought, sold, settled and opened again.
THEOREM ProfitMatchesMoney == PSpec => []ProfitIsMoney
<1>1. PInit => ProfitInv
  BY DEF PInit, ProfitInv
<1>2. ProfitInv => ProfitIsMoney
  BY DEF ProfitInv, ProfitIsMoney, Gap
<1> QED
  BY <1>1, <1>2, ProfitStep, PTL DEF PSpec

-----------------------------------------------------------------------------
(* Rounding.                                                               *)

Near(x, slackness) == x <= slackness /\ 0 - x <= slackness

StoredOrder == [side : {"BUY", "SELL"}, size : Nat, price : Nat, matched : Nat,
                status : {"LIVE", "MATCHED", "CANCELED"}]

OrderOK ==
    /\ placed \in StoredOrder
    /\ placed.size > 0 /\ placed.price <= Steps /\ placed.matched <= placed.size
    /\ placed.status = "LIVE" => placed.matched < placed.size

\* What an order has cost and still reserves, against what its fills cost.
Owing(o, money, worth) == 2 * Steps * money - worth - Reserved(o)

Slack(o, n) == o.size + 2 * Steps * (IF o.status = "LIVE" THEN n ELSE n + 1)

RoundingInv ==
    placed # NoOrder =>
        /\ OrderOK
        /\ spent \in Int /\ cost \in Int /\ fills \in Nat
        /\ Near(Owing(placed, spent, cost), Slack(placed, fills))

LEMMA NearestIs ==
  ASSUME NEW x \in Int, NEW q \in Nat \ {0}, NEW r \in Nearest(x, q)
  PROVE  /\ r \in Int /\ 2 * (r * q - x) <= q /\ 2 * (x - r * q) <= q
         /\ x \in Nat => r \in Nat
<1>1. x \div q \in Int /\ (x \in Nat => x \div q \in Nat)
  OBVIOUS
<1>2. r = x \div q \/ r = x \div q + 1
  BY DEF Nearest
<1>3. 2 * (r * q - x) <= q /\ 2 * (x - r * q) <= q
  BY DEF Nearest
<1> QED
  BY <1>1, <1>2, <1>3

\* What a BUY fill at a price within the stored one returns is its excess, but
\* for one money unit; a fill above the stored price returns nothing.
LEMMA CreditIs ==
  ASSUME NEW price \in Nat, NEW n \in Nat, NEW f \in Nat, NEW e \in Int,
         e = 2 * (price * n) - n * f, NEW c \in Credits("BUY", price, n, f)
  PROVE  /\ c \in Int
         /\ e >= 0 => Near(2 * (Steps * c) - e, 2 * Steps)
         /\ e < 0 => c = 0
<1>1. Excess(price, n, f) = e
  <2>1. PICK a, b : a = price * n /\ b = n * f
    OBVIOUS
  <2>2. (2 * price - f) * n = 2 * a - b
    BY <2>1
  <2> QED
    BY <2>1, <2>2 DEF Excess
<1>2. Steps \in Nat \ {0} /\ 2 * Steps \in Nat \ {0}
  BY RoundingAssumption
<1>3. c \in Returned(e)
  BY <1>1 DEF Credits
<1>4. CASE e >= 2 * Steps /\ c \in Nearest(e, 2 * Steps)
  <2>1. c \in Int /\ 2 * (c * (2 * Steps) - e) <= 2 * Steps
        /\ 2 * (e - c * (2 * Steps)) <= 2 * Steps
    BY <1>2, <1>4, NearestIs
  <2>2. PICK g \in Int : g = Steps * c
    BY <1>2, <2>1
  <2>3. c * (2 * Steps) = 2 * g
    BY <1>2, <2>1, <2>2
  <2>4. 2 * g - e <= 2 * Steps /\ 0 - (2 * g - e) <= 2 * Steps
    BY <1>2, <2>1, <2>3
  <2>5. Near(2 * (Steps * c) - e, 2 * Steps)
    BY <2>2, <2>4 DEF Near
  <2> HIDE DEF Near
  <2> QED
    BY <1>2, <1>4, <2>1, <2>5
<1>5. CASE e <= 2 * Steps /\ c = 0
  <2>1. Steps * c = 0
    BY <1>2, <1>5
  <2>2. e >= 0 => Near(2 * (Steps * c) - e, 2 * Steps)
    BY <1>2, <1>5, <2>1 DEF Near
  <2> QED
    BY <1>5, <2>2
<1> QED
  BY <1>3, <1>4, <1>5 DEF Returned

\* The money of a SELL fill, rounded to a money unit.
LEMMA ProceedsAre ==
  ASSUME NEW price \in Nat, NEW n \in Nat, NEW f \in Nat,
         NEW c \in Credits("SELL", price, n, f)
  PROVE  c \in Int /\ Near(2 * (Steps * c) - n * f, Steps)
<1>1. Steps \in Nat \ {0} /\ 2 * Steps \in Nat \ {0}
  BY RoundingAssumption
<1>2. PICK b \in Nat : b = n * f
  OBVIOUS
<1>3. c \in Nearest(b, 2 * Steps)
  BY <1>2 DEF Credits
<1>4. c \in Int /\ 2 * (c * (2 * Steps) - b) <= 2 * Steps
      /\ 2 * (b - c * (2 * Steps)) <= 2 * Steps
  BY <1>1, <1>2, <1>3, NearestIs
<1>5. PICK g \in Int : g = Steps * c
  BY <1>1, <1>4
<1>6. c * (2 * Steps) = 2 * g
  BY <1>1, <1>4, <1>5
<1>7. 2 * g - b <= Steps /\ 0 - (2 * g - b) <= Steps
  BY <1>1, <1>2, <1>4, <1>6
<1> QED
  BY <1>2, <1>4, <1>5, <1>7 DEF Near

\* The stored price against that of the request.
LEMMA StoredPriceIs ==
  ASSUME NEW x \in Int, NEW y \in Int, NEW price \in StoredPrices(x, y)
  PROVE  /\ y \in Nat \ {0} /\ price \in Nat /\ price <= Steps
         /\ Near(2 * (Steps * x) - 2 * (price * y), y)
<1>1. Steps \in Nat \ {0}
  BY RoundingAssumption
<1>2. y \in Nat \ {0} /\ price \in 0 .. Steps /\ price \in Nearest(x * Steps, y)
  BY DEF StoredPrices
<1>3. PICK a \in Int : a = Steps * x
  BY <1>1
<1>4. x * Steps = a
  BY <1>1, <1>3
<1>5. PICK d \in Int : d = price * y
  BY <1>1, <1>2
<1>6. 2 * (d - a) <= y /\ 2 * (a - d) <= y
  <2>1. 2 * (price * y - a) <= y /\ 2 * (a - price * y) <= y
    BY <1>2, <1>3, <1>4, NearestIs
  <2> QED
    BY <2>1, <1>5
<1> QED
  BY <1>1, <1>2, <1>3, <1>5, <1>6 DEF Near

\* A fill at f within the request's price x / y is not far above the stored
\* price: what it costs more is covered by the difference of the two prices.
LEMMA AboveStored ==
  ASSUME NEW y \in Nat \ {0}, NEW n \in 0 .. y, NEW p \in Int, NEW f \in Int,
         NEW d \in Int, (f - p) * y <= d, f - p > 0
  PROVE  n * (f - p) <= d /\ (n * (f - p)) * y <= n * d
<1>1. PICK h \in Nat : h = f - p
  OBVIOUS
<1>2. n * h <= y * h
  BY <1>1
<1>3. y * h = h * y /\ h * y <= d
  BY <1>1
<1>4. n * (h * y) <= n * d
  <2>1. PICK b \in Int : b = h * y
    BY <1>1
  <2>2. PICK s \in Nat : s = d - b
    BY <1>3, <2>1
  <2>3. n * s >= 0 /\ n * (b + s) = n * b + n * s
    BY <2>1, <2>2
  <2> QED
    BY <2>1, <2>2, <2>3
<1>5. (n * h) * y = n * (h * y)
  BY <1>1
<1> QED
  BY <1>1, <1>2, <1>3, <1>4, <1>5

LEMMA ScaleDown ==
  ASSUME NEW y \in Nat \ {0}, NEW w \in Int, NEW b \in Int, w * y <= b * y
  PROVE  w <= b
<1>1. CASE w > b
  <2>1. PICK s \in Nat : s = w - b - 1
    BY <1>1
  <2>2. w = b + s + 1 /\ (b + s + 1) * y = b * y + s * y + y /\ s * y >= 0
    BY <2>1
  <2>3. w * y > b * y
    <3>1. PICK bb \in Int : bb = b * y
      OBVIOUS
    <3>2. PICK sy \in Int : sy = s * y
      BY <2>1
    <3>3. w * y = bb + sy + y /\ sy >= 0
      BY <2>2, <3>1, <3>2
    <3> QED
      BY <3>1, <3>2, <3>3
  <2>4. PICK bb \in Int : bb = b * y
    OBVIOUS
  <2>5. PICK wy \in Int : wy = w * y
    OBVIOUS
  <2> QED
    BY <2>3, <2>4, <2>5
<1> QED
  BY <1>1

\* A BUY order's money after its first fill, were it LIVE.
LEMMA FirstFill ==
  ASSUME NEW x \in Int, NEW y \in Int, NEW price \in StoredPrices(x, y),
         NEW n \in 0 .. y, NEW f \in Nat, n > 0 => f * y <= 2 * Steps * x,
         NEW c \in Int, n > 0 => c \in Credits("BUY", price, n, f), n = 0 => c = 0
  PROVE  Near(2 * Steps * (x - c) - n * f - 2 * (price * (y - n)),
              y + 2 * Steps * (IF n > 0 THEN 1 ELSE 0))
<1>1. Steps \in Nat \ {0} /\ y \in Nat \ {0} /\ price \in Nat /\ n \in Nat
  BY RoundingAssumption, StoredPriceIs
<1>2. PICK X, P, Q, F, C \in Int :
         X = Steps * x /\ P = price * y /\ Q = price * n /\ F = n * f /\ C = Steps * c
  BY <1>1
<1>3. 2 * X - 2 * P <= y /\ 0 - (2 * X - 2 * P) <= y
  BY <1>2, StoredPriceIs DEF Near
<1>4. 2 * Steps * (x - c) - n * f - 2 * (price * (y - n))
         = 2 * X - 2 * P + (2 * Q - F - 2 * C)
  <2>1. 2 * Steps * (x - c) = 2 * X - 2 * C
    BY <1>1, <1>2
  <2>2. price * (y - n) = P - Q
    BY <1>1, <1>2
  <2> QED
    BY <1>2, <2>1, <2>2
<1>5. CASE n = 0
  <2>1. Q = 0 /\ F = 0 /\ C = 0
    BY <1>1, <1>2, <1>5
  <2> QED
    BY <1>1, <1>3, <1>4, <1>5, <2>1 DEF Near
<1>6. CASE n > 0
  <2>1. PICK e \in Int : e = 2 * Q - F
    BY <1>2
  <2>2. /\ e >= 0 => Near(2 * C - e, 2 * Steps)
        /\ e < 0 => c = 0
    BY <1>1, <1>2, <1>6, <2>1, CreditIs
  <2>3. CASE e >= 0
    <3>1. 2 * C - e <= 2 * Steps /\ 0 - (2 * C - e) <= 2 * Steps
      BY <2>2, <2>3 DEF Near
    <3> QED
      BY <1>1, <1>2, <1>3, <1>4, <1>6, <2>1, <3>1 DEF Near
  <2>4. CASE e < 0
    <3>1. C = 0
      BY <1>1, <1>2, <2>2, <2>4
    <3>2. PICK p \in Int : p = 2 * price
      BY <1>1
    <3>3. e = 0 - n * (f - p)
      BY <1>1, <1>2, <2>1, <3>2
    <3>4. f - p > 0
      <4>1. PICK g \in Int : g = f - p
        BY <3>2
      <4>2. g <= 0 => n * g <= 0
        BY <1>1, <4>1
      <4> QED
        BY <1>1, <2>4, <3>2, <3>3, <4>1, <4>2
    <3>5. (f - p) * y <= 2 * X - 2 * P
      <4>1. f * y <= 2 * X
        <5>1. 2 * Steps * x = 2 * X
          BY <1>1, <1>2
        <5> QED
          BY <1>6, <5>1
      <4>2. (f - p) * y = f * y - 2 * P
        <5>1. PICK b \in Int : b = f * y
          BY <1>1
        <5> QED
          BY <1>1, <1>2, <3>2
      <4> QED
        BY <1>1, <1>2, <4>1, <4>2
    <3>6. 0 - e <= 2 * X - 2 * P
      <4>1. PICK d \in Int : d = 2 * X - 2 * P
        BY <1>2
      <4>2. n * (f - p) <= d
        BY <1>1, <3>2, <3>4, <3>5, <4>1, AboveStored
      <4>3. PICK a \in Int : a = n * (f - p)
        BY <1>1, <3>2
      <4> QED
        BY <2>1, <3>3, <4>1, <4>2, <4>3
    <3> QED
      BY <1>1, <1>2, <1>3, <1>4, <1>6, <2>1, <2>4, <3>1, <3>6 DEF Near
  <2> QED
    BY <2>1, <2>3, <2>4
<1> QED
  BY <1>1, <1>5, <1>6

\* What is refunded for k unfilled tokens at x / y, times y.
LEMMA RefundIs ==
  ASSUME NEW x \in Int, NEW y \in Nat \ {0}, NEW k \in Nat, NEW r \in Refunds("BUY", k, x, y)
  PROVE  /\ r \in Int
         /\ \/ k <= 1 /\ r = 0
            \/ Near(2 * (r * y) - 2 * (k * x), y)
<1>1. k * x \in Int
  OBVIOUS
<1>2. CASE r \in Nearest(k * x, y)
  <2>1. r \in Int /\ 2 * (r * y - k * x) <= y /\ 2 * (k * x - r * y) <= y
    BY <1>1, <1>2, NearestIs
  <2>2. PICK a, b \in Int : a = r * y /\ b = k * x
    BY <2>1
  <2>3. Near(2 * a - 2 * b, y)
    BY <2>1, <2>2 DEF Near
  <2> QED
    BY <2>1, <2>2, <2>3
<1>3. CASE k <= 1 /\ r = 0
  BY <1>3
<1> QED
  BY <1>2, <1>3 DEF Refunds

\* A unit that is dropped was worth no more than one money unit.
LEMMA DroppedUnit ==
  ASSUME NEW price \in Nat, price <= Steps, NEW k \in 0 .. 1
  PROVE  price * k \in Nat /\ 2 * (price * k) <= 2 * Steps
<1>1. Steps \in Nat
  BY RoundingAssumption
<1>2. price * k = IF k = 0 THEN 0 ELSE price
  OBVIOUS
<1> QED
  BY <1>1, <1>2

\* A FAK BUY order that was filled by n and gave the rest back at the price x / y
\* of the request.
LEMMA FilledAndKilled ==
  ASSUME NEW x \in Int, NEW y \in Int, NEW price \in StoredPrices(x, y),
         NEW n \in 0 .. y, NEW f \in Nat, n > 0 => f * y <= 2 * Steps * x,
         NEW c \in Int, n > 0 => c \in Credits("BUY", price, n, f), n = 0 => c = 0,
         NEW r \in Int, Near(2 * (r * y) - 2 * ((y - n) * x), y)
  PROVE  Near(2 * Steps * (x - c - r) - n * f,
              y + 2 * Steps * ((IF n > 0 THEN 1 ELSE 0) + 1))
<1>1. Steps \in Nat \ {0} /\ y \in Nat \ {0} /\ price \in Nat /\ n \in Nat
  BY RoundingAssumption, StoredPriceIs
<1>2. PICK X, P, Q, F, C, R \in Int :
         /\ X = Steps * x /\ P = price * y /\ Q = price * n /\ F = n * f
         /\ C = Steps * c /\ R = Steps * r
  BY <1>1
<1>3. PICK d \in Int : d = 2 * X - 2 * P
  BY <1>2
<1>4. d <= y /\ 0 - d <= y
  BY <1>2, <1>3, StoredPriceIs DEF Near
<1>5. PICK w \in Int : w = 2 * X - 2 * R - 2 * Q
  BY <1>2
<1>6. 2 * Steps * (x - c - r) - n * f = w + (2 * Q - F - 2 * C)
  <2>1. 2 * Steps * (x - c - r) = 2 * X - 2 * C - 2 * R
    BY <1>1, <1>2
  <2> QED
    BY <1>2, <1>5, <2>1
\* w * y is n * d but for Steps * theta.
<1>7. PICK theta \in Int : theta = 2 * (x * y) - 2 * (r * y) - 2 * (n * x)
  <2>1. 2 * (x * y) - 2 * (r * y) - 2 * (n * x) \in Int
    BY <1>1
  <2> QED
    BY <2>1
<1>8. theta <= y /\ 0 - theta <= y
  <2>1. (y - n) * x = x * y - n * x
    BY <1>1
  <2>2. PICK a, b, g \in Int : a = r * y /\ b = x * y /\ g = n * x
    BY <1>1
  <2>3. 2 * a - 2 * (b - g) <= y /\ 0 - (2 * a - 2 * (b - g)) <= y
    BY <2>1, <2>2 DEF Near
  <2> QED
    BY <1>1, <1>7, <2>2, <2>3
<1>9. w * y = n * d + Steps * theta
  <2>1. PICK xy, ry, nx \in Int : xy = x * y /\ ry = r * y /\ nx = n * x
    BY <1>1
  <2>2. X * y = Steps * xy /\ R * y = Steps * ry /\ n * X = Steps * nx
    BY <1>1, <1>2, <2>1
  <2>3. Q * y = n * P
    BY <1>1, <1>2
  <2>4. w * y = 2 * (X * y) - 2 * (R * y) - 2 * (Q * y)
    BY <1>1, <1>2, <1>5
  <2>5. n * d = 2 * (n * X) - 2 * (n * P)
    BY <1>1, <1>2, <1>3
  <2>6. Steps * theta = 2 * (Steps * xy) - 2 * (Steps * ry) - 2 * (Steps * nx)
    BY <1>1, <1>7, <2>1
  <2>7. PICK sxy, sry, snx, np \in Int : /\ sxy = Steps * xy /\ sry = Steps * ry
                                         /\ snx = Steps * nx /\ np = n * P
    BY <1>1, <1>2, <2>1
  <2>8. w * y = 2 * sxy - 2 * sry - 2 * np
    BY <2>2, <2>3, <2>4, <2>7
  <2>9. n * d = 2 * snx - 2 * np
    BY <2>2, <2>5, <2>7
  <2>10. Steps * theta = 2 * sxy - 2 * sry - 2 * snx
    BY <2>6, <2>7
  <2> QED
    BY <2>7, <2>8, <2>9, <2>10
<1>10. Steps * theta <= Steps * y /\ 0 - Steps * theta <= Steps * y
  <2>1. PICK s, t \in Nat : s = y - theta /\ t = y + theta
    BY <1>1, <1>7, <1>8
  <2>2. Steps * s >= 0 /\ Steps * t >= 0
    BY <1>1, <2>1
  <2>3. Steps * s = Steps * y - Steps * theta /\ Steps * t = Steps * y + Steps * theta
    BY <1>1, <1>7, <2>1
  <2>4. PICK a, b \in Int : a = Steps * y /\ b = Steps * theta
    BY <1>1, <1>7
  <2> QED
    BY <2>2, <2>3, <2>4
<1>11. n * d <= n * y /\ 0 - n * d <= n * y
  <2>1. PICK s, t \in Nat : s = y - d /\ t = y + d
    BY <1>1, <1>3, <1>4
  <2>2. n * s >= 0 /\ n * t >= 0
    BY <1>1, <2>1
  <2>3. n * s = n * y - n * d /\ n * t = n * y + n * d
    BY <1>1, <1>3, <2>1
  <2>4. PICK a, b \in Int : a = n * y /\ b = n * d
    BY <1>1, <1>3
  <2> QED
    BY <2>2, <2>3, <2>4
<1>12. w <= n + Steps /\ 0 - w <= n + Steps
  <2>1. PICK ny, sy, nd, st \in Int :
           ny = n * y /\ sy = Steps * y /\ nd = n * d /\ st = Steps * theta
    BY <1>1, <1>3, <1>7
  <2>2. (n + Steps) * y = ny + sy /\ (0 - w) * y = 0 - w * y
    BY <1>1, <1>5, <2>1
  <2>3. w * y <= (n + Steps) * y
    BY <1>9, <1>10, <1>11, <2>1, <2>2
  <2>4. (0 - w) * y <= (n + Steps) * y
    BY <1>9, <1>10, <1>11, <2>1, <2>2
  <2>5. w <= n + Steps
    BY <1>1, <1>5, <2>3, ScaleDown
  <2>6. 0 - w \in Int
    BY <1>5
  <2>7. 0 - w <= n + Steps
    BY <1>1, <2>4, <2>6, ScaleDown
  <2> QED
    BY <2>5, <2>7
<1>13. CASE n = 0
  <2>1. Q = 0 /\ F = 0 /\ C = 0
    BY <1>1, <1>2, <1>13
  <2> QED
    BY <1>1, <1>5, <1>6, <1>12, <1>13, <2>1 DEF Near
<1>14. CASE n > 0
  <2>1. PICK e \in Int : e = 2 * Q - F
    BY <1>2
  <2>2. /\ e >= 0 => Near(2 * C - e, 2 * Steps)
        /\ e < 0 => c = 0
    BY <1>1, <1>2, <1>14, <2>1, CreditIs
  <2>3. CASE e >= 0
    <3>1. 2 * C - e <= 2 * Steps /\ 0 - (2 * C - e) <= 2 * Steps
      BY <2>2, <2>3 DEF Near
    <3> QED
      BY <1>1, <1>2, <1>5, <1>6, <1>12, <1>14, <2>1, <3>1 DEF Near
  <2>4. CASE e < 0
    <3>1. C = 0
      BY <1>1, <1>2, <2>2, <2>4
    <3>2. PICK p \in Int : p = 2 * price
      BY <1>1
    <3>3. e = 0 - n * (f - p)
      BY <1>1, <1>2, <2>1, <3>2
    <3>4. f - p > 0
      <4>1. PICK g \in Int : g = f - p
        BY <3>2
      <4>2. g <= 0 => n * g <= 0
        BY <1>1, <4>1
      <4> QED
        BY <1>1, <2>4, <3>2, <3>3, <4>1, <4>2
    <3>5. (f - p) * y <= d
      <4>1. f * y <= 2 * X
        <5>1. 2 * Steps * x = 2 * X
          BY <1>1, <1>2
        <5> QED
          BY <1>14, <5>1
      <4>2. (f - p) * y = f * y - 2 * P
        BY <1>1, <1>2, <3>2
      <4> QED
        BY <1>1, <1>2, <1>3, <4>1, <4>2
    <3>6. (0 - e) * y <= n * d
      <4>1. (n * (f - p)) * y <= n * d
        BY <1>1, <1>3, <3>2, <3>4, <3>5, AboveStored
      <4>2. 0 - e = n * (f - p)
        <5>1. PICK a \in Int : a = n * (f - p)
          BY <1>1, <3>2
        <5> QED
          BY <2>1, <3>3, <5>1
      <4> QED
        BY <4>1, <4>2
    <3>7. 0 - (w + e) <= Steps
      <4>1. PICK wy, ey, nd, st, sy \in Int :
               /\ wy = w * y /\ ey = e * y /\ nd = n * d /\ st = Steps * theta
               /\ sy = Steps * y
        BY <1>1, <1>3, <1>5, <1>7, <2>1
      <4>2. (0 - e) * y = 0 - ey /\ (0 - (w + e)) * y = 0 - wy - ey
        BY <1>1, <1>5, <2>1, <4>1
      <4>3. (0 - (w + e)) * y <= Steps * y
        BY <1>9, <1>10, <3>6, <4>1, <4>2
      <4>4. 0 - (w + e) \in Int
        BY <1>5, <2>1
      <4> QED
        BY <1>1, <4>3, <4>4, ScaleDown
    <3> QED
      BY <1>1, <1>2, <1>5, <1>6, <1>12, <1>14, <2>1, <2>4, <3>1, <3>7 DEF Near
  <2> QED
    BY <2>1, <2>3, <2>4
<1> QED
  BY <1>1, <1>13, <1>14

LEMMA StatusIs ==
  ASSUME NEW type \in {"GTC", "FAK"}, NEW n \in Nat, NEW y \in Nat, n <= y,
         NEW s \in StatusesAfter(type, n, y)
  PROVE  /\ s \in {"LIVE", "MATCHED", "CANCELED"}
         /\ s = "MATCHED" => n > 0 /\ y - n \in 0 .. 1
         /\ s # "MATCHED" => n < y
         /\ type = "GTC" => s # "CANCELED"
BY DEF StatusesAfter

\* An order o for y at x / y, its first fill of n at f, the credit c of the fill
\* and the refund r of its remainder.
Outcome(type, side, x, y, n, f, k, c, r, o) ==
    /\ type \in {"GTC", "FAK"} /\ side \in {"BUY", "SELL"} /\ x \in Int /\ y \in Int
    /\ n \in 0 .. y /\ f \in Nat
    /\ side = "BUY" /\ n > 0 => f * y <= 2 * Steps * x
    /\ k = (IF n > 0 THEN 1 ELSE 0)
    /\ o.price \in StoredPrices(x, y) /\ o.status \in StatusesAfter(type, n, y)
    /\ o = [side |-> side, size |-> y, price |-> o.price, matched |-> n,
            status |-> o.status]
    /\ c \in IF n > 0 THEN Credits(side, o.price, n, f) ELSE {0}
    /\ r \in IF o.status = "CANCELED" THEN Refunds(side, y - n, x, y) ELSE {0}

\* What a new order has cost is within its slack, whatever became of it.
LEMMA PlacedNear ==
  ASSUME NEW type, NEW side, NEW x, NEW y, NEW n, NEW f, NEW k, NEW c, NEW r, NEW o,
         Outcome(type, side, x, y, n, f, k, c, r, o)
  PROVE  /\ c \in Int /\ r \in Int /\ Cost(side, n, f) \in Int
         /\ Near(Owing(o, (IF side = "BUY" THEN x ELSE 0) - c - r, Cost(side, n, f)),
                 Slack(o, k))
<1> DEFINE goal == /\ c \in Int /\ r \in Int /\ Cost(side, n, f) \in Int
                   /\ Near(Owing(o, (IF side = "BUY" THEN x ELSE 0) - c - r,
                                 Cost(side, n, f)), Slack(o, k))
<1> SUFFICES
      ASSUME type \in {"GTC", "FAK"}, side \in {"BUY", "SELL"}, x \in Int, y \in Int,
             n \in 0 .. y, f \in Nat, k \in {0, 1}, k = (IF n > 0 THEN 1 ELSE 0),
             side = "BUY" /\ n > 0 => f * y <= 2 * Steps * x,
             NEW price \in StoredPrices(x, y), NEW s \in StatusesAfter(type, n, y),
             o = [side |-> side, size |-> y, price |-> price, matched |-> n,
                  status |-> s],
             c \in (IF n > 0 THEN Credits(side, price, n, f) ELSE {0}),
             r \in (IF s = "CANCELED" THEN Refunds(side, y - n, x, y) ELSE {0})
      PROVE  goal
  BY DEF Outcome
<1>1. Steps \in Nat \ {0} /\ y \in Nat \ {0} /\ price \in Nat /\ price <= Steps /\ n \in Nat
      /\ n <= y
  BY RoundingAssumption, StoredPriceIs
<1>2. PICK b \in Int : b = n * f
  BY <1>1
<1>3. /\ s \in {"LIVE", "MATCHED", "CANCELED"}
      /\ s = "MATCHED" => n > 0 /\ y - n \in 0 .. 1
      /\ s # "MATCHED" => n < y
  BY <1>1, StatusIs
<1>4. 2 * Steps * k = (IF n > 0 THEN 2 * Steps ELSE 0)
      /\ 2 * Steps * (k + 1) = 2 * Steps + 2 * Steps * k
  BY <1>1
<1>5. CASE side = "SELL"
  <2>1. r = 0
    BY <1>5 DEF Refunds
  <2>2. Reserved(o) = 0 /\ Cost(side, n, f) = 0 - b
    BY <1>2, <1>5 DEF Reserved, Cost
  <2>3. c \in Int /\ Near(2 * (Steps * c) - b, Steps)
    <3>1. CASE n = 0
      <4>1. b = 0 /\ c = 0
        BY <1>2, <3>1
      <4> QED
        BY <1>1, <4>1 DEF Near
    <3>2. CASE n > 0
      BY <1>1, <1>2, <1>5, <3>2, ProceedsAre
    <3> QED
      BY <1>1, <3>1, <3>2
  <2>4. PICK g \in Int : g = Steps * c
    BY <1>1, <2>3
  <2>5. 2 * Steps * (0 - c - r) = 0 - 2 * g
    BY <1>1, <2>1, <2>3, <2>4
  <2>6. Owing(o, 0 - c - r, Cost(side, n, f)) = b - 2 * g
    BY <1>2, <2>2, <2>4, <2>5 DEF Owing
  <2>7. n = 0 => b = 0 /\ g = 0
    BY <1>1, <1>2, <2>4
  <2>8. 2 * g - b <= Steps /\ 0 - (2 * g - b) <= Steps
    BY <2>3, <2>4 DEF Near
  <2>9. Slack(o, k) \in Int /\ Slack(o, k) >= y + 2 * Steps * k
    <3>1. o.size = y
      OBVIOUS
    <3>2. PICK a \in Nat : a = 2 * Steps * k
      BY <1>1
    <3> QED
      BY <1>1, <1>4, <3>1, <3>2 DEF Slack
  <2>10. Near(b - 2 * g, Slack(o, k))
    <3>1. PICK a \in Int : a = Slack(o, k)
      BY <2>9
    <3>2. PICK h \in Int : h = 2 * Steps * k
      BY <1>1
    <3>3. b - 2 * g <= a /\ 0 - (b - 2 * g) <= a
      BY <1>1, <1>2, <1>4, <2>4, <2>7, <2>8, <2>9, <3>1, <3>2
    <3> QED
      BY <3>1, <3>3 DEF Near
  <2> QED
    BY <1>2, <1>5, <2>1, <2>2, <2>3, <2>6, <2>10
<1>6. CASE side = "BUY"
  <2>1. Cost(side, n, f) = b
    BY <1>2, <1>6 DEF Cost
  <2>a. (n > 0 => c \in Credits("BUY", price, n, f)) /\ (n = 0 => c = 0)
    BY <1>1, <1>6
  <2>b. n > 0 => f * y <= 2 * Steps * x
    BY <1>6
  <2>2. c \in Int
    <3>1. PICK e \in Int : e = 2 * (price * n) - n * f
      <4>1. price * n \in Int /\ n * f \in Int
        BY <1>1
      <4> QED
        BY <4>1
    <3>2. n > 0 => c \in Int
      BY <1>1, <2>a, <3>1, CreditIs
    <3> QED
      BY <1>1, <2>a, <3>2
  <2>3. PICK q \in Nat : q = price * (y - n)
    BY <1>1
  <2>4. Near(2 * Steps * (x - c) - b - 2 * q, y + 2 * Steps * k)
    <3>1. Near(2 * Steps * (x - c) - n * f - 2 * (price * (y - n)),
               y + 2 * Steps * (IF n > 0 THEN 1 ELSE 0))
      BY <2>a, <2>b, <2>2, FirstFill
    <3> QED
      BY <1>2, <2>3, <3>1
  <2>5. PICK money \in Int : money = 2 * Steps * (x - c)
    BY <1>1, <2>2
  <2>6. PICK a \in Nat : a = 2 * Steps * k
    BY <1>1
  <2>7. money - b - 2 * q <= y + a /\ 0 - (money - b - 2 * q) <= y + a
    BY <2>4, <2>5, <2>6 DEF Near
  <2>8. CASE s = "LIVE"
    <3>1. r = 0 /\ x - c - r = x - c
      BY <2>2, <2>8
    <3>2. Reserved(o) = 2 * q
      <4>1. 2 * price * (y - n) = 2 * q
        BY <1>1, <2>3
      <4> QED
        BY <1>6, <2>8, <4>1 DEF Reserved
    <3>3. Slack(o, k) = y + a
      BY <2>6, <2>8 DEF Slack
    <3>4. Owing(o, x - c - r, b) = money - b - 2 * q
      BY <2>5, <3>1, <3>2 DEF Owing
    <3>5. Near(Owing(o, x - c - r, b), Slack(o, k))
      BY <2>7, <3>3, <3>4 DEF Near
    <3> QED
      BY <1>6, <2>1, <2>2, <3>1, <3>5
  <2>9. ASSUME s # "LIVE"
        PROVE  Reserved(o) = 0 /\ Slack(o, k) = y + a + 2 * Steps
    <3>1. o.status # "LIVE" /\ o.size = y
      BY <2>9
    <3>2. Reserved(o) = 0
      BY <3>1 DEF Reserved
    <3>3. Slack(o, k) = y + 2 * Steps * (k + 1)
      BY <3>1 DEF Slack
    <3> QED
      BY <1>1, <1>4, <2>6, <3>2, <3>3
  <2>10. CASE s # "LIVE" /\ r = 0 /\ y - n \in 0 .. 1
    <3>1. x - c - r = x - c
      BY <2>2, <2>10
    <3>2. 2 * q <= 2 * Steps
      BY <1>1, <2>3, <2>10, DroppedUnit
    <3>3. Owing(o, x - c - r, b) = money - b
      BY <2>5, <2>9, <2>10, <3>1 DEF Owing
    <3>4. money - b <= y + a + 2 * Steps /\ 0 - (money - b) <= y + a + 2 * Steps
      BY <1>1, <2>7, <3>2
    <3>5. Near(Owing(o, x - c - r, b), Slack(o, k))
      BY <2>9, <2>10, <3>3, <3>4 DEF Near
    <3> QED
      BY <1>6, <2>1, <2>2, <2>10, <3>5
  <2>11. CASE s = "CANCELED" /\ ~(r = 0 /\ y - n \in 0 .. 1)
    <3>1. y - n \in Nat /\ r \in Refunds("BUY", y - n, x, y)
      BY <1>1, <1>6, <2>11
    <3>2. r \in Int /\ Near(2 * (r * y) - 2 * ((y - n) * x), y)
      BY <1>1, <2>11, <3>1, RefundIs
    <3>3. Near(2 * Steps * (x - c - r) - n * f,
               y + 2 * Steps * ((IF n > 0 THEN 1 ELSE 0) + 1))
      BY <2>a, <2>b, <2>2, <3>2, FilledAndKilled
    <3>4. Slack(o, k) = y + 2 * Steps * (k + 1)
      BY <2>11 DEF Slack
    <3>5. Near(2 * Steps * (x - c - r) - b, Slack(o, k))
      BY <1>2, <3>3, <3>4
    <3>6. Owing(o, x - c - r, b) = 2 * Steps * (x - c - r) - b
      <4>1. 2 * Steps * (x - c - r) \in Int
        BY <1>1, <2>2, <3>2
      <4> QED
        BY <2>9, <2>11, <4>1 DEF Owing
    <3> QED
      BY <1>6, <2>1, <2>2, <3>2, <3>5, <3>6
  <2>12. s = "MATCHED" => r = 0
    OBVIOUS
  <2> QED
    BY <1>3, <2>8, <2>10, <2>11, <2>12
<1> QED
  BY <1>5, <1>6

LEMMA PlaceKeeps ==
  ASSUME NEW type \in {"GTC", "FAK"}, RoundingInv, PlaceOrder(type)
  PROVE  RoundingInv'
<1> DEFINE Bodies(side, x, size) ==
      \E price \in StoredPrices(x, size), m \in Fills(side, size, x, size) :
      \E status \in StatusesAfter(type, m[1], size) :
        /\ placed = NoOrder
        /\ placed' = [side |-> side, size |-> size, price |-> price,
                      matched |-> m[1], status |-> status]
        /\ fills' = IF m[1] > 0 THEN 1 ELSE 0
        /\ cost' = Cost(side, m[1], m[2])
        /\ \E c \in IF m[1] > 0 THEN Credits(side, price, m[1], m[2]) ELSE {0},
              r \in IF status = "CANCELED" THEN Refunds(side, size - m[1], x, size)
                    ELSE {0} :
              spent' = (IF side = "BUY" THEN x ELSE 0) - c - r
<1>1. PICK side \in {"BUY", "SELL"}, maker \in (0 - MaxAmount) .. MaxAmount,
           taker \in (0 - MaxAmount) .. MaxAmount :
        Bodies(side, Derived(side, maker, taker)[1], Derived(side, maker, taker)[2])
  BY DEF PlaceOrder
<1> HIDE DEF Bodies
<1>2. PICK x \in Int, y \in Int : Derived(side, maker, taker) = <<x, y>>
  BY RoundingAssumption DEF Derived
<1>3. Bodies(side, x, y)
  BY <1>1, <1>2
<1>4. PICK price \in StoredPrices(x, y), m \in Fills(side, y, x, y) :
      \E status \in StatusesAfter(type, m[1], y) :
        /\ placed = NoOrder
        /\ placed' = [side |-> side, size |-> y, price |-> price,
                      matched |-> m[1], status |-> status]
        /\ fills' = IF m[1] > 0 THEN 1 ELSE 0
        /\ cost' = Cost(side, m[1], m[2])
        /\ \E c \in IF m[1] > 0 THEN Credits(side, price, m[1], m[2]) ELSE {0},
              r \in IF status = "CANCELED" THEN Refunds(side, y - m[1], x, y)
                    ELSE {0} :
              spent' = (IF side = "BUY" THEN x ELSE 0) - c - r
  BY <1>3 DEF Bodies
<1>5. /\ Steps \in Nat \ {0} /\ y \in Nat \ {0} /\ price \in Nat /\ price <= Steps
  BY RoundingAssumption, StoredPriceIs
<1>6. PICK n \in 0 .. y, f \in Nat :
        m[1] = n /\ m[2] = f /\ (side = "BUY" /\ n > 0 => f * y <= 2 * Steps * x)
  BY <1>5 DEF Fills, Within
<1>7. PICK s \in StatusesAfter(type, n, y) :
        /\ placed' = [side |-> side, size |-> y, price |-> price,
                      matched |-> n, status |-> s]
        /\ fills' = IF n > 0 THEN 1 ELSE 0
        /\ cost' = Cost(side, n, f)
        /\ \E c \in IF n > 0 THEN Credits(side, price, n, f) ELSE {0},
              r \in IF s = "CANCELED" THEN Refunds(side, y - n, x, y) ELSE {0} :
              spent' = (IF side = "BUY" THEN x ELSE 0) - c - r
  BY <1>4, <1>6
<1>8. PICK c \in IF n > 0 THEN Credits(side, price, n, f) ELSE {0},
           r \in IF s = "CANCELED" THEN Refunds(side, y - n, x, y) ELSE {0} :
        spent' = (IF side = "BUY" THEN x ELSE 0) - c - r
  BY <1>7
<1>9. PICK k \in {0, 1} : k = (IF n > 0 THEN 1 ELSE 0) /\ fills' = k
  BY <1>7
<1>10. PICK o : /\ o = placed'
               /\ o.price = price /\ o.status = s
               /\ o = [side |-> side, size |-> y, price |-> price, matched |-> n,
                       status |-> s]
  BY <1>7
<1>11. /\ c \in Int /\ r \in Int /\ Cost(side, n, f) \in Int
       /\ Near(Owing(o, (IF side = "BUY" THEN x ELSE 0) - c - r, Cost(side, n, f)),
               Slack(o, k))
  <2>1. Outcome(type, side, x, y, n, f, k, c, r, o)
    BY <1>6, <1>8, <1>9, <1>10 DEF Outcome
  <2> QED
    BY <2>1, PlacedNear
<1>12. n \in Nat /\ n <= y
  BY <1>5
<1>13. s \in {"LIVE", "MATCHED", "CANCELED"} /\ (s # "MATCHED" => n < y)
  BY <1>5, <1>12, StatusIs
<1>14. OrderOK'
  BY <1>5, <1>7, <1>12, <1>13 DEF OrderOK, StoredOrder
<1>15. spent' \in Int /\ cost' \in Int /\ fills' \in Nat
  BY <1>7, <1>8, <1>9, <1>11
<1>16. Near(Owing(placed', spent', cost'), Slack(placed', fills'))
  BY <1>7, <1>8, <1>9, <1>10, <1>11
<1> QED
  BY <1>14, <1>15, <1>16 DEF RoundingInv, Owing, Slack, Reserved

LEMMA FillKeeps ==
  ASSUME RoundingInv, ExecuteFill
  PROVE  RoundingInv'
<1>1. PICK m \in Fills(placed.side, placed.size - placed.matched, placed.price, Steps) :
      \E status \in StatusesAfter("GTC", placed.matched + m[1], placed.size) :
          /\ m[1] > 0
          /\ placed' = [placed EXCEPT !.matched = @ + m[1], !.status = status]
          /\ fills' = fills + 1
          /\ cost' = cost + Cost(placed.side, m[1], m[2])
          /\ \E c \in Credits(placed.side, placed.price, m[1], m[2]) : spent' = spent - c
  BY DEF ExecuteFill
<1>2. /\ placed # NoOrder /\ placed.status = "LIVE" /\ OrderOK
      /\ Near(Owing(placed, spent, cost), Slack(placed, fills))
      /\ fills \in Nat /\ spent \in Int /\ cost \in Int
  BY DEF ExecuteFill, RoundingInv
<1>3. PICK side \in {"BUY", "SELL"}, y \in Nat, price \in Nat, was \in Nat :
        placed = [side |-> side, size |-> y, price |-> price, matched |-> was,
                  status |-> "LIVE"]
  BY <1>2 DEF OrderOK, StoredOrder
<1>4. y > 0 /\ price <= Steps /\ was < y /\ Steps \in Nat \ {0}
  BY <1>2, <1>3, RoundingAssumption DEF OrderOK
<1>5. PICK n \in 0 .. (y - was), f \in Nat :
        m[1] = n /\ m[2] = f /\ n > 0 /\ (side = "BUY" => f * Steps <= 2 * Steps * price)
  <2>1. m \in Fills(side, y - was, price, Steps)
    BY <1>3
  <2> QED
    BY <1>1, <1>4, <2>1 DEF Fills, Within
<1>a. PICK s \in StatusesAfter("GTC", was + n, y) :
        /\ placed' = [placed EXCEPT !.matched = @ + n, !.status = s]
        /\ fills' = fills + 1
        /\ cost' = cost + Cost(side, n, f)
        /\ \E c \in Credits(side, price, n, f) : spent' = spent - c
  BY <1>1, <1>3, <1>5
<1>6. PICK c \in Credits(side, price, n, f) :
        /\ placed' = [side |-> side, size |-> y, price |-> price, matched |-> was + n,
                      status |-> s]
        /\ fills' = fills + 1
        /\ cost' = cost + Cost(side, n, f)
        /\ spent' = spent - c
  BY <1>3, <1>a
<1>7. was + n \in Nat /\ was + n <= y /\ n \in Nat
  BY <1>4, <1>5
<1>8. /\ s \in {"LIVE", "MATCHED"} /\ (s = "MATCHED" => y - (was + n) \in 0 .. 1)
      /\ (s # "MATCHED" => was + n < y)
  BY <1>7, StatusIs
<1>9. OrderOK'
  BY <1>4, <1>6, <1>7, <1>8 DEF OrderOK, StoredOrder
<1>10. PICK b \in Int : b = n * f
  BY <1>5
<1>11. PICK money, q, left \in Int :
          money = 2 * Steps * spent /\ q = price * (y - was) /\ left = price * (y - (was + n))
  BY <1>2, <1>3, <1>4, <1>7
<1>12. PICK a \in Nat : a = 2 * Steps * fills
  BY <1>2, <1>4
<1>13. 2 * Steps * (fills + 1) = a + 2 * Steps /\ 2 * Steps * (fills + 1 + 1) = a + 4 * Steps
  BY <1>2, <1>4, <1>12
<1>14. Slack(placed, fills) = y + a
  BY <1>3, <1>12 DEF Slack
<1>15. Slack(placed', fills') = IF s = "LIVE" THEN y + a + 2 * Steps ELSE y + a + 4 * Steps
  <2>1. placed'.size = y /\ placed'.status = s /\ fills' = fills + 1
    BY <1>6
  <2> QED
    BY <1>4, <1>12, <1>13, <2>1 DEF Slack
<1>16. CASE side = "SELL"
  <2>1. PICK g \in Int : c \in Int /\ g = Steps * c /\ Near(2 * g - b, Steps)
    BY <1>4, <1>5, <1>6, <1>7, <1>10, <1>16, ProceedsAre
  <2>2. 2 * g - b <= Steps /\ 0 - (2 * g - b) <= Steps
    BY <2>1 DEF Near
  <2>3. Cost(side, n, f) = 0 - b
    BY <1>10, <1>16 DEF Cost
  <2>4. Owing(placed, spent, cost) = money - cost
    <3>1. Reserved(placed) = 0
      BY <1>3, <1>16 DEF Reserved
    <3> QED
      BY <1>2, <1>11, <3>1 DEF Owing
  <2>5. Owing(placed', spent', cost') = money - cost - (2 * g - b)
    <3>1. Reserved(placed') = 0
      BY <1>6, <1>16 DEF Reserved
    <3>2. 2 * Steps * spent' = money - 2 * g
      BY <1>2, <1>4, <1>6, <1>11, <2>1
    <3> QED
      BY <1>2, <1>6, <1>10, <1>11, <2>1, <2>3, <3>1, <3>2 DEF Owing
  <2>6. money - cost <= y + a /\ 0 - (money - cost) <= y + a
    BY <1>2, <1>14, <2>4 DEF Near
  <2>7. Near(Owing(placed', spent', cost'), Slack(placed', fills'))
    BY <1>2, <1>4, <1>10, <1>11, <1>15, <2>1, <2>2, <2>5, <2>6 DEF Near
  <2>8. spent' \in Int /\ cost' \in Int /\ fills' \in Nat
    BY <1>2, <1>6, <1>10, <2>1, <2>3
  <2> QED
    BY <1>9, <2>7, <2>8 DEF RoundingInv, Owing, Slack, Reserved
<1>17. CASE side = "BUY"
  <2>1. f <= 2 * price
    <3>1. f * Steps <= (2 * price) * Steps
      <4>1. 2 * Steps * price = (2 * price) * Steps
        BY <1>4
      <4> QED
        BY <1>5, <1>17, <4>1
    <3> QED
      BY <1>4, <1>5, <3>1, ScaleDown
  <2>2. PICK e \in Int : e = 2 * (price * n) - n * f
    <3>1. PICK pn \in Int : pn = price * n
      BY <1>7
    <3>2. 2 * pn - b \in Int
      BY <1>10
    <3> QED
      BY <1>10, <3>1, <3>2
  <2>3. e >= 0
    <3>1. PICK h \in Nat : h = 2 * price - f
      <4>1. 2 * price - f \in Nat
        BY <2>1
      <4> QED
        BY <4>1
    <3>2. n * h = 2 * (price * n) - n * f /\ n * h >= 0
      BY <1>5, <1>7, <3>1
    <3> QED
      BY <2>2, <3>2
  <2>4. PICK g \in Int : c \in Int /\ g = Steps * c /\ Near(2 * g - e, 2 * Steps)
    <3>1. c \in Credits("BUY", price, n, f)
      BY <1>17
    <3>2. c \in Int /\ Near(2 * (Steps * c) - e, 2 * Steps)
      BY <1>7, <2>2, <2>3, <3>1, CreditIs
    <3>3. Steps * c \in Int
      BY <1>4, <3>2
    <3> QED
      BY <3>2, <3>3
  <2>5. 2 * g - e <= 2 * Steps /\ 0 - (2 * g - e) <= 2 * Steps
    BY <2>4 DEF Near
  <2>6. Cost(side, n, f) = b
    BY <1>10, <1>17 DEF Cost
  <2>7. e = 2 * q - 2 * left - b
    <3>1. PICK pn \in Int : pn = price * n
      BY <1>7
    <3>2. left = q - pn
      BY <1>4, <1>7, <1>11, <3>1
    <3> QED
      BY <1>10, <1>11, <2>2, <3>1, <3>2
  <2>8. Owing(placed, spent, cost) = money - cost - 2 * q
    <3>1. Reserved(placed) = 2 * q
      <4>1. 2 * price * (y - was) = 2 * q
        BY <1>4, <1>11
      <4> QED
        BY <1>3, <1>17, <4>1 DEF Reserved
    <3> QED
      BY <1>2, <1>11, <3>1 DEF Owing
  <2>9. Owing(placed', spent', cost')
          = money - 2 * g - cost - b - (IF s = "LIVE" THEN 2 * left ELSE 0)
    <3>1. Reserved(placed') = IF s = "LIVE" THEN 2 * left ELSE 0
      <4>1. 2 * price * (y - (was + n)) = 2 * left
        BY <1>4, <1>7, <1>11
      <4> QED
        BY <1>6, <1>17, <4>1 DEF Reserved
    <3>2. 2 * Steps * spent' = money - 2 * g
      BY <1>2, <1>4, <1>6, <1>11, <2>4
    <3> QED
      BY <1>2, <1>6, <1>10, <1>11, <2>4, <2>6, <3>1, <3>2 DEF Owing
  <2>10. money - cost - 2 * q <= y + a /\ 0 - (money - cost - 2 * q) <= y + a
    BY <1>2, <1>14, <2>8 DEF Near
  <2>11. s = "MATCHED" => left \in Nat /\ 2 * left <= 2 * Steps
    BY <1>4, <1>8, <1>11, DroppedUnit
  <2>12. Near(Owing(placed', spent', cost'), Slack(placed', fills'))
    BY <1>2, <1>4, <1>8, <1>10, <1>11, <1>15, <2>2, <2>4, <2>5, <2>7, <2>9, <2>10, <2>11
       DEF Near
  <2>13. spent' \in Int /\ cost' \in Int /\ fills' \in Nat
    BY <1>2, <1>6, <1>10, <2>4, <2>6
  <2> QED
    BY <1>9, <2>12, <2>13 DEF RoundingInv, Owing, Slack, Reserved
<1> QED
  BY <1>16, <1>17

LEMMA CancelKeeps ==
  ASSUME RoundingInv, Cancel
  PROVE  RoundingInv'
<1>1. PICK r \in Refunds(placed.side, placed.size - placed.matched, placed.price, Steps) :
        /\ placed # NoOrder /\ placed.status = "LIVE"
        /\ placed' = [placed EXCEPT !.status = "CANCELED"]
        /\ spent' = spent - r /\ cost' = cost /\ fills' = fills
  BY DEF Cancel
<1>2. /\ OrderOK
      /\ Near(Owing(placed, spent, cost), Slack(placed, fills))
      /\ fills \in Nat /\ spent \in Int /\ cost \in Int
  BY <1>1 DEF RoundingInv
<1>3. PICK side \in {"BUY", "SELL"}, y \in Nat, price \in Nat, was \in Nat :
        placed = [side |-> side, size |-> y, price |-> price, matched |-> was,
                  status |-> "LIVE"]
  BY <1>1, <1>2 DEF OrderOK, StoredOrder
<1>4. y > 0 /\ price <= Steps /\ was < y /\ Steps \in Nat \ {0}
  BY <1>2, <1>3, RoundingAssumption DEF OrderOK
<1>5. placed' = [side |-> side, size |-> y, price |-> price, matched |-> was,
                 status |-> "CANCELED"]
  BY <1>1, <1>3
<1>6. OrderOK'
  BY <1>3, <1>4, <1>5 DEF OrderOK, StoredOrder
<1>7. PICK money, q \in Int : money = 2 * Steps * spent /\ q = price * (y - was)
  BY <1>2, <1>3, <1>4
<1>8. PICK a \in Nat : a = 2 * Steps * fills
  BY <1>2, <1>4
<1>9. Slack(placed, fills) = y + a
  BY <1>3, <1>8 DEF Slack
<1>10. Slack(placed', fills') = y + a + 2 * Steps
  <2>1. 2 * Steps * (fills + 1) = a + 2 * Steps
    BY <1>2, <1>4, <1>8
  <2> QED
    BY <1>1, <1>4, <1>5, <1>8, <2>1 DEF Slack
<1>11. Reserved(placed) = IF side = "BUY" THEN 2 * q ELSE 0
  <2>1. 2 * price * (y - was) = 2 * q
    BY <1>4, <1>7
  <2> QED
    BY <1>3, <2>1 DEF Reserved
<1>12. Owing(placed, spent, cost) = money - cost - (IF side = "BUY" THEN 2 * q ELSE 0)
  BY <1>2, <1>7, <1>11 DEF Owing
<1>13. r \in Int /\ IF side = "BUY"
                   THEN 2 * (Steps * r) - 2 * q <= 2 * Steps
                        /\ 0 - (2 * (Steps * r) - 2 * q) <= 2 * Steps
                   ELSE r = 0
  <2>1. CASE side = "SELL"
    BY <1>1, <1>3, <2>1 DEF Refunds
  <2>2. CASE side = "BUY"
    <3>1. r \in Refunds("BUY", y - was, price, Steps) /\ y - was \in Nat
      BY <1>1, <1>3, <1>4, <2>2
    <3>2. r \in Int /\ \/ y - was <= 1 /\ r = 0
                       \/ Near(2 * (r * Steps) - 2 * ((y - was) * price), Steps)
      BY <1>4, <3>1, RefundIs
    <3>3. PICK g \in Int : g = Steps * r /\ g = r * Steps
      BY <1>4, <3>2
    <3>4. (y - was) * price = q
      BY <1>4, <1>7
    <3>5. CASE y - was <= 1 /\ r = 0
      <4>1. q \in Nat /\ 2 * q <= 2 * Steps
        BY <1>4, <1>7, <3>5, DroppedUnit
      <4>2. g = 0
        BY <1>4, <3>3, <3>5
      <4> QED
        BY <1>4, <2>2, <3>2, <3>3, <4>1, <4>2
    <3>6. CASE Near(2 * (r * Steps) - 2 * ((y - was) * price), Steps)
      <4>1. 2 * g - 2 * q <= Steps /\ 0 - (2 * g - 2 * q) <= Steps
        BY <3>3, <3>4, <3>6 DEF Near
      <4> QED
        BY <1>4, <1>7, <2>2, <3>2, <3>3, <4>1
    <3> QED
      BY <3>2, <3>5, <3>6
  <2> QED
    BY <2>1, <2>2
<1>14. PICK g \in Int : g = Steps * r
  BY <1>4, <1>13
<1>15. Owing(placed', spent', cost') = money - 2 * g - cost
  <2>1. Reserved(placed') = 0
    BY <1>5 DEF Reserved
  <2>2. 2 * Steps * spent' = money - 2 * g
    BY <1>1, <1>2, <1>4, <1>7, <1>13, <1>14
  <2> QED
    BY <1>1, <1>2, <1>7, <1>14, <2>1, <2>2 DEF Owing
<1>16. Near(Owing(placed', spent', cost'), Slack(placed', fills'))
  <2>1. LET o == money - cost - (IF side = "BUY" THEN 2 * q ELSE 0)
        IN  o <= y + a /\ 0 - o <= y + a
    BY <1>2, <1>9, <1>12 DEF Near
  <2>2. CASE side = "BUY"
    <3>1. 2 * g - 2 * q <= 2 * Steps /\ 0 - (2 * g - 2 * q) <= 2 * Steps
      BY <1>13, <1>14, <2>2
    <3> QED
      BY <1>2, <1>4, <1>7, <1>10, <1>15, <2>1, <2>2, <3>1 DEF Near
  <2>3. CASE side = "SELL"
    <3>1. g = 0
      BY <1>4, <1>13, <1>14, <2>3
    <3> QED
      BY <1>2, <1>4, <1>7, <1>10, <1>15, <2>1, <2>3, <3>1 DEF Near
  <2> QED
    BY <2>2, <2>3
<1>17. spent' \in Int /\ cost' \in Int /\ fills' \in Nat
  BY <1>1, <1>2, <1>13
<1> QED
  BY <1>6, <1>16, <1>17 DEF RoundingInv, Owing, Slack, Reserved

LEMMA RoundingHolds == RSpec => []RoundingInv
<1>1. RInit => RoundingInv
  BY DEF RInit, RoundingInv
<1>2. RoundingInv /\ [RNext]_rvars => RoundingInv'
  <2> SUFFICES ASSUME RoundingInv, [RNext]_rvars PROVE RoundingInv'
    OBVIOUS
  <2>1. CASE PlaceOrder("GTC") \/ PlaceOrder("FAK")
    BY <2>1, PlaceKeeps
  <2>2. CASE ExecuteFill
    BY <2>2, FillKeeps
  <2>3. CASE Cancel
    BY <2>3, CancelKeeps
  <2>4. CASE NextOrder
    BY <2>4 DEF NextOrder, RoundingInv
  <2>5. CASE UNCHANGED rvars
    <3>1. placed' = placed /\ spent' = spent /\ cost' = cost /\ fills' = fills
      BY <2>5 DEF rvars
    <3> QED
      BY <3>1 DEF RoundingInv, OrderOK, Owing, Slack, Reserved
  <2> QED
    BY <2>1, <2>2, <2>3, <2>4, <2>5 DEF RNext
<1> QED
  BY <1>1, <1>2, PTL DEF RSpec

\* Whatever raw amounts, of either sign, prices, sizes and averages an order
\* meets: rounding moves no more than half a price step per token and one money
\* unit per statement, while the order is LIVE and after.
THEOREM RoundingIsBounded == RSpec => []PaidWithinRounding
<1>1. RoundingInv => PaidWithinRounding
  <2> SUFFICES ASSUME RoundingInv, placed # NoOrder
               PROVE  Abs(2 * Steps * spent - cost - Reserved(placed))
                         <= placed.size + 2 * Steps * (fills + 1)
    BY DEF PaidWithinRounding
  <2>1. /\ OrderOK /\ fills \in Nat /\ spent \in Int /\ cost \in Int
        /\ Near(Owing(placed, spent, cost), Slack(placed, fills)) /\ Steps \in Nat \ {0}
    BY RoundingAssumption DEF RoundingInv
  <2>2. placed.size \in Nat /\ placed.price \in Nat /\ placed.matched \in Nat
    BY <2>1 DEF OrderOK, StoredOrder
  <2>3. PICK a \in Nat : a = 2 * Steps * fills
    BY <2>1
  <2>4. 2 * Steps * (fills + 1) = a + 2 * Steps
    BY <2>1, <2>3
  <2>5. /\ Slack(placed, fills) <= placed.size + a + 2 * Steps
        /\ Slack(placed, fills) \in Int
    BY <2>1, <2>2, <2>3, <2>4 DEF Slack
  <2>6. PICK money \in Int : money = 2 * Steps * spent
    BY <2>1
  <2>7. PICK kept \in Int : kept = Reserved(placed)
    <3>1. 2 * placed.price * (placed.size - placed.matched) \in Int
      BY <2>2
    <3> QED
      BY <3>1 DEF Reserved
  <2>8. PICK s \in Int : s = Slack(placed, fills)
    BY <2>5
  <2>9. money - cost - kept <= s /\ 0 - (money - cost - kept) <= s
    BY <2>1, <2>6, <2>7, <2>8 DEF Owing, Near
  <2> QED
    BY <2>1, <2>2, <2>3, <2>4, <2>5, <2>6, <2>7, <2>8, <2>9 DEF Abs
<1> QED
  BY <1>1, RoundingHolds, PTL

-----------------------------------------------------------------------------
(* The rate limiter.                                                       *)

\* The requests of a history that were passed on in a stretch of time.
During(times, from, to) == {i \in DOMAIN times : from <= times[i] /\ times[i] <= to}

\* Those of the window of the entry, and those of the window before it.
Current(e, times)  == {i \in DOMAIN times : e.lastReset <= times[i]}
Previous(e, times) == {i \in DOMAIN times : /\ e.lastReset - Window <= times[i]
                                            /\ times[i] < e.lastReset}

\* An entry's tokens are what its window has left, and the window before it did
\* not pass on more than the rate either.
EntryOK(e, times, moment) ==
    /\ e \in [tokens : 0 .. Rate, lastReset : 0 .. moment]
    /\ \A i \in DOMAIN times : times[i] <= e.lastReset + Window
    /\ Cardinality(Current(e, times)) = Rate - e.tokens
    /\ Cardinality(Previous(e, times)) <= Rate

\* Whoever has no entry has been idle for a whole window.
LongIdle(times, moment) == \A i \in DOMAIN times : times[i] < moment - Window

AtMostTwice(times) == \A t \in Int : Cardinality(During(times, t, t + Window)) <= 2 * Rate

VisitorOK(e, times, moment) ==
    /\ times \in Seq(Nat)
    /\ \A i \in DOMAIN times : times[i] <= moment
    /\ e = NoVisitor => LongIdle(times, moment)
    /\ e # NoVisitor => EntryOK(e, times, moment)
    /\ AtMostTwice(times)

LimiterInv ==
    /\ clock \in Nat
    /\ visitors = [v \in Visitors |-> visitors[v]]
    /\ admitted = [v \in Visitors |-> admitted[v]]
    /\ \A v \in Visitors : VisitorOK(visitors[v], admitted[v], clock)
    /\ limited \in Visitors \cup {NoVisitor} /\ RefusedOnlyWhenSpent

LEMMA HistoryFinite ==
  ASSUME NEW times \in Seq(Nat), NEW S \in SUBSET DOMAIN times
  PROVE  IsFiniteSet(S) /\ Cardinality(S) \in Nat
<1>1. DOMAIN times = 1 .. Len(times) /\ Len(times) \in Nat
  OBVIOUS
<1>2. IsFiniteSet(1 .. Len(times))
  BY <1>1, FS_Interval
<1> QED
  BY <1>1, <1>2, FS_Subset, FS_CardinalityType

\* Waiting changes nothing for an entry, and a visitor who is idle stays idle.
LEMMA LaterOK ==
  ASSUME NEW e, NEW times, NEW moment \in Nat, VisitorOK(e, times, moment)
  PROVE  VisitorOK(e, times, moment + 1)
<1>1. times \in Seq(Nat) /\ \A i \in DOMAIN times : times[i] \in Nat /\ times[i] <= moment
  BY DEF VisitorOK
<1>2. Window \in Nat
  BY LimiterAssumption
<1>3. LongIdle(times, moment) => LongIdle(times, moment + 1)
  BY <1>1, <1>2 DEF LongIdle
<1>4. EntryOK(e, times, moment) => EntryOK(e, times, moment + 1)
  BY DEF EntryOK
<1> QED
  BY <1>1, <1>3, <1>4 DEF VisitorOK

\* An entry that Cleanup drops belongs to a visitor who is idle.
LEMMA StaleIsIdle ==
  ASSUME NEW e, NEW times, NEW moment \in Nat, VisitorOK(e, times, moment), e # NoVisitor,
         e.lastReset < moment - 2 * Window
  PROVE  VisitorOK(NoVisitor, times, moment)
<1>1. /\ times \in Seq(Nat) /\ \A i \in DOMAIN times : times[i] \in Nat
      /\ e.lastReset \in Nat /\ \A i \in DOMAIN times : times[i] <= e.lastReset + Window
  BY DEF VisitorOK, EntryOK
<1>2. Window \in Nat
  BY LimiterAssumption
<1>3. LongIdle(times, moment)
  BY <1>1, <1>2 DEF LongIdle
<1> QED
  BY <1>3 DEF VisitorOK

\* A refill opens a window that holds nothing yet, after one that passed on the
\* rate at most.
LEMMA FreshOK ==
  ASSUME NEW e, NEW times, NEW moment \in Nat, VisitorOK(e, times, moment),
         e = NoVisitor \/ moment - e.lastReset > Window
  PROVE  EntryOK([tokens |-> Rate, lastReset |-> moment], times, moment)
<1>1. times \in Seq(Nat) /\ \A i \in DOMAIN times : times[i] \in Nat /\ times[i] <= moment
  BY DEF VisitorOK
<1>2. Window \in Nat \ {0} /\ Rate \in Nat \ {0}
  BY LimiterAssumption
<1> DEFINE f == [tokens |-> Rate, lastReset |-> moment]
<1>3. /\ f \in [tokens : 0 .. Rate, lastReset : 0 .. moment]
      /\ f.tokens = Rate /\ f.lastReset = moment
  BY <1>2
<1> HIDE DEF f
<1>4. \A i \in DOMAIN times : times[i] < moment
  <2>1. CASE e = NoVisitor
    BY <1>1, <1>2, <2>1 DEF VisitorOK, LongIdle
  <2>2. CASE e # NoVisitor
    <3>1. e.lastReset \in Nat /\ \A i \in DOMAIN times : times[i] <= e.lastReset + Window
      BY <2>2 DEF VisitorOK, EntryOK
    <3>2. moment - e.lastReset > Window
      BY <2>2
    <3> QED
      BY <1>1, <1>2, <3>1, <3>2
  <2> QED
    BY <2>1, <2>2
<1>5. Cardinality(Current(f, times)) = Rate - f.tokens
  <2>1. Current(f, times) = {}
    BY <1>1, <1>3, <1>4 DEF Current
  <2>2. Cardinality(Current(f, times)) = 0
    BY <2>1, FS_EmptySet
  <2> QED
    BY <1>2, <1>3, <2>2
<1>6. Cardinality(Previous(f, times)) <= Rate
  <2>1. CASE e = NoVisitor
    <3>1. Previous(f, times) = {}
      BY <1>1, <1>2, <1>3, <2>1 DEF VisitorOK, LongIdle, Previous
    <3>2. Cardinality(Previous(f, times)) = 0
      BY <3>1, FS_EmptySet
    <3> QED
      BY <1>2, <3>2
  <2>2. CASE e # NoVisitor
    <3>1. e.lastReset \in Nat /\ e.tokens \in 0 .. Rate
          /\ Cardinality(Current(e, times)) = Rate - e.tokens
      BY <2>2 DEF VisitorOK, EntryOK
    <3>2. Previous(f, times) \subseteq Current(e, times)
      BY <1>1, <1>2, <1>3, <2>2, <3>1 DEF Previous, Current
    <3>3. IsFiniteSet(Current(e, times))
      BY <1>1, HistoryFinite DEF Current
    <3>4. Cardinality(Previous(f, times)) <= Cardinality(Current(e, times))
      BY <3>2, <3>3, FS_Subset
    <3>5. Cardinality(Previous(f, times)) \in Nat
      BY <1>1, HistoryFinite DEF Previous
    <3> QED
      BY <1>2, <3>1, <3>4, <3>5
  <2> QED
    BY <2>1, <2>2
<1>7. \A i \in DOMAIN times : times[i] <= f.lastReset + Window
  BY <1>1, <1>2, <1>3
<1>8. EntryOK(f, times, moment)
  BY <1>3, <1>5, <1>6, <1>7 DEF EntryOK
<1> QED
  BY <1>8 DEF f

\* What a request finds.
LEMMA EntryIsOK ==
  ASSUME LimiterInv, NEW v \in Visitors
  PROVE  EntryOK(Entry(v), admitted[v], clock) /\ clock - Entry(v).lastReset <= Window
<1>1. VisitorOK(visitors[v], admitted[v], clock) /\ clock \in Nat /\ Window \in Nat \ {0}
  BY LimiterAssumption DEF LimiterInv
<1>2. CASE visitors[v] = NoVisitor \/ clock - visitors[v].lastReset > Window
  <2>1. Entry(v) = [tokens |-> Rate, lastReset |-> clock]
    BY <1>2 DEF Entry, Refilled, Fresh
  <2>2. EntryOK([tokens |-> Rate, lastReset |-> clock], admitted[v], clock)
    BY <1>1, <1>2, FreshOK
  <2>3. clock - Entry(v).lastReset <= Window
    BY <1>1, <2>1
  <2> QED
    BY <2>1, <2>2, <2>3
<1>3. CASE visitors[v] # NoVisitor /\ ~(clock - visitors[v].lastReset > Window)
  <2>1. Entry(v) = visitors[v]
    BY <1>3 DEF Entry, Refilled
  <2>2. EntryOK(visitors[v], admitted[v], clock)
    BY <1>1, <1>3 DEF VisitorOK
  <2>3. visitors[v].lastReset \in Nat
    BY <2>2 DEF EntryOK
  <2> QED
    BY <1>1, <1>3, <2>1, <2>2, <2>3
<1> QED
  BY <1>2, <1>3

LEMMA EntryIsNoNoVisitor ==
  ASSUME NEW e, NEW times, NEW moment \in Nat, EntryOK(e, times, moment)
  PROVE  e # NoVisitor
<1>1. e \in [tokens : Int, lastReset : Nat]
  BY LimiterAssumption DEF EntryOK
<1> QED
  BY <1>1, LimiterAssumption

\* A request that is passed on takes a token of the current window.
LEMMA PassedOK ==
  ASSUME NEW e, NEW times, NEW moment \in Nat, EntryOK(e, times, moment),
         times \in Seq(Nat), \A i \in DOMAIN times : times[i] <= moment, AtMostTwice(times),
         moment - e.lastReset <= Window, e.tokens > 0
  PROVE  VisitorOK([e EXCEPT !.tokens = @ - 1], Append(times, moment), moment)
<1>1. Window \in Nat \ {0} /\ Rate \in Nat \ {0}
  BY LimiterAssumption
<1>2. PICK k \in 1 .. Rate, l \in 0 .. moment : e = [tokens |-> k, lastReset |-> l]
  BY DEF EntryOK
<1> DEFINE f == [e EXCEPT !.tokens = @ - 1]
           more == Append(times, moment)
           m == Len(times) + 1
<1>3. f = [tokens |-> k - 1, lastReset |-> l]
  BY <1>2
<1>4. /\ more \in Seq(Nat) /\ DOMAIN more = DOMAIN times \cup {m} /\ more[m] = moment
      /\ \A i \in DOMAIN times : more[i] = times[i] /\ times[i] \in Nat
      /\ m \notin DOMAIN times
  OBVIOUS
<1> HIDE DEF f, more, m
<1>5. \A i \in DOMAIN more : more[i] \in Nat /\ more[i] <= moment
  BY <1>4
<1>6. \A i \in DOMAIN more : more[i] <= l + Window
  <2>1. \A i \in DOMAIN times : times[i] <= l + Window
    BY <1>2 DEF EntryOK
  <2>2. moment <= l + Window
    BY <1>1, <1>2
  <2> QED
    BY <1>4, <2>1, <2>2
<1>7. Current(f, more) = Current(e, times) \cup {m} /\ m \notin Current(e, times)
  BY <1>2, <1>3, <1>4 DEF Current
<1>8. Previous(f, more) = Previous(e, times)
  BY <1>1, <1>2, <1>3, <1>4 DEF Previous
<1>9. /\ IsFiniteSet(Current(e, times)) /\ IsFiniteSet(Current(f, more))
      /\ IsFiniteSet(Previous(f, more)) /\ Cardinality(Previous(f, more)) \in Nat
  BY <1>4, HistoryFinite DEF Current, Previous
<1>10. Cardinality(Current(f, more)) = Rate - (k - 1)
  <2>1. Cardinality(Current(e, times)) = Rate - k
    BY <1>2 DEF EntryOK
  <2>2. Cardinality(Current(f, more)) = Cardinality(Current(e, times)) + 1
    BY <1>7, <1>9, FS_AddElement
  <2> QED
    BY <1>1, <1>2, <2>1, <2>2
<1>11. EntryOK(f, more, moment)
  <2>1. f \in [tokens : 0 .. Rate, lastReset : 0 .. moment]
    BY <1>1, <1>2, <1>3
  <2>2. f.tokens = k - 1 /\ f.lastReset = l
    BY <1>3
  <2>3. Cardinality(Previous(f, more)) <= Rate
    BY <1>8 DEF EntryOK
  <2> QED
    BY <1>6, <1>10, <2>1, <2>2, <2>3 DEF EntryOK
<1>12. AtMostTwice(more)
  <2> SUFFICES ASSUME NEW t \in Int
               PROVE  Cardinality(During(more, t, t + Window)) <= 2 * Rate
    BY DEF AtMostTwice
  <2>1. CASE moment < t \/ t + Window < moment
    <3>1. During(more, t, t + Window) = During(times, t, t + Window)
      BY <1>1, <1>4, <2>1 DEF During
    <3> QED
      BY <3>1 DEF AtMostTwice
  <2>2. CASE t <= moment /\ moment <= t + Window
    <3>1. During(more, t, t + Window) \subseteq Current(f, more) \cup Previous(f, more)
      <4> SUFFICES ASSUME NEW i \in DOMAIN more, t <= more[i]
                   PROVE  l <= more[i] \/ (l - Window <= more[i] /\ more[i] < l)
        BY <1>3 DEF During, Current, Previous
      <4> QED
        BY <1>1, <1>2, <1>5, <2>2
    <3> DEFINE A == Current(f, more)
               B == Previous(f, more)
               D == During(more, t, t + Window)
    <3>2. /\ Cardinality(A) \in Nat /\ Cardinality(B) \in Nat /\ Cardinality(A \cap B) \in Nat
          /\ Cardinality(D) \in Nat
      BY <1>4, HistoryFinite DEF Current, Previous, During
    <3>3. Cardinality(A) <= Rate /\ Cardinality(B) <= Rate
      BY <1>1, <1>2, <1>10, <1>11 DEF EntryOK
    <3> HIDE DEF A, B, D
    <3>4. IsFiniteSet(A) /\ IsFiniteSet(B)
      BY <1>9 DEF A, B
    <3>5. /\ IsFiniteSet(A \cup B)
          /\ Cardinality(A \cup B) = Cardinality(A) + Cardinality(B) - Cardinality(A \cap B)
      BY <3>4, FS_Union
    <3>6. Cardinality(D) <= Cardinality(A \cup B)
      <4>1. D \subseteq A \cup B
        BY <3>1 DEF A, B, D
      <4> QED
        BY <3>5, <4>1, FS_Subset
    <3>7. Cardinality(D) <= 2 * Rate
      BY <1>1, <3>2, <3>3, <3>5, <3>6
    <3> QED
      BY <3>7 DEF D
  <2> QED
    BY <1>1, <2>1, <2>2
<1>13. f # NoVisitor
  BY <1>11, EntryIsNoNoVisitor
<1>14. VisitorOK(f, more, moment)
  BY <1>4, <1>5, <1>11, <1>12, <1>13 DEF VisitorOK
<1> QED
  BY <1>14 DEF f, more

\* A request that is refused found no token left, in a window that is open.
LEMMA RefusedOK ==
  ASSUME LimiterInv, NEW v \in Visitors, Entry(v).tokens <= 0
  PROVE  /\ Entry(v) = visitors[v]
         /\ Admitted(v, clock - Window, clock) >= Rate
<1>1. Window \in Nat \ {0} /\ Rate \in Nat \ {0} /\ clock \in Nat
  BY LimiterAssumption DEF LimiterInv
<1>2. EntryOK(Entry(v), admitted[v], clock) /\ clock - Entry(v).lastReset <= Window
  BY EntryIsOK
<1>3. Entry(v) # Fresh
  BY <1>1 DEF Fresh
<1>4. Entry(v) = visitors[v]
  BY <1>3 DEF Entry, Refilled
<1>5. PICK l \in 0 .. clock : Entry(v) = [tokens |-> 0, lastReset |-> l]
  BY <1>1, <1>2 DEF EntryOK
<1>6. Cardinality(Current(Entry(v), admitted[v])) = Rate
  BY <1>1, <1>2, <1>5 DEF EntryOK
<1> DEFINE D == {i \in DOMAIN admitted[v] : clock - Window <= admitted[v][i]
                                            /\ admitted[v][i] <= clock}
<1>7. /\ admitted[v] \in Seq(Nat)
      /\ \A i \in DOMAIN admitted[v] : admitted[v][i] \in Nat /\ admitted[v][i] <= clock
  BY DEF LimiterInv, VisitorOK
<1>8. Current(Entry(v), admitted[v]) \subseteq D
  BY <1>1, <1>2, <1>5, <1>7 DEF Current
<1>9. IsFiniteSet(D) /\ Cardinality(D) \in Nat
  BY <1>7, HistoryFinite
<1>10. Admitted(v, clock - Window, clock) = Cardinality(D)
  BY DEF Admitted
<1> HIDE DEF D
<1>11. Rate <= Cardinality(D)
  BY <1>6, <1>8, <1>9, FS_Subset
<1> QED
  BY <1>1, <1>4, <1>9, <1>10, <1>11

LEMMA RequestKeeps ==
  ASSUME LimiterInv, NEW v \in Visitors, Request(v)
  PROVE  LimiterInv'
<1>1. /\ clock \in Nat /\ visitors = [u \in Visitors |-> visitors[u]]
      /\ admitted = [u \in Visitors |-> admitted[u]]
      /\ \A u \in Visitors : VisitorOK(visitors[u], admitted[u], clock)
  BY DEF LimiterInv
<1>2. EntryOK(Entry(v), admitted[v], clock) /\ clock - Entry(v).lastReset <= Window
  BY EntryIsOK
<1>3. CASE Entry(v).tokens <= 0
  <2>1. visitors' = [visitors EXCEPT ![v] = Entry(v)] /\ limited' = v
        /\ clock' = clock /\ admitted' = admitted
    BY <1>3 DEF Request
  <2>2. Entry(v) = visitors[v] /\ Admitted(v, clock - Window, clock) >= Rate
    BY <1>3, RefusedOK
  <2>3. visitors' = visitors
    BY <1>1, <2>1, <2>2
  <2>4. RefusedOnlyWhenSpent'
    BY <2>1, <2>2 DEF RefusedOnlyWhenSpent, Admitted
  <2> QED
    BY <1>1, <2>1, <2>3, <2>4 DEF LimiterInv
<1>4. CASE ~(Entry(v).tokens <= 0)
  <2>1. /\ visitors' = [visitors EXCEPT ![v] = [Entry(v) EXCEPT !.tokens = @ - 1]]
        /\ admitted' = [admitted EXCEPT ![v] = Append(@, clock)]
        /\ limited' = NoVisitor /\ clock' = clock
    BY <1>4 DEF Request
  <2>2. Entry(v).tokens > 0
    BY <1>2, <1>4, LimiterAssumption DEF EntryOK
  <2>3. /\ admitted[v] \in Seq(Nat) /\ AtMostTwice(admitted[v])
        /\ \A i \in DOMAIN admitted[v] : admitted[v][i] <= clock
    BY <1>1 DEF VisitorOK
  <2>4. VisitorOK([Entry(v) EXCEPT !.tokens = @ - 1], Append(admitted[v], clock), clock)
    BY <1>1, <1>2, <2>2, <2>3, PassedOK
  <2>5. PICK f, more : /\ f = [Entry(v) EXCEPT !.tokens = @ - 1]
                       /\ more = Append(admitted[v], clock)
    OBVIOUS
  <2>6. /\ visitors' = [u \in Visitors |-> IF u = v THEN f ELSE visitors[u]]
        /\ admitted' = [u \in Visitors |-> IF u = v THEN more ELSE admitted[u]]
    BY <1>1, <2>1, <2>5
  <2>7. \A u \in Visitors : VisitorOK(visitors'[u], admitted'[u], clock)
    BY <1>1, <2>4, <2>5, <2>6
  <2>8. /\ visitors' = [u \in Visitors |-> visitors'[u]]
        /\ admitted' = [u \in Visitors |-> admitted'[u]]
    BY <2>6
  <2> QED
    BY <1>1, <2>1, <2>7, <2>8 DEF LimiterInv, RefusedOnlyWhenSpent
<1> QED
  BY <1>3, <1>4

LEMMA LimiterHolds == LSpec => []LimiterInv
<1>1. ASSUME LInit PROVE LimiterInv
  <2> SUFFICES ASSUME NEW v \in Visitors PROVE VisitorOK(NoVisitor, << >>, 0)
    BY <1>1 DEF LInit, LimiterInv, RefusedOnlyWhenSpent
  <2>1. \A t \in Int : During(<< >>, t, t + Window) = {}
    BY DEF During
  <2>2. 0 <= 2 * Rate
    BY LimiterAssumption
  <2>3. AtMostTwice(<< >>)
    BY <2>1, <2>2, FS_EmptySet DEF AtMostTwice
  <2> QED
    BY <2>3 DEF VisitorOK, LongIdle
<1>2. LimiterInv /\ [LNext]_lvars => LimiterInv'
  <2> SUFFICES ASSUME LimiterInv, [LNext]_lvars PROVE LimiterInv'
    OBVIOUS
  <2>1. CASE LimiterTick
    <3>1. /\ clock' = clock + 1 /\ limited' = NoVisitor /\ visitors' = visitors
          /\ admitted' = admitted /\ clock \in Nat
      BY <2>1 DEF LimiterTick, LimiterInv
    <3>2. \A v \in Visitors : VisitorOK(visitors[v], admitted[v], clock + 1)
      BY <3>1, LaterOK DEF LimiterInv
    <3> QED
      BY <3>1, <3>2 DEF LimiterInv, RefusedOnlyWhenSpent
  <2>2. CASE Cleanup
    <3>1. /\ visitors' = [v \in Visitors |->
                IF visitors[v] # NoVisitor /\ Stale(visitors[v]) THEN NoVisitor
                ELSE visitors[v]]
          /\ limited' = NoVisitor /\ clock' = clock /\ admitted' = admitted
      BY <2>2 DEF Cleanup
    <3>2. \A v \in Visitors : VisitorOK(visitors'[v], admitted[v], clock)
      <4> SUFFICES ASSUME NEW v \in Visitors PROVE VisitorOK(visitors'[v], admitted[v], clock)
        OBVIOUS
      <4>1. VisitorOK(visitors[v], admitted[v], clock) /\ clock \in Nat
        BY DEF LimiterInv
      <4>2. CASE visitors[v] # NoVisitor /\ Stale(visitors[v])
        <5>1. VisitorOK(NoVisitor, admitted[v], clock)
          BY <4>1, <4>2, StaleIsIdle DEF Stale
        <5> QED
          BY <3>1, <4>2, <5>1
      <4>3. CASE ~(visitors[v] # NoVisitor /\ Stale(visitors[v]))
        BY <3>1, <4>1, <4>3
      <4> QED
        BY <4>2, <4>3
    <3>3. visitors' = [v \in Visitors |-> visitors'[v]]
      BY <3>1
    <3> QED
      BY <3>1, <3>2, <3>3 DEF LimiterInv, RefusedOnlyWhenSpent
  <2>3. CASE \E v \in Visitors : Request(v)
    BY <2>3, RequestKeeps
  <2>4. CASE UNCHANGED lvars
    BY <2>4 DEF lvars, LimiterInv, RefusedOnlyWhenSpent, Admitted
  <2> QED
    BY <2>1, <2>2, <2>3, <2>4 DEF LNext
<1> QED
  BY <1>1, <1>2, PTL DEF LSpec

\* Refills and the removal of idle entries never add up to more than two rates
\* in a stretch of one window, for any visitors, rate and window.
THEOREM TwoWindowsAtMost == LSpec => []AtMostTwoWindows
<1>1. LimiterInv => AtMostTwoWindows
  BY DEF LimiterInv, VisitorOK, AtMostTwice, During, AtMostTwoWindows, Admitted
<1> QED
  BY <1>1, LimiterHolds, PTL

\* A request is refused only to a visitor who had its full rate in the window
\* that ends with it.
THEOREM SpentBeforeRefused == LSpec => []RefusedOnlyWhenSpent
<1>1. LimiterInv => RefusedOnlyWhenSpent
  BY DEF LimiterInv
<1> QED
  BY <1>1, LimiterHolds, PTL

-----------------------------------------------------------------------------
(* The routes.                                                             *)

\* The switch, the parameters an operation binds and its handler agree on e.
Agrees(e) == AsksForUser(e) <=> Asked(e) # "open"

LEMMA StartsWithOne ==
  ASSUME NEW path, Len(path) \in Nat, NEW p
  PROVE  StartsWith(path, <<p>>) <=> Len(path) >= 1 /\ path[1] = p
<1>1. Len(<<p>>) = 1 /\ <<p>>[1] = p
  OBVIOUS
<1>2. \A i : i \in 1 .. 1 <=> i = 1
  OBVIOUS
<1> QED
  BY <1>1, <1>2 DEF StartsWith

LEMMA StartsWithTwo ==
  ASSUME NEW path, Len(path) \in Nat, NEW p, NEW q
  PROVE  StartsWith(path, <<p, q>>) <=> Len(path) >= 2 /\ path[1] = p /\ path[2] = q
<1>1. Len(<<p, q>>) = 2 /\ <<p, q>>[1] = p /\ <<p, q>>[2] = q
  OBVIOUS
<1>2. \A i : i \in 1 .. 2 <=> i = 1 \/ i = 2
  OBVIOUS
<1> QED
  BY <1>1, <1>2 DEF StartsWith

LEMMA DashboardAgrees == \A e \in DashboardEndpoints \cup MainEndpoints : Agrees(e)
<1> SUFFICES ASSUME NEW e \in DashboardEndpoints \cup MainEndpoints PROVE Agrees(e)
  OBVIOUS
<1>1. PICK method, path :
        /\ e = Dash(method, path)
        /\ \/ \E p : path = <<"api", p>> \/ path = <<"auth", p>>
           \/ \E p : path = <<"api", "wallet", p>>
           \/ path = <<"health">>
  <2>1. CASE e \in {Dash("GET", <<"api", p>>) :
                       p \in {"eth-address", "orders", "positions", "trades", "wallet"}}
    BY <2>1
  <2>2. CASE e \in {Dash("POST", <<"api", "wallet", p>>) : p \in {"deposit", "withdraw"}}
    BY <2>2
  <2>3. CASE e \in {Dash("POST", <<"auth", p>>) : p \in {"login", "register"}}
    BY <2>3
  <2>4. CASE e = Dash("GET", <<"health">>)
    BY <2>4
  <2>5. CASE e = Dash("GET", <<"api", "stats">>)
    BY <2>5
  <2>6. CASE e \in {Dash(m, <<"api", "api-keys">>) : m \in {"GET", "POST", "DELETE"}}
    BY <2>6
  <2> QED
    BY <2>1, <2>2, <2>3, <2>4, <2>5, <2>6 DEF DashboardEndpoints, MainEndpoints
<1>2. e.router = "dashboard" /\ e.path = path
  BY <1>1 DEF Dash
<1>3. Len(path) \in Nat /\ Len(path) > 0
  BY <1>1
<1>4. StartsWith(path, <<"api">>) <=> path[1] = "api"
  BY <1>3, StartsWithOne
<1> QED
  BY <1>2, <1>3, <1>4 DEF Agrees, AsksForUser, Asked, DashboardAuth

LEMMA ListedAgrees ==
  \A e \in BalanceEndpoints \cup CancelEndpoints \cup NotificationEndpoints
              \cup OrderEndpoints \cup OrdersEndpoints : Agrees(e)
<1> SUFFICES ASSUME NEW e \in BalanceEndpoints \cup CancelEndpoints \cup NotificationEndpoints
                                 \cup OrderEndpoints \cup OrdersEndpoints
             PROVE  Agrees(e)
  OBVIOUS
<1>1. /\ e.router = "clob" /\ e.binds = "L2"
      /\ e.path \in {<<"balance-allowance">>, <<"balance-allowance", "update">>,
                     <<"cancel-all">>, <<"cancel-market-orders">>, <<"notifications">>,
                     <<"order">>, <<"order-scoring">>, <<"orders">>, <<"orders-scoring">>}
  BY DEF BalanceEndpoints, CancelEndpoints, NotificationEndpoints, OrderEndpoints,
         OrdersEndpoints, L2, Clob
<1>2. e.path \in TradingPaths
  BY <1>1 DEF TradingPaths, SingleOrderPaths
<1>3. e.path # <<"auth", "api-key">> /\ e.path # <<"auth", "derive-api-key">>
      /\ e.path # <<"auth", "api-keys">>
  BY <1>1
<1>4. CLOBAuth(e) = "L2"
  BY <1>2, <1>3 DEF CLOBAuth
<1> QED
  BY <1>1, <1>4 DEF Agrees, AsksForUser, Asked

\* Paths below /data and /v1/heartbeats ask for an API key as a whole.
LEMMA PrefixAgrees == \A e \in DataEndpoints \cup HeartbeatEndpoints : Agrees(e)
<1> SUFFICES ASSUME NEW e \in DataEndpoints \cup HeartbeatEndpoints PROVE Agrees(e)
  OBVIOUS
<1>1. /\ e.router = "clob" /\ e.binds = "L2"
      /\ e.path \in {<<"data", "order", "id">>, <<"data", "orders">>, <<"data", "trades">>,
                     <<"v1", "heartbeats">>}
  BY DEF DataEndpoints, HeartbeatEndpoints, L2, Clob
<1>2. Len(e.path) \in Nat /\ Len(e.path) >= 2
  <2>1. CASE e.path = <<"data", "order", "id">>
    BY <2>1
  <2>2. CASE e.path # <<"data", "order", "id">>
    BY <1>1, <2>2
  <2> QED
    BY <2>1, <2>2
<1>3. \/ e.path[1] = "data"
      \/ e.path[1] = "v1" /\ e.path[2] = "heartbeats"
  BY <1>1
<1>4. StartsWith(e.path, <<"data">>) \/ StartsWith(e.path, <<"v1", "heartbeats">>)
  BY <1>2, <1>3, StartsWithOne, StartsWithTwo
<1>5. e.path # <<"auth", "api-key">> /\ e.path # <<"auth", "derive-api-key">>
      /\ e.path # <<"auth", "api-keys">>
  BY <1>1
<1>6. CLOBAuth(e) = "L2"
  BY <1>4, <1>5 DEF CLOBAuth
<1> QED
  BY <1>1, <1>6 DEF Agrees, AsksForUser, Asked

\* The paths of keys are told apart by method.
LEMMA KeysAgree == \A e \in KeyEndpoints : Agrees(e)
<1> SUFFICES ASSUME NEW e \in KeyEndpoints PROVE Agrees(e)
  OBVIOUS
<1>1. /\ e.router = "clob" /\ e.binds \in {"L1", "L2"}
      /\ \/ e.path = <<"auth", "api-key">> /\ e.method = "POST"
         \/ e.path = <<"auth", "derive-api-key">> /\ e.method = "GET"
         \/ e.path = <<"auth", "api-key">> /\ e.method = "DELETE"
         \/ e.path = <<"auth", "api-keys">> /\ e.method = "GET"
  BY DEF KeyEndpoints, L2, Clob
<1>2. CLOBAuth(e) \in {"L1", "L2"}
  BY <1>1 DEF CLOBAuth
<1> QED
  BY <1>1, <1>2 DEF Agrees, AsksForUser, Asked

\* Everything else the CLOB router serves is open, and binds no signature.
OpenEndpoints == {Public("GET", << >>)} \cup BookEndpoints \cup FeeEndpoints
                     \cup MarketEndpoints \cup PriceEndpoints

OpenHeads == {"book", "books", "fee-rate", "last-trade-price", "last-trades-prices",
              "live-activity", "markets", "midpoint", "midpoints", "neg-risk", "price",
              "prices", "spread", "spreads", "tick-size", "time", "sampling-markets",
              "sampling-simplified-markets", "simplified-markets"}

OpenPath(path) ==
    \/ path = << >>
    \/ Len(path) \in Nat /\ Len(path) > 0 /\ path[1] \in OpenHeads

IsOpen(e) == e.router = "clob" /\ e.binds = "none" /\ OpenPath(e.path)

LEMMA OpenPaths == \A e \in OpenEndpoints : IsOpen(e)
<1>1. ASSUME NEW p \in OpenHeads, NEW q
      PROVE  OpenPath(<<p>>) /\ OpenPath(<<p, q>>)
  <2>1. Len(<<p>>) = 1 /\ <<p>>[1] = p /\ <<p>> # << >>
    OBVIOUS
  <2>2. Len(<<p, q>>) = 2 /\ <<p, q>>[1] = p /\ <<p, q>> # << >>
    OBVIOUS
  <2> QED
    BY <2>1, <2>2 DEF OpenPath
<1>2. ASSUME NEW p \in OpenHeads, NEW q, NEW r
      PROVE  OpenPath(<<p, q, r>>)
  <2>1. Len(<<p, q, r>>) = 3 /\ <<p, q, r>>[1] = p /\ <<p, q, r>> # << >>
    OBVIOUS
  <2> QED
    BY <2>1 DEF OpenPath
<1>3. ASSUME NEW method, NEW p \in OpenHeads, NEW q, NEW r
      PROVE  /\ IsOpen(Query(<<p>>)) /\ IsOpen(Public(method, <<p>>))
             /\ IsOpen(Public(method, <<p, q>>)) /\ IsOpen(Public(method, <<p, q, r>>))
  BY <1>1, <1>2 DEF IsOpen, Public, Query, Clob
<1>4. /\ \A p \in OpenHeads : IsOpen(Query(<<p>>))
      /\ \A method : \A p \in OpenHeads : IsOpen(Public(method, <<p>>))
      /\ \A method, q : \A p \in OpenHeads : IsOpen(Public(method, <<p, q>>))
      /\ \A method, q, r : \A p \in OpenHeads : IsOpen(Public(method, <<p, q, r>>))
  BY <1>3
<1>5. /\ "book" \in OpenHeads /\ "books" \in OpenHeads /\ "fee-rate" \in OpenHeads
      /\ "last-trade-price" \in OpenHeads /\ "last-trades-prices" \in OpenHeads
      /\ "live-activity" \in OpenHeads /\ "markets" \in OpenHeads
      /\ "midpoint" \in OpenHeads /\ "midpoints" \in OpenHeads /\ "neg-risk" \in OpenHeads
      /\ "price" \in OpenHeads /\ "prices" \in OpenHeads /\ "spread" \in OpenHeads
      /\ "spreads" \in OpenHeads /\ "tick-size" \in OpenHeads /\ "time" \in OpenHeads
  BY DEF OpenHeads
<1>6. \A p \in {"sampling-markets", "sampling-simplified-markets", "simplified-markets"} :
         p \in OpenHeads
  BY DEF OpenHeads
<1>7. IsOpen(Public("GET", << >>))
  <2>1. OpenPath(<< >>)
    BY DEF OpenPath
  <2> QED
    BY <2>1 DEF IsOpen, Public, Clob
<1>8. \A e \in BookEndpoints : IsOpen(e)
  BY <1>4, <1>5 DEF BookEndpoints
<1>9. \A e \in FeeEndpoints : IsOpen(e)
  BY <1>4, <1>5 DEF FeeEndpoints
<1>10. \A e \in MarketEndpoints : IsOpen(e)
  BY <1>4, <1>5 DEF MarketEndpoints
<1>11. \A e \in PriceEndpoints : IsOpen(e)
  BY <1>4, <1>5, <1>6 DEF PriceEndpoints
<1> QED
  BY <1>7, <1>8, <1>9, <1>10, <1>11 DEF OpenEndpoints

LEMMA OpenAgrees == \A e \in OpenEndpoints : Agrees(e)
<1> SUFFICES ASSUME NEW e \in OpenEndpoints PROVE Agrees(e)
  OBVIOUS
<1>1. e.router = "clob" /\ e.binds = "none" /\ OpenPath(e.path)
  BY OpenPaths DEF IsOpen
<1>2. CASE e.path = << >>
  <2>1. Len(e.path) = 0
    BY <1>2
  <2>2. \A path \in TradingPaths : Len(path) >= 1
    BY DEF TradingPaths, SingleOrderPaths
  <2>3. /\ ~StartsWith(e.path, <<"data">>) /\ ~StartsWith(e.path, <<"v1", "heartbeats">>)
        /\ e.path \notin TradingPaths
    BY <2>1, <2>2, StartsWithOne, StartsWithTwo
  <2>4. /\ e.path # <<"auth", "api-key">> /\ e.path # <<"auth", "derive-api-key">>
        /\ e.path # <<"auth", "api-keys">>
    BY <1>2
  <2>5. CLOBAuth(e) = "open"
    BY <2>3, <2>4 DEF CLOBAuth, Otherwise
  <2> QED
    BY <1>1, <2>5 DEF Agrees, AsksForUser, Asked
<1>3. CASE e.path # << >>
  <2>1. Len(e.path) \in Nat /\ e.path[1] \in OpenHeads
    BY <1>1, <1>3 DEF OpenPath
  <2>2. e.path[1] # "auth" /\ e.path[1] # "data" /\ e.path[1] # "v1"
    BY <2>1 DEF OpenHeads
  <2>3. \A path \in TradingPaths : path[1] \notin OpenHeads
    BY DEF TradingPaths, SingleOrderPaths, OpenHeads
  <2>4. /\ ~StartsWith(e.path, <<"data">>) /\ ~StartsWith(e.path, <<"v1", "heartbeats">>)
        /\ e.path \notin TradingPaths /\ e.path # <<"auth", "api-key">>
        /\ e.path # <<"auth", "derive-api-key">> /\ e.path # <<"auth", "api-keys">>
    BY <2>1, <2>2, <2>3, StartsWithOne, StartsWithTwo
  <2>5. CLOBAuth(e) = "open"
    BY <2>4 DEF CLOBAuth, Otherwise
  <2> QED
    BY <1>1, <2>5 DEF Agrees, AsksForUser, Asked
<1> QED
  BY <1>2, <1>3

LEMMA EveryRouteAgrees == \A e \in Endpoints : Agrees(e)
<1>1. Endpoints = OpenEndpoints \cup KeyEndpoints
                     \cup (BalanceEndpoints \cup CancelEndpoints \cup NotificationEndpoints
                              \cup OrderEndpoints \cup OrdersEndpoints)
                     \cup (DataEndpoints \cup HeartbeatEndpoints)
                     \cup (DashboardEndpoints \cup MainEndpoints)
  BY DEF Endpoints, ClobEndpoints, OpenEndpoints
<1> QED
  BY <1>1, OpenAgrees, KeysAgree, ListedAgrees, PrefixAgrees, DashboardAgrees

RoutesInv ==
    /\ stage \in {"answered", "arrived", "bound", "handler", "400", "401"}
    /\ stage # "answered" => request.endpoint \in Endpoints /\ request.cred \in Credentials
    /\ stage = "401" => Asked(request.endpoint) # "open"
    /\ stage = "handler" /\ Asked(request.endpoint) # "open" =>
          request.cred.valid /\ user = request.cred.owner

LEMMA RoutesHold == HSpec => []RoutesInv
<1>1. HInit => RoutesInv
  BY DEF HInit, RoutesInv
<1>2. RoutesInv /\ [HNext]_hvars => RoutesInv'
  <2> SUFFICES ASSUME RoutesInv, [HNext]_hvars PROVE RoutesInv'
    OBVIOUS
  <2>1. CASE Arrive
    BY <2>1 DEF Arrive, RoutesInv
  <2>2. CASE Bind
    BY <2>2 DEF Bind, RoutesInv
  <2>3. CASE Authenticate
    BY <2>3 DEF Authenticate, RoutesInv
  <2>4. CASE Answer
    BY <2>4 DEF Answer, RoutesInv
  <2>5. CASE UNCHANGED hvars
    BY <2>5 DEF hvars, RoutesInv
  <2> QED
    BY <2>1, <2>2, <2>3, <2>4, <2>5 DEF HNext
<1> QED
  BY <1>1, <1>2, PTL DEF HSpec

\* Every handler that asks who is calling finds the user who signed, on every
\* route and whatever a request carries.
THEOREM HandlersFindUser == HSpec => []HandlersKnowUser
<1>1. RoutesInv => HandlersKnowUser
  <2> SUFFICES ASSUME RoutesInv, stage = "handler", AsksForUser(request.endpoint)
               PROVE  request.cred.valid /\ user = request.cred.owner /\ user # Nobody
    BY DEF HandlersKnowUser
  <2>1. Asked(request.endpoint) # "open"
    BY EveryRouteAgrees DEF RoutesInv, Agrees
  <2>2. request.cred.valid /\ user = request.cred.owner /\ request.cred \in Credentials
    BY <2>1 DEF RoutesInv
  <2>3. request.cred.owner \in Owners
    BY <2>2 DEF Credentials, NoCredentials
  <2> QED
    BY <2>2, <2>3, RoutesAssumption
<1> QED
  BY <1>1, RoutesHold, PTL

\* No route that needs no user refuses a request for its credentials.
THEOREM OpenRoutesStayOpen == HSpec => []OpenToAll
<1>1. RoutesInv => OpenToAll
  BY EveryRouteAgrees DEF RoutesInv, Agrees, OpenToAll
<1> QED
  BY <1>1, RoutesHold, PTL

-----------------------------------------------------------------------------
(* The listings.                                                           *)

\* The rows a walk has not shown yet are older than those its offset skips.
NotYetShown == \A k \in 1 .. Len(rows) :
    rows[k] \in stayed /\ rows[k] \notin seen => k <= Len(rows) - walk.offset

ListingsInv ==
    /\ rows \in Seq(Ids)
    /\ walk = [kind |-> walk.kind, at |-> walk.at, cursor |-> walk.cursor,
               offset |-> walk.offset, pages |-> walk.pages]
    /\ walk.offset \in Nat
    /\ walk.kind = "all" => stayed \subseteq Range(rows)
    /\ walk.kind = "all" /\ walk.at # "end" => NotYetShown
    /\ walk.kind = "all" /\ walk.at = "end" => stayed \subseteq seen

\* The page of a list, newest first, after those an offset skips.
PageOf(list, skip) ==
    First(SubSeq(Reverse(list), skip + 1, Len(Reverse(list))), PageSize)

LEMMA PageOfReverse ==
  ASSUME NEW list \in Seq(Ids), NEW skip \in Nat
  PROVE  /\ Len(PageOf(list, skip)) = PageSize =>
               \A k \in 1 .. Len(list) : list[k] \notin Range(PageOf(list, skip)) =>
                   \/ k <= Len(list) - (skip + PageSize)
                   \/ k > Len(list) - skip
         /\ Len(PageOf(list, skip)) # PageSize =>
               \A k \in 1 .. Len(list) : list[k] \notin Range(PageOf(list, skip)) =>
                   k > Len(list) - skip
<1> DEFINE page == PageOf(list, skip)
<1>1. PageSize \in Nat \ {0}
  BY ListingsAssumption
<1>2. PICK m \in Nat : m = Len(list)
  OBVIOUS
<1>3. PICK turned : turned = Reverse(list)
  OBVIOUS
<1>4. /\ turned \in Seq(Ids) /\ Len(turned) = m
      /\ \A i \in 1 .. m : turned[i] = list[m - i + 1]
  BY <1>2, <1>3 DEF Reverse
<1>5. PICK tail : tail = SubSeq(turned, skip + 1, m)
  OBVIOUS
<1>6. PICK l \in Nat : (skip <= m => l = m - skip) /\ (skip > m => l = 0)
  <2>1. CASE skip <= m
    <3>1. PICK d \in Nat : d = m - skip
      <4>1. m - skip \in Nat
        BY <1>2, <2>1
      <4> QED
        BY <4>1
    <3>2. ~(skip > m)
      BY <1>2, <2>1
    <3> QED
      BY <3>1, <3>2
  <2>2. CASE skip > m
    BY <1>2, <2>2
  <2> QED
    BY <1>2, <2>1, <2>2
<1>7. /\ tail \in Seq(Ids) /\ Len(tail) = l
      /\ \A i \in 1 .. l : tail[i] = turned[skip + i]
  BY <1>2, <1>4, <1>5, <1>6
<1>8. PICK n \in Nat : (l < PageSize => n = l) /\ (l >= PageSize => n = PageSize)
  BY <1>1, <1>6
<1>9. page = SubSeq(tail, 1, n)
  <2>1. page = First(tail, PageSize)
    BY <1>3, <1>4, <1>5 DEF PageOf
  <2>2. CASE l < PageSize
    BY <1>7, <1>8, <2>1, <2>2 DEF First
  <2>3. CASE l >= PageSize
    <3>1. ~(l < PageSize)
      BY <1>1, <1>6, <2>3
    <3> QED
      BY <1>7, <1>8, <2>1, <2>3, <3>1 DEF First
  <2> QED
    BY <1>1, <1>6, <2>2, <2>3
<1> HIDE DEF page
<1>10. page \in Seq(Ids) /\ Len(page) = n /\ \A i \in 1 .. n : page[i] = tail[i]
  <2>1. n <= Len(tail)
    BY <1>1, <1>6, <1>7, <1>8
  <2> QED
    BY <1>7, <1>9, <2>1
<1>11. \A k \in 1 .. m : k <= m - skip /\ k > m - skip - n => list[k] \in Range(page)
  <2> SUFFICES ASSUME NEW k \in 1 .. m, k <= m - skip, k > m - skip - n
               PROVE  list[k] \in Range(page)
    OBVIOUS
  <2>1. PICK i \in Int : i = (m - skip) - k + 1
    <3>1. (m - skip) - k + 1 \in Int
      BY <1>2
    <3> QED
      BY <3>1
  <2>2. i \in 1 .. n /\ i \in 1 .. l /\ skip + i \in 1 .. m /\ m - (skip + i) + 1 = k
    BY <1>1, <1>2, <1>6, <1>8, <2>1
  <2>3. page[i] = list[k]
    BY <1>4, <1>7, <1>10, <2>2
  <2>4. i \in DOMAIN page
    BY <1>10, <2>2
  <2> QED
    BY <2>3, <2>4 DEF Range
<1>12. ASSUME NEW k \in 1 .. m, list[k] \notin Range(page)
       PROVE  /\ n = PageSize => k <= m - (skip + PageSize) \/ k > m - skip
              /\ n # PageSize => k > m - skip
  <2>1. ~(k <= m - skip /\ k > m - skip - n)
    BY <1>11, <1>12
  <2>2. n = PageSize => k <= m - (skip + PageSize) \/ k > m - skip
    BY <1>1, <1>2, <2>1
  <2>3. n # PageSize => n = l
    BY <1>1, <1>6, <1>8
  <2>4. n = l => k > m - skip
    BY <1>2, <1>6, <2>1
  <2> QED
    BY <2>2, <2>3, <2>4
<1>13. Len(page) = n
  BY <1>10
<1> HIDE DEF page
<1> QED
  BY <1>2, <1>12, <1>13 DEF page

LEMMA InsertKeeps ==
  ASSUME ListingsInv, Insert
  PROVE  ListingsInv'
<1>1. PICK id \in Ids \ Range(rows) : rows' = Append(rows, id)
  BY DEF Insert
<1>2. walk' = walk /\ seen' = seen /\ stayed' = stayed
  BY DEF Insert
<1>3. /\ rows \in Seq(Ids) /\ walk.offset \in Nat /\ rows' \in Seq(Ids)
      /\ Len(rows') = Len(rows) + 1 /\ rows'[Len(rows) + 1] = id
      /\ \A k \in 1 .. Len(rows) : rows'[k] = rows[k]
  BY <1>1 DEF ListingsInv
<1>4. Range(rows) \subseteq Range(rows')
  BY <1>3 DEF Range
<1>5. CASE walk.kind = "all"
  <2>1. stayed \subseteq Range(rows)
    BY <1>5 DEF ListingsInv
  <2>2. id \notin stayed
    BY <1>1, <2>1
  <2>3. ASSUME NotYetShown PROVE NotYetShown'
    BY <1>2, <1>3, <2>2, <2>3 DEF NotYetShown
  <2> QED
    BY <1>2, <1>3, <1>4, <2>3 DEF ListingsInv
<1>6. CASE walk.kind # "all"
  BY <1>2, <1>3, <1>6 DEF ListingsInv
<1> QED
  BY <1>5, <1>6

LEMMA OffsetPageKeeps ==
  ASSUME ListingsInv, OffsetPage
  PROVE  ListingsInv'
<1> DEFINE page == First(SubSeq(OffsetRows, walk.offset + 1, Len(OffsetRows)), PageSize)
<1>1. walk.kind = "all" => page = PageOf(rows, walk.offset)
  BY DEF OffsetRows, NewestFirst, PageOf
<1>2. /\ seen' = seen \cup Range(page) /\ rows' = rows /\ stayed' = stayed
      /\ walk.kind \in {"all", "tab"} /\ walk.at = "page"
      /\ walk' = IF Len(page) = PageSize
                 THEN [walk EXCEPT !.offset = @ + PageSize, !.at = "count", !.pages = @ + 1]
                 ELSE [walk EXCEPT !.at = "end"]
  BY DEF OffsetPage
<1> HIDE DEF page
<1>3. PICK skip \in Nat : \E kind, cursor, pages :
        walk = [kind |-> kind, at |-> "page", cursor |-> cursor, offset |-> skip,
                pages |-> pages]
  BY <1>2 DEF ListingsInv
<1>4. PICK kind, cursor, pages :
        walk = [kind |-> kind, at |-> "page", cursor |-> cursor, offset |-> skip,
                pages |-> pages]
  BY <1>3
<1>5. PageSize \in Nat \ {0} /\ rows \in Seq(Ids)
  BY ListingsAssumption DEF ListingsInv
<1>6. CASE Len(page) = PageSize
  <2>1. walk' = [kind |-> kind, at |-> "count", cursor |-> cursor,
                 offset |-> skip + PageSize, pages |-> pages + 1]
    BY <1>2, <1>4, <1>6
  <2>2. ASSUME kind = "all" PROVE NotYetShown' /\ stayed \subseteq Range(rows)
    <3>1. page = PageOf(rows, skip)
      BY <1>1, <1>4, <2>2
    <3>2. \A k \in 1 .. Len(rows) : rows[k] \notin Range(page) =>
              k <= Len(rows) - (skip + PageSize) \/ k > Len(rows) - skip
      BY <1>5, <1>6, <3>1, PageOfReverse
    <3>3. NotYetShown /\ stayed \subseteq Range(rows)
      BY <1>4, <2>2 DEF ListingsInv
    <3>4. \A k \in 1 .. Len(rows) :
              rows[k] \in stayed /\ rows[k] \notin seen => k <= Len(rows) - skip
      BY <1>4, <3>3 DEF NotYetShown
    <3>5. Len(rows) \in Nat
      BY <1>5
    <3>6. \A k \in 1 .. Len(rows) :
              rows[k] \in stayed /\ rows[k] \notin seen \cup Range(page) =>
                  k <= Len(rows) - (skip + PageSize)
      BY <1>4, <1>5, <3>2, <3>4, <3>5
    <3>7. walk'.offset = skip + PageSize
      BY <2>1
    <3>8. NotYetShown'
      BY <1>2, <3>6, <3>7 DEF NotYetShown
    <3> QED
      BY <3>3, <3>8
  <2>3. /\ walk'.offset = skip + PageSize /\ skip + PageSize \in Nat
        /\ walk'.at = "count" /\ walk'.kind = kind
    BY <1>5, <2>1
  <2>4. walk' = [kind |-> walk'.kind, at |-> walk'.at, cursor |-> walk'.cursor,
                 offset |-> walk'.offset, pages |-> walk'.pages]
    BY <2>1
  <2> QED
    BY <1>2, <1>5, <2>2, <2>3, <2>4 DEF ListingsInv
<1>7. CASE Len(page) # PageSize
  <2>1. walk' = [kind |-> kind, at |-> "end", cursor |-> cursor, offset |-> skip,
                 pages |-> pages]
    BY <1>2, <1>4, <1>7
  <2>2. ASSUME kind = "all"
        PROVE  stayed \subseteq seen \cup Range(page) /\ stayed \subseteq Range(rows)
    <3>1. page = PageOf(rows, skip)
      BY <1>1, <1>4, <2>2
    <3>2. \A k \in 1 .. Len(rows) : rows[k] \notin Range(page) => k > Len(rows) - skip
      BY <1>5, <1>7, <3>1, PageOfReverse
    <3>3. NotYetShown /\ stayed \subseteq Range(rows)
      BY <1>4, <2>2 DEF ListingsInv
    <3>4. \A k \in 1 .. Len(rows) :
              rows[k] \in stayed /\ rows[k] \notin seen => k <= Len(rows) - skip
      BY <1>4, <3>3 DEF NotYetShown
    <3>5. Len(rows) \in Nat /\ DOMAIN rows = 1 .. Len(rows)
      BY <1>5
    <3>6. \A k \in 1 .. Len(rows) : rows[k] \in stayed => rows[k] \in seen \cup Range(page)
      BY <1>4, <3>2, <3>4, <3>5
    <3> QED
      BY <3>3, <3>5, <3>6 DEF Range
  <2>3. walk'.offset = skip /\ walk'.at = "end" /\ walk'.kind = kind
    BY <2>1
  <2>4. walk' = [kind |-> walk'.kind, at |-> walk'.at, cursor |-> walk'.cursor,
                 offset |-> walk'.offset, pages |-> walk'.pages]
    BY <2>1
  <2> QED
    BY <1>2, <1>5, <2>2, <2>3, <2>4 DEF ListingsInv
<1> QED
  BY <1>6, <1>7

LEMMA ListingsHold == ISpec => []ListingsInv
<1>1. IInit => ListingsInv
  BY DEF IInit, ListingsInv, Resting
<1>2. ListingsInv /\ [INext]_ivars => ListingsInv'
  <2> SUFFICES ASSUME ListingsInv, [INext]_ivars PROVE ListingsInv'
    OBVIOUS
  <2>1. CASE Close
    BY <2>1 DEF Close, ListingsInv, NotYetShown
  <2>2. CASE Begin
    <3>1. PICK kind \in {"cursor", "all", "tab"} :
            /\ walk' = [Resting EXCEPT !.kind = kind,
                                       !.at = IF kind = "cursor" THEN "page" ELSE "count"]
            /\ seen' = {} /\ rows' = rows
            /\ stayed' = IF kind = "all" THEN Range(rows) ELSE live
      BY <2>2 DEF Begin
    <3>2. walk' = [kind |-> kind, at |-> IF kind = "cursor" THEN "page" ELSE "count",
                   cursor |-> Resting.cursor, offset |-> 0, pages |-> 0]
      BY <3>1 DEF Resting
    <3>3. rows \in Seq(Ids)
      BY DEF ListingsInv
    <3>4. walk'.offset = 0 /\ walk'.kind = kind
      BY <3>2
    <3>5. \A k \in 1 .. Len(rows) : k <= Len(rows) - 0
      BY <3>3
    <3>6. NotYetShown'
      BY <3>1, <3>4, <3>5 DEF NotYetShown
    <3>7. walk'.at # "end"
      BY <3>2
    <3>8. walk' = [kind |-> walk'.kind, at |-> walk'.at, cursor |-> walk'.cursor,
                   offset |-> walk'.offset, pages |-> walk'.pages]
      BY <3>2
    <3> QED
      BY <3>1, <3>3, <3>4, <3>6, <3>7, <3>8 DEF ListingsInv
  <2>3. CASE CursorPage
    BY <2>3 DEF CursorPage, ListingsInv
  <2>4. CASE Count
    BY <2>4 DEF Count, ListingsInv, NotYetShown
  <2>5. CASE Finish
    BY <2>5 DEF Finish, ListingsInv, Resting
  <2>6. CASE UNCHANGED ivars
    BY <2>6 DEF ivars, ListingsInv, NotYetShown
  <2> QED
    BY <2>1, <2>2, <2>3, <2>4, <2>5, <2>6, InsertKeeps, OffsetPageKeeps DEF INext
<1> QED
  BY <1>1, <1>2, PTL DEF ISpec

\* A walk through all orders, or all trades, shows every row that was there when
\* it began, for any number of rows and of rows added and closed between its
\* pages.
THEOREM WalksSkipNothing == ISpec => []NothingSkipped
<1>1. ListingsInv => NothingSkipped
  BY DEF ListingsInv, NothingSkipped, Done
<1> QED
  BY <1>1, ListingsHold, PTL
=============================================================================
