------------------------------ MODULE Accounts ------------------------------
(***************************************************************************)
(* Users, their opening money and their API keys. A request runs on a      *)
(* connection of its own and takes one step per statement; the process may *)
(* stop between two statements, and clients know nothing of what was done. *)
(*                                                                         *)
(* The id of a user is the number of its row; an API key is the number of  *)
(* its creation, so the newest key of a user is its largest. Whoever owns  *)
(* a row can log in, sign for its address and use any key it was given:    *)
(* Login, GetEthAddress and the signature checks change nothing.           *)
(***************************************************************************)
EXTENDS Integers, Sequences

CONSTANTS
    Emails,         \* addresses people register with
    Requests,       \* connections
    OpeningMoney,   \* what Register puts into a new wallet
    MaxKeys,        \* bound: API keys ever created
    MaxMoves        \* bound: what deposits add to what a user withdrew

ASSUME AccountsAssumption ==
    OpeningMoney \in Nat \ {0} /\ MaxKeys \in Nat /\ MaxMoves \in Nat

VARIABLES
    users,      \* the emails of the rows of users, in order of creation
    wallets,    \* balances of the COLLATERAL rows of wallets, by user
    keys,       \* rows of api_keys: [id, user]
    req,        \* what each connection is doing
    created,    \* auxiliary: API keys ever created
    moved,      \* auxiliary: deposits less withdrawals, by user
    answered,   \* auxiliary: users whose registration was answered
    caller      \* auxiliary: user on whose behalf the last key was deleted

avars == <<users, wallets, keys, req, created, moved, answered, caller>>

UserIds == DOMAIN users
Taken(e) == \E u \in UserIds : users[u] = e
KeysOf(u) == {k \in keys : k.user = u}
Newest(u) == CHOOSE k \in KeysOf(u) : \A l \in KeysOf(u) : l.id <= k.id

Idle == [at |-> "idle"]
Turn(r, next) == req' = [req EXCEPT ![r] = next]

accountsUnchanged == UNCHANGED <<users, wallets, moved, answered>>
keysUnchanged == UNCHANGED <<keys, created, caller>>

AInit ==
    /\ users = << >> /\ wallets = << >> /\ keys = {}
    /\ req = [r \in Requests |-> Idle]
    /\ created = 0 /\ moved = << >> /\ answered = {} /\ caller = 0

-----------------------------------------------------------------------------
(* Registration: look up the email, insert the user, insert the wallet,     *)
(* answer with a token.                                                     *)

\* An email that is taken is answered 409 and nothing happens.
RegisterLookup(r) == \E e \in Emails :
    /\ req[r] = Idle /\ ~Taken(e)
    /\ Turn(r, [at |-> "user", email |-> e])
    /\ accountsUnchanged /\ keysUnchanged

\* Mutant: The column without UNIQUE.
CreateUserAlways(r) ==
    /\ users' = Append(users, req[r].email)
    /\ Turn(r, [at |-> "wallet", user |-> Len(users) + 1])

\* INSERT INTO users, with email UNIQUE: a second one of that email fails.
CreateUser(r) ==
    IF Taken(req[r].email)
    THEN Turn(r, Idle) /\ UNCHANGED users
    ELSE /\ users' = Append(users, req[r].email)
         /\ Turn(r, [at |-> "wallet", user |-> Len(users) + 1])

RegisterUser(r) ==
    /\ req[r].at = "user" /\ CreateUser(r)
    /\ moved' = [u \in DOMAIN users' |-> IF u \in UserIds THEN moved[u] ELSE 0]
    /\ UNCHANGED <<wallets, answered>> /\ keysUnchanged

\* Mutant: ON CONFLICT DO NOTHING, as the other inserts into wallets have a clause.
CreateWalletIfAbsent(r) == LET u == req[r].user IN
    /\ wallets' = [v \in DOMAIN wallets \cup {u} |->
                      IF v \in DOMAIN wallets THEN wallets[v] ELSE OpeningMoney]
    /\ Turn(r, [at |-> "answer", user |-> u])

\* INSERT INTO wallets: an error if the user has a wallet already.
CreateCollateralWallet(r) == LET u == req[r].user IN
    IF u \in DOMAIN wallets
    THEN Turn(r, Idle) /\ UNCHANGED wallets
    ELSE /\ wallets' = [v \in DOMAIN wallets \cup {u} |->
                            IF v = u THEN OpeningMoney ELSE wallets[v]]
         /\ Turn(r, [at |-> "answer", user |-> u])

RegisterWallet(r) ==
    /\ req[r].at = "wallet" /\ CreateCollateralWallet(r)
    /\ UNCHANGED <<users, moved, answered>> /\ keysUnchanged

RegisterAnswer(r) ==
    /\ req[r].at = "answer"
    /\ answered' = answered \cup {req[r].user} /\ Turn(r, Idle)
    /\ UNCHANGED <<users, wallets, moved>> /\ keysUnchanged

-----------------------------------------------------------------------------
(* The wallet, from the dashboard. A user whose registration is under way   *)
(* can log in already.                                                      *)

Deposit(r) == \E u \in UserIds :
    /\ req[r] = Idle /\ moved[u] < MaxMoves
    /\ moved' = [moved EXCEPT ![u] = @ + 1]
    /\ wallets' = [v \in DOMAIN wallets \cup {u} |->
                      IF v # u THEN wallets[v]
                      ELSE IF u \in DOMAIN wallets THEN wallets[u] + 1 ELSE 1]
    /\ UNCHANGED <<users, answered, req>> /\ keysUnchanged

Withdraw(r) == \E u \in UserIds \cap DOMAIN wallets :
    /\ req[r] = Idle /\ wallets[u] >= 1
    /\ moved' = [moved EXCEPT ![u] = @ - 1]
    /\ wallets' = [wallets EXCEPT ![u] = @ - 1]
    /\ UNCHANGED <<users, answered, req>> /\ keysUnchanged

-----------------------------------------------------------------------------
(* API keys. A client that created or derived a key signs its next request  *)
(* with it.                                                                 *)

CreateAPIKey(r) == \E u \in UserIds : LET k == [id |-> created + 1, user |-> u] IN
    /\ req[r] = Idle /\ created < MaxKeys
    /\ keys' = keys \cup {k} /\ created' = created + 1
    /\ Turn(r, [at |-> "signed", key |-> k])
    /\ accountsUnchanged /\ UNCHANGED caller

DeriveAPIKey(r) == \E u \in UserIds :
    /\ req[r] = Idle /\ KeysOf(u) # {}
    /\ Turn(r, [at |-> "signed", key |-> Newest(u)])
    /\ accountsUnchanged /\ keysUnchanged

\* VerifyL2Auth looks the key up; one that was deleted is refused.
VerifyL2Auth(r) ==
    /\ req[r].at = "signed"
    /\ Turn(r, IF req[r].key \in keys
               THEN [at |-> "delete", key |-> req[r].key] ELSE Idle)
    /\ accountsUnchanged /\ keysUnchanged

\* DELETE FROM api_keys with the key of the header; no row is no error.
DeleteAPIKey(r) ==
    /\ req[r].at = "delete"
    /\ keys' = {k \in keys : k.id # req[r].key.id}
    /\ caller' = req[r].key.user /\ Turn(r, Idle)
    /\ accountsUnchanged /\ UNCHANGED created

\* Mutant: DELETE without the user in its WHERE.
DeletedForAnyone(u, id) == {k \in keys : k.id = id}

\* The keys a dashboard request of user u that names the id in its body deletes.
DeletedForUser(u, id) == {k \in keys : k.user = u /\ k.id = id}

\* The id comes from the browser, which may show a key that is gone.
DeleteAPIKeyForUser(r) == \E u \in UserIds, id \in 1 .. created :
    /\ req[r] = Idle
    /\ keys' = keys \ DeletedForUser(u, id) /\ caller' = u
    /\ accountsUnchanged /\ UNCHANGED <<req, created>>

-----------------------------------------------------------------------------
\* The process stops: requests end where they are, clients keep their keys.
Restart ==
    /\ \E r \in Requests : req[r].at \notin {"idle", "signed"}
    /\ req' = [r \in Requests |-> IF req[r].at = "signed" THEN req[r] ELSE Idle]
    /\ accountsUnchanged /\ keysUnchanged

Registration(r) ==
    \/ RegisterLookup(r) \/ RegisterUser(r) \/ RegisterWallet(r)
    \/ RegisterAnswer(r)
Money(r) == Deposit(r) \/ Withdraw(r)
KeyRequest(r) ==
    \/ CreateAPIKey(r) \/ DeriveAPIKey(r) \/ VerifyL2Auth(r)
    \/ DeleteAPIKey(r) \/ DeleteAPIKeyForUser(r)

ANext == Restart \/ \E r \in Requests : Registration(r) \/ Money(r) \/ KeyRequest(r)
ASpec == AInit /\ [][ANext]_avars

-----------------------------------------------------------------------------
\* What a wallet holds beside what its user put in: nothing, as long as a
\* deposit made it, or the opening money. Whoever was told that the
\* registration succeeded has the opening money, whatever deposits overtook it
\* and however many registrations of the same email ran at once.
OpeningMoneyOnce ==
    /\ \A u \in DOMAIN wallets : wallets[u] - moved[u] \in {0, OpeningMoney}
    /\ \A u \in answered :
           u \in DOMAIN wallets /\ wallets[u] - moved[u] = OpeningMoney

\* Two registrations that looked an email up before either inserted it do not
\* both get a user row for it (service.go:49 looks, 001_init.sql:6 decides).
OneUserPerEmail == \A u, v \in UserIds : users[u] = users[v] => u = v

\* A key disappears only by a request of the user it belongs to, however late
\* the DELETE runs after the check and whatever id the browser names.
KeysRemovedByOwner == [][\A k \in keys \ keys' : caller' = k.user]_avars

=============================================================================
