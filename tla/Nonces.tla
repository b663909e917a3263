------------------------------- MODULE Nonces -------------------------------
(***************************************************************************)
(* VerifyL1Auth: requests signed for an address carry a timestamp and a    *)
(* nonce, most of them the default nonce 0. A request looks the triple up  *)
(* in used_nonces and records it in a second statement; the table has one  *)
(* row per address and nonce, which the latest request overwrites.         *)
(*                                                                         *)
(* The server's and the clients' clocks differ by at most Skew. Addresses  *)
(* do not share rows, so there is one; its signature is the client's own.  *)
(***************************************************************************)
EXTENDS Integers

CONSTANTS
    Signers,    \* requests under way for the address
    Numbers,    \* nonces
    TimestampWindow,     \* timestampWindow
    Memory,     \* the 600 seconds a used nonce is remembered
    Skew,       \* how far a client's clock is off
    MaxClock,    \* bound: when the clock stops
    NoValue

ASSUME NoncesAssumption ==
    TimestampWindow \in Nat /\ Memory \in Nat /\ Skew \in Nat /\ MaxClock \in Nat

VARIABLES
    now,
    used,       \* used_nonces: [ts, at] of the row of each nonce, or NoValue
    signing,    \* the request of each client: [ts, nonce, at], or NoValue
    accepted,   \* auxiliary: [ts, nonce, at] let through within Memory
    refused     \* auxiliary: the request last answered "nonce already used"

nvars == <<now, used, signing, accepted, refused>>

NInit ==
    /\ now = 0 /\ used = [n \in Numbers |-> NoValue]
    /\ signing = [s \in Signers |-> NoValue] /\ accepted = {} /\ refused = NoValue

ClockTick ==
    /\ now < MaxClock /\ now' = now + 1
    /\ accepted' = {a \in accepted : a.at > now' - Memory} /\ refused' = NoValue
    /\ UNCHANGED <<used, signing>>

\* A client signs at its own clock's time; the request may travel for a while,
\* and the same signed request may arrive a second time.
Sign(s) == \E ts \in (now - Skew) .. (now + Skew), n \in Numbers :
    /\ signing[s] = NoValue
    /\ signing' = [signing EXCEPT ![s] = [ts |-> ts, nonce |-> n, at |-> "check"]]
    /\ UNCHANGED <<now, used, accepted, refused>>

\* Mutant: the timestamp is missing from the WHERE clause.
NonceEverUsed(n, ts) == used[n] # NoValue /\ used[n].at > now - Memory

IsNonceUsed(n, ts) ==
    used[n] # NoValue /\ used[n].ts = ts /\ used[n].at > now - Memory

\* The first half of VerifyL1Auth, up to the lookup of the user.
Check(s) == LET q == signing[s] IN
    /\ q # NoValue /\ q.at = "check"
    /\ LET outside == q.ts - now > TimestampWindow \/ now - q.ts > TimestampWindow
           again   == ~outside /\ IsNonceUsed(q.nonce, q.ts)
       IN  /\ signing' = [signing EXCEPT ![s] =
                             IF outside \/ again THEN NoValue ELSE [q EXCEPT !.at = "record"]]
           /\ refused' = IF again THEN [ts |-> q.ts, nonce |-> q.nonce] ELSE NoValue
    /\ UNCHANGED <<now, used, accepted>>

\* RecordNonce: INSERT ... ON CONFLICT DO UPDATE, and the handler runs.
Record(s) == LET q == signing[s] IN
    /\ q # NoValue /\ q.at = "record"
    /\ used' = [used EXCEPT ![q.nonce] = [ts |-> q.ts, at |-> now]]
    /\ accepted' = accepted \cup {[ts |-> q.ts, nonce |-> q.nonce, at |-> now]}
    /\ signing' = [signing EXCEPT ![s] = NoValue] /\ refused' = NoValue
    /\ UNCHANGED now

\* A bad signature, an unknown address, a failing statement or a restart.
Drop(s) ==
    /\ signing[s] # NoValue /\ signing' = [signing EXCEPT ![s] = NoValue]
    /\ UNCHANGED <<now, used, accepted, refused>>

NNext == ClockTick \/ \E s \in Signers : Sign(s) \/ Check(s) \/ Record(s) \/ Drop(s)
NSpec == NInit /\ [][NNext]_nvars

-----------------------------------------------------------------------------
\* "Only reject exact (address, nonce, timestamp) within the window"
\* (service.go:193): a request is told that its nonce was used only if just
\* this nonce and timestamp were let through in the last Memory seconds. A
\* client that signs everything with nonce 0 is not refused for that, and a
\* request that was dropped after the check can be sent again.
OnlyRepeatsRefused == refused # NoValue =>
    \E a \in accepted : a.ts = refused.ts /\ a.nonce = refused.nonce

=============================================================================
