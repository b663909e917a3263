------------------------------ MODULE MCLedger ------------------------------
(***************************************************************************)
(* Values for the constants of Ledger and symmetries of its instances.     *)
(***************************************************************************)
EXTENDS Ledger, TLC

CONSTANTS t1, t2, m1, m2

\* All tokens in one market, or two of three tokens in one.
OneMarket  == [t \in Tokens |-> m1]
TwoMarkets == [t \in Tokens |-> IF t = t1 \/ t = t2 THEN m1 ELSE m2]

\* Accounts, salts and workers are interchangeable.
AccountSymmetry ==
    Permutations(Users) \cup Permutations(Salts) \cup Permutations(Workers)

=============================================================================
