---------------------------- MODULE MCTransactions ----------------------------
(***************************************************************************)
(* Values for the constants of Transactions.                               *)
(***************************************************************************)
EXTENDS Transactions, TLC

CONSTANTS t1, t2, m1

OneMarket == [t \in Tokens |-> m1]

\* Salts, accounts, connections and pollers are interchangeable.
SessionSymmetry ==
    Permutations(Users) \cup Permutations(Salts) \cup Permutations(Clients)
    \cup Permutations(Pollers)

=============================================================================
