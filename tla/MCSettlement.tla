---------------------------- MODULE MCSettlement ----------------------------
(***************************************************************************)
(* Values for the constants of Settlement and symmetries of its instances. *)
(***************************************************************************)
EXTENDS Settlement, TLC

CONSTANTS m1

OneMarket == [t \in Tokens |-> m1]

ServerSymmetry ==
    Permutations(Salts) \cup Permutations(Pollers) \cup Permutations(Requests)
    \cup Permutations(Users)

=============================================================================
