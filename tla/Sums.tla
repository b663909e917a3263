-------------------------------- MODULE Sums --------------------------------
(***************************************************************************)
(* Finite sums of integers, the vocabulary in which the ledger states that *)
(* no money is made or lost: the total of a table column over the rows     *)
(* 1..n, or over a finite set.  The sum is a recursive function rather     *)
(* than a fold, so that its defining equation can be used in proofs        *)
(* (SumsProofs).                                                           *)
(***************************************************************************)
EXTENDS Integers, FiniteSets

\* f[1] + ... + f[n]
SumTo(f, n) ==
    LET s[i \in 0..n] == IF i = 0 THEN 0 ELSE s[i - 1] + f[i]
    IN  s[n]

\* The elements of a finite set, each once.
Listing(S) ==
    CHOOSE s \in [1..Cardinality(S) -> S] :
        \A i, j \in 1..Cardinality(S) : s[i] = s[j] => i = j

\* The sum of f[x] over the x in S.
SumOver(f, S) ==
    SumTo([i \in 1..Cardinality(S) |-> f[Listing(S)[i]]], Cardinality(S))

=============================================================================
