----------------------------- MODULE SumsProofs -----------------------------
(***************************************************************************)
(* Laws of SumTo.  The library's induction theorems take an operator as a  *)
(* parameter, so induction is done by minimal counterexample: a non-empty  *)
(* set of natural numbers has a least element, which follows from the      *)
(* well-foundedness of strict inclusion on finite sets.                    *)
(***************************************************************************)
EXTENDS Sums, TLAPS, WellFoundedInduction, FiniteSetTheorems

\* A non-empty set of natural numbers has a least element.
LEMMA LeastElement ==
  \A T \in SUBSET Nat : T # {} => \E n \in T : \A m \in T : n <= m
<1> SUFFICES ASSUME NEW T \in SUBSET Nat, T # {}
             PROVE  \E n \in T : \A m \in T : n <= m
  OBVIOUS
<1> DEFINE I == {1..n : n \in T}
<1>1. IsWellFoundedOn(StrictSubsetOrdering(Nat), FiniteSubsetsOf(Nat))
  BY FS_StrictSubsetOrderingWellFounded
<1>2. I \subseteq FiniteSubsetsOf(Nat)
  BY FS_Interval DEF FiniteSubsetsOf
<1>3. I # {}
  OBVIOUS
<1> HIDE DEF I
<1>4. \E x \in I : \A y \in I : ~ (<<y, x>> \in StrictSubsetOrdering(Nat))
  BY <1>1, <1>2, <1>3, WFMin
<1>5. PICK n \in T : \A y \in I : ~(<<y, 1..n>> \in StrictSubsetOrdering(Nat))
  BY <1>4 DEF I
<1>6. ASSUME NEW m \in T, m < n PROVE FALSE
  <2>1. (1..m) \subseteq (1..n)
    BY <1>6
  <2>2. n \in 1..n /\ n \notin 1..m
    BY <1>6
  <2>3. 1..m \in I
    BY DEF I
  <2>4. <<1..m, 1..n>> \in StrictSubsetOrdering(Nat)
    BY <2>1, <2>2, <1>6 DEF StrictSubsetOrdering
  <2> QED
    BY <1>5, <2>3, <2>4
<1> QED
  BY <1>6

\* s is the function of the partial sums of f up to n.
IsPartial(s, f, n) ==
    s = [i \in 0..n |-> IF i = 0 THEN 0 ELSE s[i - 1] + f[i]]

\* The partial sums of f exist up to every n.
LEMMA PartialExists ==
  ASSUME NEW f, NEW n \in Nat
  PROVE  \E s : IsPartial(s, f, n)
<1> DEFINE Bad == {k \in Nat : ~ \E s : IsPartial(s, f, k)}
<1> SUFFICES ASSUME Bad # {} PROVE FALSE
  OBVIOUS
<1>1. PICK k \in Bad : \A m \in Bad : k <= m
  <2> Bad \in SUBSET Nat
    OBVIOUS
  <2> HIDE DEF Bad
  <2> QED
    BY LeastElement
<1>2. CASE k = 0
  <2> DEFINE z == [i \in 0..0 |-> 0]
  <2>1. z = [i \in 0..k |-> IF i = 0 THEN 0 ELSE z[i - 1] + f[i]]
    BY <1>2
  <2> QED
    BY <2>1, <1>1 DEF IsPartial
<1>3. CASE k > 0
  <2>1. k - 1 \in Nat /\ k - 1 \notin Bad
    BY <1>1, <1>3
  <2>2. PICK s : IsPartial(s, f, k - 1)
    BY <2>1
  <2> DEFINE t == [i \in 0..k |-> IF i = k THEN s[k - 1] + f[k] ELSE s[i]]
  <2>3. ASSUME NEW i \in 0..k
        PROVE  t[i] = IF i = 0 THEN 0 ELSE t[i - 1] + f[i]
    <3>1. CASE i = k
      BY <3>1, <1>1, <1>3
    <3>2. CASE i # k
      BY <3>2, <1>1, <1>3, <2>2 DEF IsPartial
    <3> QED
      BY <3>1, <3>2
  <2>4. t = [i \in 0..k |-> IF i = 0 THEN 0 ELSE t[i - 1] + f[i]]
    BY <2>3
  <2> QED
    BY <2>4, <1>1 DEF IsPartial
<1> QED
  BY <1>1, <1>2, <1>3

\* SumTo reads the last of some function of partial sums.
LEMMA SumToPartial ==
  ASSUME NEW f, NEW n \in Nat
  PROVE  \E s : IsPartial(s, f, n) /\ SumTo(f, n) = s[n]
<1> DEFINE c == CHOOSE s : s = [i \in 0..n |-> IF i = 0 THEN 0 ELSE s[i - 1] + f[i]]
<1>1. \E s : s = [i \in 0..n |-> IF i = 0 THEN 0 ELSE s[i - 1] + f[i]]
  BY PartialExists DEF IsPartial
<1>2. IsPartial(c, f, n)
  BY <1>1 DEF IsPartial
<1>3. SumTo(f, n) = c[n]
  BY DEF SumTo
<1> QED
  BY <1>2, <1>3

\* Partial sums up to m and up to n agree where both are defined.
LEMMA PartialAgree ==
  ASSUME NEW f, NEW m \in Nat, NEW n \in Nat, m <= n,
         NEW s, IsPartial(s, f, m), NEW t, IsPartial(t, f, n)
  PROVE  \A k \in 0..m : s[k] = t[k]
<1> DEFINE Bad == {k \in 0..m : s[k] # t[k]}
<1> SUFFICES ASSUME Bad # {} PROVE FALSE
  OBVIOUS
<1>1. PICK k \in Bad : \A j \in Bad : k <= j
  <2> Bad \in SUBSET Nat
    OBVIOUS
  <2> HIDE DEF Bad
  <2> QED
    BY LeastElement
<1>2. k # 0
  BY <1>1 DEF IsPartial
<1>3. k - 1 \in 0..m /\ k - 1 \notin Bad
  BY <1>1, <1>2
<1>4. s[k] = s[k - 1] + f[k] /\ t[k] = t[k - 1] + f[k]
  BY <1>1, <1>2 DEF IsPartial
<1> QED
  BY <1>1, <1>2, <1>3, <1>4

\* The equations of SumTo.
LEMMA SumToDef ==
  ASSUME NEW f
  PROVE  /\ SumTo(f, 0) = 0
         /\ \A n \in Nat \ {0} : SumTo(f, n) = SumTo(f, n - 1) + f[n]
<1>1. SumTo(f, 0) = 0
  BY SumToPartial DEF IsPartial
<1>2. ASSUME NEW n \in Nat \ {0}
      PROVE  SumTo(f, n) = SumTo(f, n - 1) + f[n]
  <2>0. PICK m \in Nat : m = n - 1
    OBVIOUS
  <2>1. PICK s : IsPartial(s, f, n) /\ SumTo(f, n) = s[n]
    BY SumToPartial
  <2>2. PICK t : IsPartial(t, f, m) /\ SumTo(f, m) = t[m]
    BY SumToPartial
  <2>3. t[m] = s[m]
    <3>1. n \in Nat /\ m <= n
      BY <2>0
    <3>2. IsPartial(t, f, m) /\ IsPartial(s, f, n)
      BY <2>1, <2>2
    <3>3. \A k \in 0..m : t[k] = s[k]
      BY <3>1, <3>2, PartialAgree
    <3> QED
      BY <3>3
  <2>4. s[n] = s[n - 1] + f[n]
    BY <2>1 DEF IsPartial
  <2> QED
    BY <2>0, <2>1, <2>2, <2>3, <2>4
<1> QED
  BY <1>1, <1>2

\* The sum only depends on the terms it adds up.
LEMMA SumToSame ==
  ASSUME NEW f, NEW g, NEW n \in Nat, \A i \in 1..n : f[i] = g[i]
  PROVE  SumTo(f, n) = SumTo(g, n)
<1>1. PICK s : IsPartial(s, f, n) /\ SumTo(f, n) = s[n]
  BY SumToPartial
<1>2. PICK t : IsPartial(t, g, n) /\ SumTo(g, n) = t[n]
  BY SumToPartial
<1>. IsPartial(t, f, n)
  BY <1>2 DEF IsPartial
<1>3. \A k \in 0..n : s[k] = t[k]
  BY <1>1, <1>2, PartialAgree
<1> QED
  BY <1>1, <1>2, <1>3

\* A sum of integers is an integer.
LEMMA SumToInt ==
  ASSUME NEW f, NEW n \in Nat, \A i \in 1..n : f[i] \in Int
  PROVE  SumTo(f, n) \in Int
<1> DEFINE Bad == {k \in 0..n : SumTo(f, k) \notin Int}
<1> SUFFICES ASSUME Bad # {} PROVE FALSE
  OBVIOUS
<1>1. PICK k \in Bad : \A j \in Bad : k <= j
  <2> Bad \in SUBSET Nat
    OBVIOUS
  <2> HIDE DEF Bad
  <2> QED
    BY LeastElement
<1>2. k # 0
  BY <1>1, SumToDef
<1>3. k - 1 \in 0..n /\ k - 1 \notin Bad
  BY <1>1, <1>2
<1>4. SumTo(f, k) = SumTo(f, k - 1) + f[k]
  BY <1>1, <1>2, SumToDef
<1> QED
  BY <1>1, <1>2, <1>3, <1>4

\* A sum of natural numbers is a natural number.
LEMMA SumToNat ==
  ASSUME NEW f, NEW n \in Nat, \A i \in 1..n : f[i] \in Nat
  PROVE  SumTo(f, n) \in Nat
<1> DEFINE Bad == {k \in 0..n : SumTo(f, k) \notin Nat}
<1> SUFFICES ASSUME Bad # {} PROVE FALSE
  OBVIOUS
<1>1. PICK k \in Bad : \A j \in Bad : k <= j
  <2> Bad \in SUBSET Nat
    OBVIOUS
  <2> HIDE DEF Bad
  <2> QED
    BY LeastElement
<1>2. k # 0
  BY <1>1, SumToDef
<1>3. k - 1 \in 0..n /\ k - 1 \notin Bad
  BY <1>1, <1>2
<1>4. SumTo(f, k) = SumTo(f, k - 1) + f[k]
  BY <1>1, <1>2, SumToDef
<1> QED
  BY <1>1, <1>2, <1>3, <1>4

\* Sums add up term by term.
LEMMA SumToAdd ==
  ASSUME NEW f, NEW g, NEW h, NEW n \in Nat,
         \A i \in 1..n : /\ f[i] \in Int /\ g[i] \in Int
                         /\ h[i] = f[i] + g[i]
  PROVE  SumTo(h, n) = SumTo(f, n) + SumTo(g, n)
<1> DEFINE Bad == {k \in 0..n : SumTo(h, k) # SumTo(f, k) + SumTo(g, k)}
<1> SUFFICES ASSUME Bad # {} PROVE FALSE
  OBVIOUS
<1>1. PICK k \in Bad : \A j \in Bad : k <= j
  <2> Bad \in SUBSET Nat
    OBVIOUS
  <2> HIDE DEF Bad
  <2> QED
    BY LeastElement
<1>2. k # 0
  BY <1>1, SumToDef
<1>3. k - 1 \in 0..n /\ k - 1 \notin Bad
  BY <1>1, <1>2
<1>4. /\ SumTo(f, k) = SumTo(f, k - 1) + f[k]
      /\ SumTo(g, k) = SumTo(g, k - 1) + g[k]
      /\ SumTo(h, k) = SumTo(h, k - 1) + h[k]
  BY <1>1, <1>2, SumToDef
<1>5. /\ SumTo(f, k - 1) \in Int /\ SumTo(g, k - 1) \in Int
      /\ f[k] \in Int /\ g[k] \in Int /\ h[k] = f[k] + g[k]
  BY <1>1, <1>2, <1>3, SumToInt
<1>6. SumTo(h, k - 1) = SumTo(f, k - 1) + SumTo(g, k - 1)
  BY <1>3
<1> QED
  BY <1>1, <1>4, <1>5, <1>6

\* Changing the term of one row changes the sum by the difference.
LEMMA SumToPoint ==
  ASSUME NEW f, NEW g, NEW n \in Nat, NEW j \in 1..n,
         \A i \in 1..n : f[i] \in Int /\ g[i] \in Int,
         \A i \in 1..n \ {j} : g[i] = f[i]
  PROVE  SumTo(g, n) = SumTo(f, n) + g[j] - f[j]
<1> DEFINE Bad == {k \in j..n : SumTo(g, k) # SumTo(f, k) + g[j] - f[j]}
<1> SUFFICES ASSUME Bad # {} PROVE FALSE
  OBVIOUS
<1>1. PICK k \in Bad : \A i \in Bad : k <= i
  <2> Bad \in SUBSET Nat
    OBVIOUS
  <2> HIDE DEF Bad
  <2> QED
    BY LeastElement
<1>2. /\ SumTo(f, k) = SumTo(f, k - 1) + f[k]
      /\ SumTo(g, k) = SumTo(g, k - 1) + g[k]
  BY <1>1, SumToDef
<1>3. /\ SumTo(f, k - 1) \in Int /\ SumTo(g, k - 1) \in Int
      /\ f[k] \in Int /\ g[k] \in Int /\ f[j] \in Int /\ g[j] \in Int
  BY <1>1, SumToInt
<1>4. CASE k = j
  <2>1. SumTo(f, k - 1) = SumTo(g, k - 1)
    BY <1>4, <1>1, SumToSame
  <2> QED
    BY <2>1, <1>1, <1>2, <1>3, <1>4
<1>5. CASE k > j
  <2>1. k - 1 \in j..n /\ k - 1 \notin Bad
    BY <1>1, <1>5
  <2>2. f[k] = g[k]
    BY <1>1, <1>5
  <2> QED
    BY <2>1, <2>2, <1>1, <1>2, <1>3
<1> QED
  BY <1>1, <1>4, <1>5

\* Adding a row adds its term.
LEMMA SumToAppend ==
  ASSUME NEW f, NEW g, NEW n \in Nat, \A i \in 1..n : g[i] = f[i]
  PROVE  SumTo(g, n + 1) = SumTo(f, n) + g[n + 1]
<1>1. SumTo(g, n + 1) = SumTo(g, n) + g[n + 1]
  BY SumToDef
<1>2. SumTo(g, n) = SumTo(f, n)
  BY SumToSame
<1> QED
  BY <1>1, <1>2

\* The sum of two lists, one after the other.
Follows(f, n, g, m, h) ==
    /\ \A i \in 1..n : f[i] \in Int /\ h[i] = f[i]
    /\ \A i \in 1..m : g[i] \in Int /\ h[n + i] = g[i]

LEMMA SumToCat ==
  ASSUME NEW n \in Nat, NEW m \in Nat, NEW f, NEW g, NEW h,
         Follows(f, n, g, m, h)
  PROVE  SumTo(h, n + m) = SumTo(f, n) + SumTo(g, m)
<1> USE DEF Follows
<1> DEFINE Bad == {k \in 0..m : SumTo(h, n + k) # SumTo(f, n) + SumTo(g, k)}
<1> SUFFICES ASSUME Bad # {} PROVE FALSE
  OBVIOUS
<1>1. PICK k \in Bad : \A j \in Bad : k <= j
  <2> Bad \in SUBSET Nat
    OBVIOUS
  <2> HIDE DEF Bad
  <2> QED
    BY LeastElement
<1>2. k \in 0..m /\ SumTo(h, n + k) # SumTo(f, n) + SumTo(g, k)
  BY <1>1
<1>3. SumTo(f, n) \in Int
  BY SumToInt
<1>4. k # 0
  <2>1. SumTo(g, 0) = 0 /\ SumTo(h, n) = SumTo(f, n)
    BY SumToDef, SumToSame
  <2> QED
    BY <1>2, <1>3, <2>1
<1>5. PICK j \in Nat : j = k - 1
  BY <1>2, <1>4
<1>6. j \notin Bad /\ j \in 0..m
  BY <1>1, <1>2, <1>5
<1>7. SumTo(h, n + j) = SumTo(f, n) + SumTo(g, j)
  BY <1>6
<1>8. SumTo(g, k) = SumTo(g, j) + g[k]
  BY <1>2, <1>4, <1>5, SumToDef
<1>9. SumTo(h, n + k) = SumTo(h, n + j) + h[n + k]
  <2>1. n + k \in Nat \ {0} /\ (n + k) - 1 = n + j
    BY <1>2, <1>4, <1>5
  <2> QED
    BY <2>1, SumToDef
<1>10. SumTo(g, j) \in Int /\ g[k] \in Int /\ h[n + k] = g[k]
  <2>1. \A i \in 1..j : g[i] \in Int
    BY <1>2, <1>5
  <2>2. k \in 1..m
    BY <1>2, <1>4
  <2> QED
    BY <2>1, <2>2, SumToInt
<1>11. SumTo(h, n + k) = SumTo(f, n) + SumTo(g, k)
  BY <1>3, <1>7, <1>8, <1>9, <1>10
<1> QED
  BY <1>2, <1>11

\* A sum of natural numbers is at least each of its terms.
LEMMA SumToTerm ==
  ASSUME NEW f, NEW n \in Nat, \A i \in 1..n : f[i] \in Nat, NEW j \in 1..n
  PROVE  f[j] <= SumTo(f, n)
<1> DEFINE g == [i \in 1..n |-> IF i = j THEN 0 ELSE f[i]]
<1>1. /\ \A i \in 1..n : f[i] \in Int /\ g[i] \in Int /\ g[i] \in Nat
      /\ \A i \in 1..n \ {j} : g[i] = f[i]
      /\ g[j] = 0 /\ f[j] \in Nat
  OBVIOUS
<1> HIDE DEF g
<1>2. SumTo(g, n) = SumTo(f, n) + g[j] - f[j]
  BY <1>1, SumToPoint
<1>3. SumTo(g, n) \in Nat /\ SumTo(f, n) \in Nat
  BY <1>1, SumToNat
<1> QED
  BY <1>1, <1>2, <1>3

\* A sum of zeros is zero.
LEMMA SumToZero ==
  ASSUME NEW f, NEW n \in Nat, \A i \in 1..n : f[i] = 0
  PROVE  SumTo(f, n) = 0
<1> DEFINE Bad == {k \in 0..n : SumTo(f, k) # 0}
<1> SUFFICES ASSUME Bad # {} PROVE FALSE
  OBVIOUS
<1>1. PICK k \in Bad : \A j \in Bad : k <= j
  <2> Bad \in SUBSET Nat
    OBVIOUS
  <2> HIDE DEF Bad
  <2> QED
    BY LeastElement
<1>2. k # 0
  BY <1>1, SumToDef
<1>3. k - 1 \in 0..n /\ k - 1 \notin Bad
  BY <1>1, <1>2
<1>4. SumTo(f, k) = SumTo(f, k - 1) + f[k]
  BY <1>1, <1>2, SumToDef
<1> QED
  BY <1>1, <1>2, <1>3, <1>4

-----------------------------------------------------------------------------
(* Sums over a set.                                                        *)

\* The elements of a finite set can be listed.
LEMMA ListingIn ==
  ASSUME NEW S, IsFiniteSet(S)
  PROVE  /\ Cardinality(S) \in Nat
         /\ \A i \in 1..Cardinality(S) : Listing(S)[i] \in S
<1> DEFINE n == Cardinality(S)
<1>1. n \in Nat /\ ExistsBijection(1..n, S)
  BY FS_CardinalityType
<1> HIDE DEF n
<1>2. \E s \in [1..n -> S] : \A i, j \in 1..n : s[i] = s[j] => i = j
  BY <1>1 DEF ExistsBijection, Bijection, Injection, IsInjective
<1>3. (CHOOSE s \in [1..n -> S] : \A i, j \in 1..n : s[i] = s[j] => i = j)
         \in [1..n -> S]
  BY <1>2
<1> QED
  BY <1>1, <1>3 DEF Listing, n

LEMMA SumOverNat ==
  ASSUME NEW S, IsFiniteSet(S), NEW f, \A x \in S : f[x] \in Nat
  PROVE  SumOver(f, S) \in Nat
<1> DEFINE n == Cardinality(S)
           g == [i \in 1..n |-> f[Listing(S)[i]]]
<1>1. n \in Nat /\ \A i \in 1..n : g[i] \in Nat
  BY ListingIn
<1> HIDE DEF n, g
<1>2. SumTo(g, n) \in Nat
  BY <1>1, SumToNat
<1> QED
  BY <1>2 DEF SumOver, n, g

LEMMA SumOverAdd ==
  ASSUME NEW S, IsFiniteSet(S), NEW f, NEW g, NEW h,
         \A x \in S : f[x] \in Int /\ g[x] \in Int /\ h[x] = f[x] + g[x]
  PROVE  SumOver(h, S) = SumOver(f, S) + SumOver(g, S)
<1> DEFINE n  == Cardinality(S)
           fl == [i \in 1..n |-> f[Listing(S)[i]]]
           gl == [i \in 1..n |-> g[Listing(S)[i]]]
           hl == [i \in 1..n |-> h[Listing(S)[i]]]
<1>1. /\ n \in Nat
      /\ \A i \in 1..n : /\ fl[i] \in Int /\ gl[i] \in Int
                         /\ hl[i] = fl[i] + gl[i]
  BY ListingIn
<1> HIDE DEF n, fl, gl, hl
<1>2. SumTo(hl, n) = SumTo(fl, n) + SumTo(gl, n)
  BY <1>1, SumToAdd
<1> QED
  BY <1>2 DEF SumOver, n, fl, gl, hl

LEMMA SumOverZero ==
  ASSUME NEW S, IsFiniteSet(S), NEW f, \A x \in S : f[x] = 0
  PROVE  SumOver(f, S) = 0
<1> DEFINE n == Cardinality(S)
           g == [i \in 1..n |-> f[Listing(S)[i]]]
<1>1. n \in Nat /\ \A i \in 1..n : g[i] = 0
  BY ListingIn
<1> HIDE DEF n, g
<1>2. SumTo(g, n) = 0
  BY <1>1, SumToZero
<1> QED
  BY <1>2 DEF SumOver, n, g

\* A factor can be taken out of a sum.
LEMMA SumToScale ==
  ASSUME NEW f, NEW h, NEW c \in Int, NEW n \in Nat,
         \A i \in 1..n : f[i] \in Int /\ h[i] = c * f[i]
  PROVE  SumTo(h, n) = c * SumTo(f, n)
<1> DEFINE Bad == {k \in 0..n : SumTo(h, k) # c * SumTo(f, k)}
<1> SUFFICES ASSUME Bad # {} PROVE FALSE
  OBVIOUS
<1>1. PICK k \in Bad : \A j \in Bad : k <= j
  <2> Bad \in SUBSET Nat
    OBVIOUS
  <2> HIDE DEF Bad
  <2> QED
    BY LeastElement
<1>2. k # 0
  BY <1>1, SumToDef
<1>3. k - 1 \in 0..n /\ k - 1 \notin Bad
  BY <1>1, <1>2
<1>4. /\ SumTo(f, k) = SumTo(f, k - 1) + f[k]
      /\ SumTo(h, k) = SumTo(h, k - 1) + h[k]
  BY <1>1, <1>2, SumToDef
<1>5. SumTo(f, k - 1) \in Int /\ f[k] \in Int /\ h[k] = c * f[k]
  BY <1>1, <1>2, <1>3, SumToInt
<1>6. SumTo(h, k - 1) = c * SumTo(f, k - 1)
  BY <1>3
<1>7. c * (SumTo(f, k - 1) + f[k]) = c * SumTo(f, k - 1) + c * f[k]
  BY <1>5
<1>8. SumTo(h, k) = c * SumTo(f, k)
  BY <1>4, <1>5, <1>6, <1>7
<1> QED
  BY <1>1, <1>8

\* Larger terms, larger sum.
LEMMA SumToMonotone ==
  ASSUME NEW f, NEW g, NEW n \in Nat,
         \A i \in 1..n : f[i] \in Int /\ g[i] \in Int /\ f[i] <= g[i]
  PROVE  SumTo(f, n) <= SumTo(g, n)
<1> DEFINE d == [i \in 1..n |-> g[i] - f[i]]
<1>1. \A i \in 1..n : d[i] \in Nat /\ d[i] \in Int /\ g[i] = f[i] + d[i]
  OBVIOUS
<1> HIDE DEF d
<1>2. SumTo(g, n) = SumTo(f, n) + SumTo(d, n)
  BY <1>1, SumToAdd
<1>3. SumTo(f, n) \in Int /\ SumTo(d, n) \in Nat
  BY <1>1, SumToInt, SumToNat
<1> QED
  BY <1>2, <1>3

=============================================================================
