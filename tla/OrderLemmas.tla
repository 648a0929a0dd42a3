---------------------------- MODULE OrderLemmas ----------------------------
(***************************************************************************)
(* Facts about least elements, sorted sequences and induction that several *)
(* proofs use.                                                             *)
(*                                                                         *)
(* Induction is by least counterexample: the library's induction theorems  *)
(* take an operator, which the provers cannot supply, while a set of       *)
(* counterexamples is a term.                                              *)
(***************************************************************************)
EXTENDS Sorting, FiniteSetTheorems, FunctionTheorems, WellFoundedInduction, TLAPS

-----------------------------------------------------------------------------
(* Least elements                                                          *)

\* A non-empty set of natural numbers has a least element.
LEMMA LeastNatural ==
  ASSUME NEW T \in SUBSET Nat, T # {}
  PROVE  \E m \in T : \A n \in T : m <= n
<1>1. PICK m \in T : \A n \in T : ~(<< n, m >> \in OpToRel(<, Nat))
  BY NatLessThanWellFounded, WFMin
<1>2. \A n \in T : ~(n < m)
  BY <1>1 DEF OpToRel
<1> QED BY <1>2

\* Some positions of an interval have an earliest one and a latest one.
LEMMA Extremes ==
  ASSUME NEW a \in Int, NEW b \in Int, NEW S \in SUBSET (a .. b), S # {}
  PROVE  /\ \E p \in S : \A q \in S : p <= q
         /\ \E p \in S : \A q \in S : p >= q
<1>1. \E p \in S : \A q \in S : p <= q
  <2> DEFINE T == { q - a : q \in S }
  <2>1. T \in SUBSET Nat /\ T # {}
    <3>1. \A q \in S : q - a \in Nat
      OBVIOUS
    <3> QED BY <3>1
  <2>2. PICK m \in T : \A n \in T : m <= n
    BY <2>1, LeastNatural
  <2>3. PICK p \in S : m = p - a
    OBVIOUS
  <2>4. ASSUME NEW q \in S PROVE p <= q
    <3>1. q - a \in T /\ m <= q - a
      BY <2>2
    <3> QED BY <2>3, <3>1
  <2> QED BY <2>4
<1>2. \E p \in S : \A q \in S : p >= q
  <2> DEFINE T == { b - q : q \in S }
  <2>1. T \in SUBSET Nat /\ T # {}
    <3>1. \A q \in S : b - q \in Nat
      OBVIOUS
    <3> QED BY <3>1
  <2>2. PICK m \in T : \A n \in T : m <= n
    BY <2>1, LeastNatural
  <2>3. PICK p \in S : m = b - p
    OBVIOUS
  <2>4. ASSUME NEW q \in S PROVE p >= q
    <3>1. b - q \in T /\ m <= b - q
      BY <2>2
    <3> QED BY <2>3, <3>1
  <2> QED BY <2>4
<1> QED BY <1>1, <1>2

\* A non-empty finite set of integers has a least and a greatest element.
LEMMA FiniteExtremes ==
  ASSUME NEW S \in SUBSET Int, IsFiniteSet(S), S # {}
  PROVE  /\ \E p \in S : \A q \in S : p <= q
         /\ \E p \in S : \A q \in S : p >= q
<1> DEFINE HasBoth(U) == /\ \E p \in U : \A q \in U : p <= q
                         /\ \E p \in U : \A q \in U : p >= q
           Bad   == { U \in SUBSET S : U # {} /\ ~HasBoth(U) }
           Sizes == { Cardinality(U) : U \in Bad }
<1> SUFFICES ASSUME ~HasBoth(S) PROVE FALSE
  OBVIOUS
<1>1. \A U \in SUBSET S : IsFiniteSet(U) /\ Cardinality(U) \in Nat
  BY FS_Subset, FS_CardinalityType
<1>2. Sizes \in SUBSET Nat /\ Sizes # {}
  <2>1. S \in Bad
    OBVIOUS
  <2> HIDE DEF Bad
  <2>2. Bad \in SUBSET SUBSET S
    BY DEF Bad
  <2> QED BY <2>1, <2>2, <1>1
<1>3. PICK m \in Sizes : \A n \in Sizes : m <= n
  BY <1>2, LeastNatural
<1>4. PICK U \in Bad : m = Cardinality(U)
  OBVIOUS
<1>5. U \in SUBSET S /\ U # {} /\ ~HasBoth(U)
  OBVIOUS
<1>6. PICK x \in U : TRUE
  BY <1>5
<1> DEFINE R == U \ {x}
<1>7. R \in SUBSET S /\ Cardinality(R) = m - 1
  BY <1>1, <1>4, <1>5, <1>6, FS_RemoveElement
<1>8. R # {}
  <2>1. U # {x}
    <3>1. x \in Int /\ x <= x /\ x >= x
      BY <1>5, <1>6
    <3>2. HasBoth({x})
      BY <3>1
    <3> QED BY <1>5, <3>2
  <2> QED BY <1>6, <2>1
<1>9. HasBoth(R)
  <2>1. R \notin Bad
    <3>1. Cardinality(R) \in Sizes => m <= Cardinality(R)
      BY <1>3
    <3>2. m \in Nat
      BY <1>1, <1>4, <1>5
    <3>3. R \in Bad => Cardinality(R) \in Sizes
      OBVIOUS
    <3> HIDE DEF R, Sizes, Bad
    <3> QED BY <1>7, <3>1, <3>2, <3>3
  <2> HIDE DEF R, HasBoth
  <2> QED BY <1>7, <1>8, <2>1
<1>10. PICK y \in R : \A q \in R : y <= q
  BY <1>9
<1>11. PICK z \in R : \A q \in R : z >= q
  BY <1>9
<1>12. \A q \in U : q = x \/ q \in R
  OBVIOUS
<1>13. x \in Int /\ y \in Int /\ z \in Int /\ y \in U /\ z \in U /\ R \in SUBSET Int
  BY <1>5, <1>6
<1>14. \E p \in U : \A q \in U : p <= q
  <2>1. CASE x <= y
    BY <2>1, <1>10, <1>12, <1>13
  <2>2. CASE y <= x
    BY <2>2, <1>10, <1>12, <1>13
  <2> QED BY <2>1, <2>2, <1>13
<1>15. \E p \in U : \A q \in U : p >= q
  <2>1. CASE x >= z
    BY <2>1, <1>11, <1>12, <1>13
  <2>2. CASE z >= x
    BY <2>2, <1>11, <1>12, <1>13
  <2> QED BY <2>1, <2>2, <1>13
<1> QED BY <1>5, <1>14, <1>15

\* The image of a finite set under a function is finite.
LEMMA ImageFinite ==
  ASSUME NEW S, IsFiniteSet(S), NEW T, NEW f \in [S -> T]
  PROVE  IsFiniteSet({ f[x] : x \in S })
<1> DEFINE R == { f[x] : x \in S }
<1>1. f \in Surjection(S, R)
  BY DEF Surjection
<1> QED BY <1>1, FS_Surjection

-----------------------------------------------------------------------------
(* Sorting                                                                 *)

\* An order that ties apart is total: irreflexive, and of two elements that are
\* not tied one comes before the other whatever is between them.
StrictWeakOrder(before, S) ==
  /\ \A x \in S : << x, x >> \notin before
  /\ \A x, y, z \in S : << x, y >> \in before /\ << y, z >> \in before => << x, z >> \in before
  /\ \A x, y, z \in S : << x, z >> \in before => << x, y >> \in before \/ << y, z >> \in before

\* A sorted sequence has the elements of the original, each at one place, and
\* no element after one that it comes before.
LEMMA Sorts ==
  ASSUME NEW n \in Nat, NEW S, NEW s \in [1 .. n -> S], NEW before,
         StrictWeakOrder(before, S)
  PROVE  \E place \in Bijection(1 .. n, 1 .. n) :
           /\ SortedBy(s, before) = [ k \in 1 .. n |-> s[place[k]] ]
           /\ \A i, j \in 1 .. n :
                i < j => << s[place[j]], s[place[i]] >> \notin before
<1> DEFINE Earlier(i, j) == \/ << s[i], s[j] >> \in before
                            \/ << s[j], s[i] >> \notin before /\ i < j
           Before(j) == { i \in 1 .. n : Earlier(i, j) }
           at == [ j \in 1 .. n |-> Cardinality(Before(j)) + 1 ]
           Place(j) == at[j]
           place == [ k \in 1 .. n |-> CHOOSE j \in 1 .. n : Place(j) = k ]
<1>1. \A i \in 1 .. n : s[i] \in S
  OBVIOUS
<1>2. \A i \in 1 .. n : ~Earlier(i, i)
  BY <1>1 DEF StrictWeakOrder
<1>3. \A i, j \in 1 .. n : i # j => Earlier(i, j) \/ Earlier(j, i)
  BY <1>1
<1>4. \A i, j, k \in 1 .. n : Earlier(i, j) /\ Earlier(j, k) => Earlier(i, k)
  BY <1>1 DEF StrictWeakOrder
<1>5. \A j \in 1 .. n : IsFiniteSet(Before(j)) /\ Place(j) \in 1 .. n
  <2>1. IsFiniteSet(1 .. n) /\ Cardinality(1 .. n) = n
    BY FS_Interval
  <2> TAKE j \in 1 .. n
  <2>2. IsFiniteSet((1 .. n) \ {j}) /\ Cardinality((1 .. n) \ {j}) = n - 1
    BY <2>1, FS_RemoveElement
  <2>3. Before(j) \in SUBSET ((1 .. n) \ {j})
    BY <1>2
  <2>4. IsFiniteSet(Before(j)) /\ Cardinality(Before(j)) <= n - 1
    BY <2>2, <2>3, FS_Subset
  <2>5. Cardinality(Before(j)) \in Nat
    BY <2>4, FS_CardinalityType
  <2> QED BY <2>4, <2>5
<1>6. ASSUME NEW i \in 1 .. n, NEW j \in 1 .. n, Earlier(i, j)
      PROVE  Place(i) < Place(j)
  <2>1. Before(i) \cup {i} \in SUBSET Before(j)
    BY <1>4, <1>6
  <2>2. i \notin Before(i)
    BY <1>2
  <2>3. Cardinality(Before(i) \cup {i}) = Cardinality(Before(i)) + 1
    BY <1>5, <2>2, FS_AddElement
  <2>4. Cardinality(Before(i) \cup {i}) <= Cardinality(Before(j))
    BY <1>5, <2>1, FS_Subset
  <2>5. Cardinality(Before(i)) \in Nat /\ Cardinality(Before(j)) \in Nat
    BY <1>5, FS_CardinalityType
  <2> HIDE DEF Before
  <2> QED BY <2>3, <2>4, <2>5
<1>7. \A i, j \in 1 .. n : Place(i) = Place(j) => i = j
  <2> SUFFICES ASSUME NEW i \in 1 .. n, NEW j \in 1 .. n, i # j
               PROVE  Place(i) # Place(j)
    OBVIOUS
  <2>1. Place(i) < Place(j) \/ Place(j) < Place(i)
    BY <1>3, <1>6
  <2>2. Place(i) \in 1 .. n /\ Place(j) \in 1 .. n
    <3> HIDE DEF Place, Before
    <3> QED BY <1>5
  <2> HIDE DEF Place
  <2> QED BY <2>1, <2>2
<1>8. \A k \in 1 .. n : \E j \in 1 .. n : Place(j) = k
  <2>1. at \in Injection(1 .. n, 1 .. n)
    BY <1>5, <1>7 DEF Injection, IsInjective
  <2>2. at \in Surjection(1 .. n, 1 .. n)
    BY <2>1, FS_Interval, FS_Injection
  <2> HIDE DEF at
  <2> QED BY <2>2 DEF Surjection
<1>9. \A k \in 1 .. n : place[k] \in 1 .. n /\ Place(place[k]) = k
  <2> HIDE DEF Place
  <2> QED BY <1>8
<1>10. place \in Bijection(1 .. n, 1 .. n)
  <2>1. place \in Injection(1 .. n, 1 .. n)
    <3> HIDE DEF Place
    <3>1. place \in [1 .. n -> 1 .. n]
      BY <1>9
    <3>2. \A i, j \in 1 .. n : place[i] = place[j] => i = j
      BY <1>9
    <3> QED BY <3>1, <3>2 DEF Injection, IsInjective
  <2>2. place \in Surjection(1 .. n, 1 .. n)
    BY <2>1, FS_Interval, FS_Injection
  <2> QED BY <2>1, <2>2 DEF Bijection
<1>11. SortedBy(s, before) = [ k \in 1 .. n |-> s[place[k]] ]
  <2>1. DOMAIN s = 1 .. n
    OBVIOUS
  <2> QED BY <2>1 DEF SortedBy
<1>12. ASSUME NEW i \in 1 .. n, NEW j \in 1 .. n, i < j
       PROVE  << s[place[j]], s[place[i]] >> \notin before
  <2>1. PICK a \in 1 .. n, b \in 1 .. n : /\ a = place[i] /\ b = place[j]
                                          /\ Place(a) = i /\ Place(b) = j
    <3> HIDE DEF Place, place
    <3> QED BY <1>9
  <2>2. ~Earlier(b, a)
    <3>1. Earlier(b, a) => Place(b) < Place(a)
      BY <1>6
    <3> HIDE DEF Place
    <3> QED BY <1>12, <2>1, <3>1
  <2>3. << s[b], s[a] >> \notin before
    BY <2>2
  <2> QED BY <2>1, <2>3
<1> QED BY <1>10, <1>11, <1>12

=============================================================================
