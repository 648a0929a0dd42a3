-------------------------- MODULE StudyReportProofs --------------------------
(***************************************************************************)
(* Proofs about StudyReport, for any comparisons kept, any p-values and    *)
(* levels, any mean losses and any rejections of the backtests.            *)
(*                                                                         *)
(* The core is Holm's adjustment.  Its running maximum at a rank is the    *)
(* step of some earlier rank and no less than any of them; a closed test   *)
(* fails on the set of tests from that rank on, and a set of tests is      *)
(* rejected for the one of its tests with the lowest rank.                 *)
(***************************************************************************)
EXTENDS StudyReport, OrderLemmas, SequenceTheorems, TLAPS

-----------------------------------------------------------------------------
(* Sorting the p-values                                                    *)

\* Products of natural numbers are monotonic.
LEMMA Product ==
  ASSUME NEW x \in Nat, NEW y \in Nat, NEW p \in Nat, NEW q \in Nat, x <= y, p <= q
  PROVE  x * p \in Nat /\ y * q \in Nat /\ x * p <= y * q
<1>1. \A a, b \in Nat : a * b \in Nat
  OBVIOUS
<1>2. y * q = x * q + (y - x) * q
  OBVIOUS
<1>3. x * q = x * p + x * (q - p)
  OBVIOUS
<1>4. (y - x) * q \in Nat /\ x * (q - p) \in Nat /\ x * p \in Nat
  <2>1. y - x \in Nat /\ q - p \in Nat
    OBVIOUS
  <2> QED BY <1>1, <2>1
<1> QED BY <1>2, <1>3, <1>4

\* The sequence of a finite set has each element at one place.
LEMMA Sequenced ==
  ASSUME NEW D, IsFiniteSet(D)
  PROVE  SetToSeq(D) \in Bijection(1 .. Cardinality(D), D)
<1> DEFINE n == Cardinality(D)
<1>1. n \in Nat /\ \E f : f \in Bijection(1 .. n, D)
  BY FS_CardinalityType DEF ExistsBijection
<1>2. \E f \in [1 .. n -> D] : IsInjective(f)
  BY <1>1 DEF Bijection, Injection
<1>3. SetToSeq(D) \in Injection(1 .. n, D)
  BY <1>2 DEF SetToSeq, Injection
<1>4. SetToSeq(D) \in Surjection(1 .. n, D)
  <2>1. Cardinality(1 .. n) = n
    BY <1>1, FS_Interval
  <2> QED BY <1>3, <2>1, FS_Injection
<1> QED BY <1>3, <1>4 DEF Bijection

\* Ordered has each test at one rank, the p-values rising with the rank.
LEMMA Ranks ==
  ASSUME NEW D, IsFiniteSet(D), NEW p \in [D -> Nat]
  PROVE  LET n == Cardinality(D)
             o == Ordered(p)
         IN  /\ n \in Nat
             /\ o \in Bijection(1 .. n, D)
             /\ Len(o) = n
             /\ \A i, j \in 1 .. n : i <= j => p[o[i]] <= p[o[j]]
<1> DEFINE n == Cardinality(D)
           s == SetToSeq(D)
<1>1. n \in Nat
  BY FS_CardinalityType
<1>2. s \in Bijection(1 .. n, D) /\ s \in [1 .. n -> D]
  BY Sequenced DEF Bijection, Injection
<1>3. StrictWeakOrder(Below(p), D)
  BY DEF StrictWeakOrder, Below
<1>4. PICK place \in Bijection(1 .. n, 1 .. n) :
        /\ SortedBy(s, Below(p)) = [ k \in 1 .. n |-> s[place[k]] ]
        /\ \A i, j \in 1 .. n : i < j => << s[place[j]], s[place[i]] >> \notin Below(p)
  <2> HIDE DEF n, s
  <2> QED BY <1>1, <1>2, <1>3, Sorts
<1>5. Ordered(p) = [ k \in 1 .. n |-> s[place[k]] ]
  BY <1>4 DEF Ordered
<1>6. Ordered(p) \in Bijection(1 .. n, D)
  <2> HIDE DEF n, s
  <2>1. /\ place \in [1 .. n -> 1 .. n]
        /\ \A i, j \in 1 .. n : place[i] = place[j] => i = j
        /\ \A j \in 1 .. n : \E i \in 1 .. n : place[i] = j
    BY <1>4 DEF Bijection, Injection, Surjection, IsInjective
  <2>2. /\ \A i, j \in 1 .. n : s[i] = s[j] => i = j
        /\ \A d \in D : \E i \in 1 .. n : s[i] = d
    BY <1>2 DEF Bijection, Injection, Surjection, IsInjective
  <2>3. Ordered(p) \in [1 .. n -> D]
    BY <1>2, <1>5, <2>1
  <2>4. ASSUME NEW i \in 1 .. n, NEW j \in 1 .. n, Ordered(p)[i] = Ordered(p)[j]
        PROVE  i = j
    <3>1. place[i] \in 1 .. n /\ place[j] \in 1 .. n /\ s[place[i]] = s[place[j]]
      BY <1>5, <2>1, <2>4
    <3> QED BY <2>1, <2>2, <3>1
  <2>5. \A d \in D : \E i \in 1 .. n : Ordered(p)[i] = d
    BY <1>5, <2>1, <2>2
  <2> QED BY <2>3, <2>4, <2>5, Fun_IsBij, Zenon
<1>7. Len(Ordered(p)) = n
  BY <1>1, <1>5
<1>8. ASSUME NEW i \in 1 .. n, NEW j \in 1 .. n, i <= j
      PROVE  p[Ordered(p)[i]] <= p[Ordered(p)[j]]
  <2>1. Ordered(p)[i] \in D /\ Ordered(p)[j] \in D
    BY <1>6 DEF Bijection, Injection
  <2>2. CASE i = j
    BY <2>1, <2>2
  <2>3. CASE i < j
    <3>1. << Ordered(p)[j], Ordered(p)[i] >> \notin Below(p)
      BY <1>4, <1>5, <2>3
    <3>2. ~(p[Ordered(p)[j]] < p[Ordered(p)[i]])
      BY <2>1, <3>1 DEF Below
    <3> QED BY <2>1, <3>2
  <2> QED BY <1>8, <2>2, <2>3
<1> QED BY <1>1, <1>6, <1>7, <1>8

-----------------------------------------------------------------------------
(* The running maximum                                                     *)

\* The running maximum at a rank is the step of some rank up to it, and no less
\* than any of them.
LEMMA RunningMaximumIs ==
  ASSUME NEW n \in Nat, NEW D, NEW p \in [D -> Nat], NEW o \in [1 .. n -> D], Len(o) = n
  PROVE  \A i \in 1 .. n :
           /\ \A k \in 1 .. i : Step(p, o, k) <= RunningMaximum(p, o)[i]
           /\ \E k \in 1 .. i : RunningMaximum(p, o)[i] = Step(p, o, k)
<1> DEFINE running(f) == [ i \in 0 .. n |-> IF i = 0 THEN 0
                                           ELSE Larger(f[i - 1], Step(p, o, i)) ]
           values(i) == {0} \cup { Step(p, o, k) : k \in 1 .. i }
           greatest(i) == CHOOSE x \in values(i) : \A y \in values(i) : x >= y
           f == [ i \in 0 .. n |-> greatest(i) ]
           r == RunningMaximum(p, o)
<1>1. \A k \in 1 .. n : Step(p, o, k) \in 0 .. Scale
  <2> SUFFICES ASSUME NEW k \in 1 .. n PROVE Step(p, o, k) \in 0 .. Scale
    OBVIOUS
  <2>1. n - k + 1 \in Nat /\ p[o[k]] \in Nat /\ Scale \in Nat
    BY StudyAssumption
  <2>2. (n - k + 1) * p[o[k]] \in Nat
    BY <2>1, Product
  <2> QED BY <2>1, <2>2 DEF Step, Smaller
<1>2. \A i \in 0 .. n : /\ greatest(i) \in values(i)
                        /\ \A y \in values(i) : greatest(i) >= y
  <2> SUFFICES ASSUME NEW i \in 0 .. n
               PROVE  \E x \in values(i) : \A y \in values(i) : x >= y
    OBVIOUS
  <2>1. values(i) \in SUBSET (0 .. Scale) /\ values(i) # {}
    BY <1>1, StudyAssumption
  <2>2. PICK a \in Int, b \in Int : a = 0 /\ b = Scale
    BY StudyAssumption
  <2> HIDE DEF values
  <2>3. values(i) \in SUBSET (a .. b)
    BY <2>1, <2>2
  <2> QED BY <2>1, <2>2, <2>3, Extremes
<1>3. ASSUME NEW i \in 1 .. n
      PROVE  greatest(i) = Larger(greatest(i - 1), Step(p, o, i))
  <2>1. i - 1 \in 0 .. n /\ i \in 0 .. n
    OBVIOUS
  <2>2. values(i) = values(i - 1) \cup {Step(p, o, i)}
    OBVIOUS
  <2>3. values(i) \subseteq Int
    BY <1>1, StudyAssumption
  <2> HIDE DEF values, greatest
  <2>4. /\ greatest(i) \in values(i) /\ greatest(i - 1) \in values(i - 1)
        /\ \A y \in values(i) : greatest(i) >= y
        /\ \A y \in values(i - 1) : greatest(i - 1) >= y
    BY <1>2, <2>1
  <2>5. /\ greatest(i) \in Int /\ greatest(i - 1) \in Int /\ Step(p, o, i) \in Int
        /\ greatest(i) >= greatest(i - 1) /\ greatest(i) >= Step(p, o, i)
        /\ greatest(i) = Step(p, o, i) \/ greatest(i - 1) >= greatest(i)
    BY <2>2, <2>3, <2>4
  <2> QED BY <2>5 DEF Larger
<1>4. f = running(f)
  <2>1. greatest(0) = 0
    <3>1. values(0) = {0}
      OBVIOUS
    <3> HIDE DEF values
    <3> QED BY <1>2, <3>1
  <2>2. \A i \in 0 .. n : f[i] = greatest(i)
    OBVIOUS
  <2>3. \A i \in 1 .. n : f[i - 1] = greatest(i - 1)
    <3>1. \A i \in 1 .. n : i - 1 \in 0 .. n
      OBVIOUS
    <3> HIDE DEF f, greatest
    <3> QED BY <2>2, <3>1
  <2> HIDE DEF greatest
  <2> QED BY <1>3, <2>1, <2>2, <2>3
<1>5. r = running(r)
  <2>1. r = CHOOSE g : g = running(g)
    BY DEF RunningMaximum
  <2> HIDE DEF f
  <2> QED BY <1>4, <2>1
<1>6. r[0] = 0 /\ \A i \in 1 .. n : r[i] = Larger(r[i - 1], Step(p, o, i))
  <2> HIDE DEF r
  <2> QED BY <1>5
<1> HIDE DEF r
<1> DEFINE Good(i) == /\ r[i] \in Nat
                      /\ \A k \in 1 .. i : Step(p, o, k) <= r[i]
                      /\ i # 0 => \E k \in 1 .. i : r[i] = Step(p, o, k)
           Bad == { i \in 0 .. n : ~Good(i) }
<1>7. Bad = {}
  <2> SUFFICES ASSUME Bad # {} PROVE FALSE
    OBVIOUS
  <2>1. PICK m \in Bad : \A i \in Bad : m <= i
    <3>1. Bad \in SUBSET Nat
      OBVIOUS
    <3> HIDE DEF Bad
    <3> QED BY <3>1, LeastNatural
  <2>2. m \in 0 .. n /\ ~Good(m)
    OBVIOUS
  <2>3. CASE m = 0
    BY <1>6, <2>2, <2>3
  <2>4. CASE m # 0
    <3>1. m \in 1 .. n /\ m - 1 \in 0 .. n
      BY <2>2, <2>4
    <3>2. Good(m - 1)
      BY <2>1, <3>1
    <3>3. r[m] = Larger(r[m - 1], Step(p, o, m)) /\ Step(p, o, m) \in Nat
      BY <1>1, <1>6, <3>1, StudyAssumption
    <3>4. \A k \in 1 .. m : Step(p, o, k) \in Nat /\ (k = m \/ k \in 1 .. m - 1)
      BY <1>1, <3>1, StudyAssumption
    <3>5. r[m] \in Nat /\ \A k \in 1 .. m : Step(p, o, k) <= r[m]
      BY <3>1, <3>2, <3>3, <3>4 DEF Larger
    <3>6. \E k \in 1 .. m : r[m] = Step(p, o, k)
      <4>1. CASE m = 1
        BY <1>6, <3>1, <3>3, <4>1 DEF Larger
      <4>2. CASE m # 1
        BY <3>1, <3>2, <3>3, <4>2 DEF Larger
      <4> QED BY <4>1, <4>2
    <3> QED BY <2>2, <3>5, <3>6
  <2> QED BY <2>3, <2>4
<1> QED BY <1>7 DEF r

-----------------------------------------------------------------------------
(* Holm's adjustment                                                       *)

\* Holm's adjusted p-value is between the raw one and 1, is at most a level
\* below 1 exactly when the closed test of Bonferroni's rejects at that level,
\* and keeps the order of the raw ones.
LEMMA HolmAdjusts ==
  ASSUME NEW D, IsFiniteSet(D), NEW p \in [D -> 0 .. Scale], NEW L \in Nat, L < Scale,
         NEW t \in D
  PROVE  /\ Holm(p)[t] \in p[t] .. Scale
         /\ Holm(p)[t] <= L <=>
              \A S \in SUBSET D : t \in S => \E u \in S : Cardinality(S) * p[u] <= L
         /\ \A u \in D : p[t] <= p[u] => Holm(p)[t] <= Holm(p)[u]
<1> DEFINE n == Cardinality(D)
           o == Ordered(p)
           r == RunningMaximum(p, o)
           rank(u) == Rank(o, u)
           q(k) == p[o[k]]
<1>1. Scale \in Nat
  BY StudyAssumption
<1>2. /\ n \in Nat /\ o \in Bijection(1 .. n, D) /\ Len(o) = n
      /\ \A i, j \in 1 .. n : i <= j => q(i) <= q(j)
  <2>1. p \in [D -> Nat]
    BY <1>1
  <2> QED BY <2>1, Ranks
<1>3. /\ o \in [1 .. n -> D]
      /\ \A i, j \in 1 .. n : o[i] = o[j] => i = j
      /\ \A u \in D : \E i \in 1 .. n : o[i] = u
  <2> HIDE DEF n, o
  <2> QED BY <1>2 DEF Bijection, Injection, Surjection, IsInjective
<1>4. \A u \in D : rank(u) \in 1 .. n /\ o[rank(u)] = u
  <2> HIDE DEF n, o
  <2> QED BY <1>3 DEF Rank
<1>5. \A k \in 1 .. n : q(k) \in 0 .. Scale
  <2> HIDE DEF n, o
  <2> QED BY <1>3
<1>6. \A i \in 1 .. n : /\ \A k \in 1 .. i : Step(p, o, k) <= r[i]
                        /\ \E k \in 1 .. i : r[i] = Step(p, o, k)
  <2>1. p \in [D -> Nat]
    BY <1>1
  <2> HIDE DEF n, o
  <2> QED BY <1>2, <1>3, <2>1, RunningMaximumIs
<1>7. \A u \in D : Holm(p)[u] = r[rank(u)]
  BY DEF Holm
<1> HIDE DEF n, o, r, rank
<1>8. ASSUME NEW k \in 1 .. n, NEW T, \A u : u \in T <=> \E j \in k .. n : u = o[j]
      PROVE  IsFiniteSet(T) /\ Cardinality(T) = n - k + 1
  <2> DEFINE f == [ j \in k .. n |-> o[j] ]
  <2>1. IsFiniteSet(k .. n) /\ Cardinality(k .. n) = n - k + 1
    <3>1. k \in Int /\ n \in Int /\ k <= n
      BY <1>2
    <3>2. /\ IsFiniteSet(k .. n)
          /\ Cardinality(k .. n) = IF k > n THEN 0 ELSE n - k + 1
      BY <3>1, FS_Interval, Zenon
    <3> QED BY <3>1, <3>2
  <2>2. k .. n \subseteq 1 .. n
    BY <1>2
  <2>3. f \in [k .. n -> T]
    BY <1>8
  <2>4. \A i, j \in k .. n : f[i] = f[j] => i = j
    BY <1>3, <2>2
  <2>5. \A u \in T : \E j \in k .. n : f[j] = u
    BY <1>8
  <2>6. ExistsBijection(k .. n, T)
    <3>1. f \in Bijection(k .. n, T)
      <4> HIDE DEF f
      <4> QED BY <2>3, <2>4, <2>5, Fun_IsBij, Zenon
    <3> QED BY <3>1 DEF ExistsBijection
  <2> QED BY <2>1, <2>6, FS_Bijection
<1>9. \A k \in 1 .. n : /\ n - k + 1 \in Nat /\ (n - k + 1) * q(k) \in Nat
                        /\ q(k) <= (n - k + 1) * q(k)
  <2> SUFFICES ASSUME NEW k \in 1 .. n
               PROVE  /\ n - k + 1 \in Nat /\ (n - k + 1) * q(k) \in Nat
                      /\ q(k) <= (n - k + 1) * q(k)
    OBVIOUS
  <2>1. n - k + 1 \in Nat /\ 1 <= n - k + 1 /\ q(k) \in Nat
    BY <1>2, <1>5
  <2> HIDE DEF q
  <2>2. (n - k + 1) * q(k) \in Nat /\ 1 * q(k) <= (n - k + 1) * q(k)
    BY <2>1, Product
  <2> QED BY <2>1, <2>2
<1>10. \A k \in 1 .. n : Step(p, o, k) = Smaller(Scale, (n - k + 1) * q(k))
  BY <1>2 DEF Step
<1>11. \A k \in 1 .. n : /\ Step(p, o, k) \in q(k) .. Scale
                         /\ Step(p, o, k) <= L <=> (n - k + 1) * q(k) <= L
  <2> HIDE DEF q
  <2> QED BY <1>1, <1>5, <1>9, <1>10 DEF Smaller
<1> HIDE DEF q
<1>12. Holm(p)[t] \in p[t] .. Scale
  <2>1. PICK k \in 1 .. rank(t) : r[rank(t)] = Step(p, o, k)
    BY <1>4, <1>6
  <2>2. k \in 1 .. n /\ rank(t) \in 1 .. n
    BY <1>2, <1>4
  <2>3. Step(p, o, rank(t)) <= r[rank(t)]
    BY <1>2, <1>6, <2>2
  <2>4. q(rank(t)) = p[t]
    BY <1>4 DEF q
  <2>5. Step(p, o, k) \in q(k) .. Scale /\ Step(p, o, rank(t)) \in q(rank(t)) .. Scale
    BY <1>11, <2>2
  <2>6. q(k) \in 0 .. Scale /\ q(rank(t)) \in 0 .. Scale
    BY <1>5, <2>2
  <2> QED BY <1>1, <1>7, <2>1, <2>3, <2>4, <2>5, <2>6
<1>13. ASSUME Holm(p)[t] <= L, NEW S \in SUBSET D, t \in S
       PROVE  \E u \in S : Cardinality(S) * p[u] <= L
  <2> DEFINE ranks == { k \in 1 .. n : o[k] \in S }
  <2>1. rank(t) \in ranks /\ ranks \in SUBSET (1 .. n)
    BY <1>4, <1>13
  <2>2. PICK k \in ranks : \A j \in ranks : k <= j
    <3>1. PICK a \in Int : a = 1
      OBVIOUS
    <3>2. ranks \in SUBSET (a .. n) /\ n \in Int
      BY <1>2, <2>1, <3>1
    <3> HIDE DEF ranks
    <3> QED BY <2>1, <3>2, Extremes
  <2>3. k \in 1 .. n /\ k \in 1 .. rank(t) /\ o[k] \in S /\ rank(t) \in 1 .. n
    BY <1>2, <2>1, <2>2
  <2>4. (n - k + 1) * q(k) <= L
    <3>1. Step(p, o, k) <= r[rank(t)] /\ r[rank(t)] <= L
      BY <1>6, <1>7, <1>13, <2>3
    <3>2. r[rank(t)] \in Int /\ Step(p, o, k) \in Int
      <4>1. PICK j \in 1 .. rank(t) : r[rank(t)] = Step(p, o, j)
        BY <1>6, <2>3
      <4>2. j \in 1 .. n
        BY <1>2, <2>3
      <4> QED BY <1>1, <1>5, <1>11, <2>3, <4>1, <4>2
    <3> QED BY <1>11, <2>3, <3>1, <3>2
  <2>5. Cardinality(S) \in Nat /\ Cardinality(S) <= n - k + 1
    <3>1. PICK T : \A u : u \in T <=> \E j \in k .. n : u = o[j]
      <4> WITNESS { o[j] : j \in k .. n }
      <4> QED OBVIOUS
    <3>2. S \in SUBSET T
      <4> SUFFICES ASSUME NEW u \in S PROVE \E j \in k .. n : u = o[j]
        BY <3>1
      <4>1. u \in D /\ rank(u) \in 1 .. n /\ o[rank(u)] = u
        BY <1>4
      <4>2. rank(u) \in ranks
        BY <4>1
      <4>3. k <= rank(u)
        BY <2>2, <4>2
      <4> QED BY <1>2, <2>3, <4>1, <4>3
    <3>3. IsFiniteSet(T) /\ Cardinality(T) = n - k + 1
      BY <1>8, <2>3, <3>1
    <3>4. IsFiniteSet(S) /\ Cardinality(S) <= n - k + 1
      BY <3>2, <3>3, FS_Subset
    <3> QED BY <3>4, FS_CardinalityType
  <2>6. Cardinality(S) * q(k) <= (n - k + 1) * q(k)
    BY <1>5, <1>9, <2>3, <2>5, Product
  <2>7. Cardinality(S) * q(k) <= L
    BY <1>5, <1>9, <2>3, <2>4, <2>5, <2>6, Product
  <2> QED BY <2>3, <2>7 DEF q
<1>14. ASSUME \A S \in SUBSET D : t \in S => \E u \in S : Cardinality(S) * p[u] <= L
       PROVE  Holm(p)[t] <= L
  <2>1. rank(t) \in 1 .. n /\ o[rank(t)] = t
    BY <1>4
  <2>2. PICK k \in 1 .. rank(t) : r[rank(t)] = Step(p, o, k)
    BY <1>6, <2>1
  <2>3. k \in 1 .. n /\ k <= rank(t)
    BY <1>2, <2>1
  <2>4. PICK S : \A u : u \in S <=> \E j \in k .. n : u = o[j]
    <3> WITNESS { o[j] : j \in k .. n }
    <3> QED OBVIOUS
  <2>5. S \in SUBSET D /\ t \in S
    BY <1>2, <1>3, <2>1, <2>3, <2>4
  <2>6. Cardinality(S) = n - k + 1
    BY <1>8, <2>3, <2>4
  <2>7. PICK j \in k .. n : (n - k + 1) * p[o[j]] <= L
    BY <1>14, <2>5, <2>6, <2>4
  <2>8. j \in 1 .. n /\ q(k) <= q(j) /\ (n - k + 1) * q(j) <= L
    BY <1>2, <2>3, <2>7 DEF q
  <2>9. (n - k + 1) * q(k) <= (n - k + 1) * q(j) /\ (n - k + 1) * q(j) \in Nat
        /\ (n - k + 1) * q(k) \in Nat
    BY <1>1, <1>5, <1>9, <2>3, <2>8, Product
  <2>10. (n - k + 1) * q(k) <= L
    BY <2>8, <2>9
  <2> QED BY <1>7, <1>11, <2>2, <2>3, <2>10
<1>15. ASSUME NEW u \in D, p[t] <= p[u]
       PROVE  Holm(p)[t] <= Holm(p)[u]
  <2> DEFINE i == rank(t)
             j == rank(u)
  <2>1. i \in 1 .. n /\ j \in 1 .. n /\ q(i) = p[t] /\ q(j) = p[u]
    BY <1>4 DEF q
  <2>2. PICK k \in 1 .. i : r[i] = Step(p, o, k)
    BY <1>6, <2>1
  <2>3. k \in 1 .. n /\ k <= i
    BY <1>2, <2>1
  <2>4. Step(p, o, k) \in Int /\ r[j] \in Int /\ Step(p, o, j) \in Int
        /\ Step(p, o, j) <= r[j]
    <3>1. PICK l \in 1 .. j : r[j] = Step(p, o, l)
      BY <1>6, <2>1
    <3>2. l \in 1 .. n
      BY <1>2, <2>1
    <3>3. Step(p, o, j) <= r[j]
      BY <1>2, <1>6, <2>1
    <3> HIDE DEF i, j
    <3> QED BY <1>1, <1>5, <1>11, <2>1, <2>3, <3>1, <3>2, <3>3
  <2>5. Step(p, o, k) <= r[j]
    <3>1. CASE k <= j
      <4>1. k \in 1 .. j
        BY <1>2, <2>1, <2>3, <3>1
      <4> QED BY <1>6, <2>1, <4>1
    <3>2. CASE ~(k <= j)
      <4> HIDE DEF i, j
      <4>1. j <= k /\ n - k + 1 <= n - j + 1
        BY <1>2, <2>1, <2>3, <3>2
      <4>2. q(k) <= q(i) /\ q(i) <= q(j) /\ q(j) <= q(k)
        BY <1>2, <1>15, <2>1, <2>3, <4>1 DEF q
      <4>3. q(k) \in Nat /\ q(j) \in Nat /\ q(i) \in Nat
        BY <1>1, <1>5, <2>1, <2>3
      <4>4. q(k) <= q(j)
        BY <4>2, <4>3
      <4>5. (n - k + 1) * q(k) <= (n - j + 1) * q(j)
        BY <1>9, <2>1, <2>3, <4>1, <4>3, <4>4, Product
      <4>6. Step(p, o, k) <= Step(p, o, j)
        BY <1>1, <1>9, <1>10, <2>1, <2>3, <4>5 DEF Smaller
      <4> QED BY <2>4, <4>6
    <3> QED BY <3>1, <3>2
  <2> QED BY <1>7, <2>2, <2>5
<1> QED BY <1>12, <1>13, <1>14, <1>15

-----------------------------------------------------------------------------
(* The inductive invariant                                                 *)

\* The entries of a family: the tests that are defined have Holm's adjustment of
\* their p-values, and no other.
Reported(entries, family, loss) ==
  /\ DOMAIN entries = family
  /\ \E D \in SUBSET family : \E p \in [D -> 0 .. Scale] : \A t \in family :
       /\ entries[t].defined <=> t \in D
       /\ t \in D => /\ entries[t].p_value = p[t]
                     /\ entries[t].adjusted = Holm(p)[t]
                     /\ entries[t].significant <=> Holm(p)[t] <= Level
                     /\ entries[t].negative <=> loss[t.a] < loss[t.b]

\* The exclusions of each family are its tests that are not defined.
Listed(lists, entries) ==
  /\ DOMAIN lists = {"F1", "F2"}
  /\ \A f \in {"F1", "F2"} : \A t : t \in lists[f] <=> t \in Family[f] /\ ~entries[f][t].defined

\* What a hypothesis that is supported rests on.
Supported(h, entries, loss, rejects) ==
  /\ h.H1 => /\ FavoursA(entries.F2[EwmaOverNaive])
             /\ [series |-> Var("ewma", "normal"), test |-> "independence"] \notin rejects
  /\ h.H2 => FavoursA(entries.F1[GarchOverNaive])
  /\ h.lowest_qlike_model = "naive" =>
       loss[Volatility("naive", "qlike")] <= loss[Volatility("garch", "qlike")]
  /\ \A m \in Model :
       h.H4[m] => /\ FavoursA(entries.F2[FhsOverNormal(m)])
                  /\ [series |-> Var(m, "fhs"), test |-> "kupiec"] \notin rejects

IInv ==
  /\ meanLoss \in [Forecast -> Nat]
  /\ DOMAIN dm \subseteq {"F1", "F2"}
  /\ \A f \in DOMAIN dm : Reported(dm[f], Family[f], meanLoss)
  /\ phase = "series" => DOMAIN dm = {}
  /\ phase = "diebold_mariano" => "F2" \notin DOMAIN dm
  /\ phase \in {"exclusions", "hypotheses", "done"} => DOMAIN dm = {"F1", "F2"}
  /\ phase \in {"hypotheses", "done"} => Listed(exclusions, dm)
  /\ phase = "done" => Supported(hypotheses, dm, meanLoss, rejected)

\* The families are parts of the finite set of the comparisons kept, and hold
\* those the hypotheses read.
LEMMA Families ==
  /\ DOMAIN Family = {"F1", "F2"}
  /\ \A f \in {"F1", "F2"} : Family[f] \subseteq Comparison /\ IsFiniteSet(Family[f])
  /\ EwmaOverNaive \in Family.F2 /\ GarchOverNaive \in Family.F1
  /\ \A m \in Model : FhsOverNormal(m) \in Family.F2
<1>1. /\ DOMAIN Family = {"F1", "F2"}
      /\ Family["F1"] = F1 \cap Comparison /\ Family["F2"] = F2 \cap Comparison
  BY DEF Family
<1>2. IsFiniteSet(Comparison)
  BY StudyAssumption
<1>3. \A f \in {"F1", "F2"} : Family[f] \subseteq Comparison /\ IsFiniteSet(Family[f])
  BY <1>1, <1>2, FS_Subset
<1>4. EwmaOverNaive \in F2
  BY DEF EwmaOverNaive, F2, Model
<1>5. GarchOverNaive \in F1
  <2>1. << "garch", "naive" >> \in {<< "ewma", "naive" >>, << "garch", "naive" >>, << "garch", "ewma" >>}
    OBVIOUS
  <2> QED BY <2>1 DEF GarchOverNaive, F1
<1>6. \A m \in Model : FhsOverNormal(m) \in F2
  BY DEF FhsOverNormal, F2
<1>7. /\ EwmaOverNaive \in Comparison /\ GarchOverNaive \in Comparison
      /\ \A m \in Model : FhsOverNormal(m) \in Comparison
  BY StudyAssumption
<1> QED BY <1>1, <1>3, <1>4, <1>5, <1>6, <1>7

\* _dm reports its family.
LEMMA DmReports ==
  ASSUME NEW family, family \subseteq Comparison, meanLoss \in [Forecast -> Nat],
         NEW outcome \in Outcomes(family)
  PROVE  Reported(Dm(family, outcome), family, meanLoss)
<1> DEFINE D == { u \in family : outcome[u] # NoPValue }
           p == [ t \in D |-> outcome[t] ]
<1>1. p \in [D -> 0 .. Scale]
  <2>1. \A t \in D : outcome[t] \in {Scale} \cup PValue
    BY DEF Outcomes, NoPValue
  <2> HIDE DEF D
  <2>2. \A t \in D : outcome[t] \in 0 .. Scale
    <3>1. PValue \subseteq 0 .. Scale /\ Scale \in 0 .. Scale
      BY StudyAssumption
    <3> QED BY <2>1, <3>1
  <2> QED BY <2>2
<1>2. DOMAIN Holm(p) = D
  BY DEF Holm
<1>3. Dm(family, outcome) =
        [ t \in family |-> IF t \in DOMAIN Holm(p) THEN Entry(t, outcome[t], Holm(p)[t]) ELSE Undefined ]
  BY DEF Dm
<1>4. \A t \in family : Difference(t) < 0 <=> meanLoss[t.a] < meanLoss[t.b]
  <2> SUFFICES ASSUME NEW t \in family
               PROVE  Difference(t) < 0 <=> meanLoss[t.a] < meanLoss[t.b]
    OBVIOUS
  <2>1. t.a \in Forecast /\ t.b \in Forecast
    BY DEF Forecast
  <2>2. meanLoss[t.a] \in Nat /\ meanLoss[t.b] \in Nat
    BY <2>1
  <2> QED BY <2>2 DEF Difference
<1> HIDE DEF p, D
<1> DEFINE e(t) == Dm(family, outcome)[t]
<1>5. ASSUME NEW t \in D, t \in family
      PROVE  /\ e(t).defined = TRUE /\ e(t).p_value = p[t] /\ e(t).adjusted = Holm(p)[t]
             /\ e(t).significant = (Holm(p)[t] <= Level)
             /\ e(t).negative <=> meanLoss[t.a] < meanLoss[t.b]
  <2>1. PICK x, a, y : x = outcome[t] /\ a = Holm(p)[t] /\ y = e(t)
    OBVIOUS
  <2>2. y = Entry(t, x, a) /\ p[t] = x
    BY <1>2, <1>3, <1>5, <2>1 DEF p
  <2>3. y.defined = TRUE /\ y.p_value = x /\ y.adjusted = a
    BY <2>2 DEF Entry
  <2>4. y.significant = (a <= Level)
    BY <2>2 DEF Entry
  <2>5. y.negative <=> Difference(t) < 0
    BY <2>2 DEF Entry
  <2> HIDE DEF e
  <2> QED BY <1>4, <1>5, <2>1, <2>2, <2>3, <2>4, <2>5
<1>6. ASSUME NEW t \in family, t \notin D
      PROVE  e(t).defined = FALSE
  BY <1>2, <1>3, <1>6 DEF Undefined
<1>7. DOMAIN Dm(family, outcome) = family /\ D \in SUBSET family
  BY <1>3 DEF D
<1> HIDE DEF e
<1>8. \A t \in family :
        /\ e(t).defined <=> t \in D
        /\ t \in D => /\ e(t).p_value = p[t] /\ e(t).adjusted = Holm(p)[t]
                      /\ e(t).significant <=> Holm(p)[t] <= Level
                      /\ e(t).negative <=> meanLoss[t.a] < meanLoss[t.b]
  BY <1>5, <1>6, <1>7
<1> DEFINE reported(E, q) ==
             \A t \in family :
               /\ e(t).defined <=> t \in E
               /\ t \in E => /\ e(t).p_value = q[t] /\ e(t).adjusted = Holm(q)[t]
                             /\ e(t).significant <=> Holm(q)[t] <= Level
                             /\ e(t).negative <=> meanLoss[t.a] < meanLoss[t.b]
<1>9. \E E \in SUBSET family : \E q \in [E -> 0 .. Scale] : reported(E, q)
  <2>1. reported(D, p)
    BY <1>8
  <2> HIDE DEF reported
  <2> QED BY <1>1, <1>7, <2>1
<1> QED BY <1>7, <1>9 DEF Reported, e

\* What the entries of a family say of its tests that are defined.
LEMMA EntriesOf ==
  ASSUME NEW f \in {"F1", "F2"}, Reported(dm[f], Family[f], meanLoss)
  PROVE  /\ DOMAIN dm[f] = Family[f]
         /\ \A t \in Defined(f) :
              /\ dm[f][t].significant <=> ClosedTestRejects(f, t)
              /\ dm[f][t].adjusted \in dm[f][t].p_value .. Scale
              /\ \A u \in Defined(f) :
                   dm[f][t].p_value <= dm[f][u].p_value => dm[f][t].adjusted <= dm[f][u].adjusted
              /\ dm[f][t].negative <=> meanLoss[t.a] < meanLoss[t.b]
<1>1. DOMAIN dm[f] = Family[f]
  BY DEF Reported
<1>2. PICK D \in SUBSET Family[f] : \E p \in [D -> 0 .. Scale] : \A t \in Family[f] :
        /\ dm[f][t].defined <=> t \in D
        /\ t \in D => /\ dm[f][t].p_value = p[t]
                      /\ dm[f][t].adjusted = Holm(p)[t]
                      /\ dm[f][t].significant <=> Holm(p)[t] <= Level
                      /\ dm[f][t].negative <=> meanLoss[t.a] < meanLoss[t.b]
  BY DEF Reported
<1>3. PICK p \in [D -> 0 .. Scale] : \A t \in Family[f] :
        /\ dm[f][t].defined <=> t \in D
        /\ t \in D => /\ dm[f][t].p_value = p[t]
                      /\ dm[f][t].adjusted = Holm(p)[t]
                      /\ dm[f][t].significant <=> Holm(p)[t] <= Level
                      /\ dm[f][t].negative <=> meanLoss[t.a] < meanLoss[t.b]
  BY <1>2
<1>4. Defined(f) = D
  BY <1>1, <1>3 DEF Defined
<1>5. IsFiniteSet(D)
  BY Families, FS_Subset
<1>6. Level \in Nat /\ Level < Scale
  BY StudyAssumption
<1>7. ASSUME NEW t \in D
      PROVE  /\ dm[f][t].significant <=> ClosedTestRejects(f, t)
             /\ dm[f][t].adjusted \in dm[f][t].p_value .. Scale
             /\ \A u \in D :
                  dm[f][t].p_value <= dm[f][u].p_value => dm[f][t].adjusted <= dm[f][u].adjusted
             /\ dm[f][t].negative <=> meanLoss[t.a] < meanLoss[t.b]
  <2>1. /\ Holm(p)[t] \in p[t] .. Scale
        /\ Holm(p)[t] <= Level <=>
             \A S \in SUBSET D : t \in S => \E u \in S : Cardinality(S) * p[u] <= Level
        /\ \A u \in D : p[t] <= p[u] => Holm(p)[t] <= Holm(p)[u]
    BY <1>5, <1>6, HolmAdjusts
  <2>2. ClosedTestRejects(f, t) <=>
          \A S \in SUBSET D : t \in S => \E u \in S : Cardinality(S) * p[u] <= Level
    <3>1. \A u \in D : dm[f][u].p_value = p[u]
      BY <1>3
    <3> QED BY <1>4, <3>1 DEF ClosedTestRejects
  <2>3. /\ dm[f][t].adjusted = Holm(p)[t] /\ dm[f][t].p_value = p[t]
        /\ dm[f][t].significant <=> Holm(p)[t] <= Level
        /\ dm[f][t].negative <=> meanLoss[t.a] < meanLoss[t.b]
    BY <1>3
  <2>4. \A u \in D : dm[f][u].adjusted = Holm(p)[u] /\ dm[f][u].p_value = p[u]
    BY <1>3
  <2> QED BY <2>1, <2>2, <2>3, <2>4
<1> QED BY <1>1, <1>4, <1>7

\* The hypotheses are decided as their rules say, and the model of the lowest
\* QLIKE is not Naive when GARCH's is lower.
LEMMA Decided ==
  ASSUME meanLoss \in [Forecast -> Nat]
  PROVE  Supported(Hypotheses, dm, meanLoss, rejected)
<1> DEFINE names   == << "ewma", "garch", "naive" >>
           qlike(i) == meanLoss[Volatility(names[i], "qlike")]
           best    == CHOOSE i \in 1 .. 3 : \A j \in 1 .. 3 : \/ qlike(i) < qlike(j)
                                                              \/ qlike(i) = qlike(j) /\ i <= j
<1>1. \A i \in 1 .. 3 : qlike(i) \in Nat
  <2>1. \A i \in 1 .. 3 : names[i] \in Model
    BY DEF Model
  <2>2. \A m \in Model : Volatility(m, "qlike") \in Forecast
    BY DEF Forecast
  <2> HIDE DEF names
  <2> QED BY <2>1, <2>2
<1>2. /\ best \in 1 .. 3
      /\ \A j \in 1 .. 3 : \/ qlike(best) < qlike(j)
                           \/ qlike(best) = qlike(j) /\ best <= j
  <2>1. qlike(1) \in Nat /\ qlike(2) \in Nat /\ qlike(3) \in Nat
    BY <1>1
  <2> HIDE DEF qlike
  <2>2. \E i \in 1 .. 3 : \A j \in 1 .. 3 : \/ qlike(i) < qlike(j)
                                            \/ qlike(i) = qlike(j) /\ i <= j
    <3>1. \A j \in 1 .. 3 : j = 1 \/ j = 2 \/ j = 3
      OBVIOUS
    <3>2. CASE qlike(1) <= qlike(2) /\ qlike(1) <= qlike(3)
      BY <2>1, <3>1, <3>2
    <3>3. CASE qlike(2) < qlike(1) /\ qlike(2) <= qlike(3)
      BY <2>1, <3>1, <3>3
    <3>4. CASE qlike(3) < qlike(1) /\ qlike(3) < qlike(2)
      BY <2>1, <3>1, <3>4
    <3> QED BY <2>1, <3>2, <3>3, <3>4
  <2> QED BY <2>2
<1>3. LowestQlike = names[best]
  BY DEF LowestQlike
<1>4. Hypotheses.lowest_qlike_model = "naive" =>
        meanLoss[Volatility("naive", "qlike")] <= meanLoss[Volatility("garch", "qlike")]
  <2> SUFFICES ASSUME LowestQlike = "naive"
               PROVE  meanLoss[Volatility("naive", "qlike")] <= meanLoss[Volatility("garch", "qlike")]
    BY DEF Hypotheses
  <2>1. best = 3
    <3>1. names[1] = "ewma" /\ names[2] = "garch" /\ names[3] = "naive"
      OBVIOUS
    <3> HIDE DEF names, best
    <3> QED BY <1>2, <1>3, <3>1
  <2>2. /\ qlike(3) = meanLoss[Volatility("naive", "qlike")]
        /\ qlike(2) = meanLoss[Volatility("garch", "qlike")]
    OBVIOUS
  <2>3. qlike(3) < qlike(2) \/ qlike(3) = qlike(2)
    <3> HIDE DEF best, qlike
    <3> QED BY <1>2, <2>1
  <2>4. qlike(2) \in Nat /\ qlike(3) \in Nat
    BY <1>1
  <2> HIDE DEF qlike
  <2> QED BY <2>2, <2>3, <2>4
<1>5. Hypotheses.H1 => /\ FavoursA(dm.F2[EwmaOverNaive])
                       /\ [series |-> Var("ewma", "normal"), test |-> "independence"] \notin rejected
  BY DEF Hypotheses, Rejects
<1>6. Hypotheses.H2 => FavoursA(dm.F1[GarchOverNaive])
  BY DEF Hypotheses
<1>7. \A m \in Model : Hypotheses.H4[m] =>
        /\ FavoursA(dm.F2[FhsOverNormal(m)])
        /\ [series |-> Var(m, "fhs"), test |-> "kupiec"] \notin rejected
  BY DEF Hypotheses, Rejects
<1> QED BY <1>4, <1>5, <1>6, <1>7 DEF Supported

\* build begins with no entries at all.
LEMMA Initially == Init => IInv
<1> SUFFICES ASSUME Init PROVE IInv
  OBVIOUS
<1>1. meanLoss \in [Forecast -> Nat]
  BY StudyAssumption DEF Init
<1>2. DOMAIN dm = {} /\ phase = "series"
  BY DEF Init, NoVerdict
<1> QED BY <1>1, <1>2 DEF IInv

\* Every block keeps what the ones before it reported.
LEMMA Inductive == IInv /\ [Next]_vars => IInv'
<1> SUFFICES ASSUME IInv, [Next]_vars PROVE IInv'
  OBVIOUS
<1>1. CASE SeriesBlock
  <2>1. /\ meanLoss' = meanLoss /\ dm' = dm /\ phase = "series" /\ phase' = "diebold_mariano"
    BY <1>1 DEF SeriesBlock
  <2> QED BY <2>1 DEF IInv
<1>2. CASE DieboldMarianoBlock
  <2> DEFINE f == NextFamily
  <2>1. /\ meanLoss' = meanLoss /\ phase = "diebold_mariano"
        /\ phase' = IF f = "F2" THEN "exclusions" ELSE phase
    BY <1>2 DEF DieboldMarianoBlock
  <2>2. PICK outcome \in Outcomes(Family[f]) :
          dm' = [ g \in DOMAIN dm \cup {f} |-> IF g = f THEN Dm(Family[g], outcome) ELSE dm[g] ]
    BY <1>2 DEF DieboldMarianoBlock
  <2>3. /\ f \in {"F1", "F2"}
        /\ DOMAIN dm' = IF f = "F2" THEN {"F1", "F2"} ELSE {"F1"}
        /\ DOMAIN dm = IF f = "F2" THEN {"F1"} ELSE {}
    <3>1. DOMAIN dm' = DOMAIN dm \cup {f}
      BY <2>2
    <3> QED BY <2>1, <3>1 DEF IInv, NextFamily
  <2> HIDE DEF f
  <2>4. Reported(dm'[f], Family[f], meanLoss)
    <3>1. dm'[f] = Dm(Family[f], outcome)
      BY <2>2
    <3>2. Family[f] \subseteq Comparison /\ meanLoss \in [Forecast -> Nat]
      BY <2>3, Families DEF IInv
    <3> QED BY <3>1, <3>2, DmReports
  <2>5. \A g \in DOMAIN dm : dm'[g] = dm[g]
    BY <2>2, <2>3
  <2>6. \A g \in DOMAIN dm' : Reported(dm'[g], Family[g], meanLoss')
    <3> SUFFICES ASSUME NEW g \in DOMAIN dm' PROVE Reported(dm'[g], Family[g], meanLoss')
      OBVIOUS
    <3>1. CASE g = f
      BY <2>1, <2>4, <3>1
    <3>2. CASE g # f
      <4>1. g \in DOMAIN dm
        BY <2>3, <3>2
      <4>2. Reported(dm[g], Family[g], meanLoss) /\ dm'[g] = dm[g]
        BY <2>5, <4>1 DEF IInv
      <4> QED BY <2>1, <4>2
    <3> QED BY <3>1, <3>2
  <2> QED BY <2>1, <2>3, <2>6 DEF IInv
<1>3. CASE ListExclusions
  <2>1. /\ meanLoss' = meanLoss /\ dm' = dm /\ phase = "exclusions" /\ phase' = "hypotheses"
        /\ exclusions' = HolmExclusions(dm)
    BY <1>3 DEF ListExclusions
  <2>2. DOMAIN dm = {"F1", "F2"}
    BY <2>1 DEF IInv
  <2>3. Listed(exclusions', dm)
    <3>1. DOMAIN exclusions' = {"F1", "F2"}
      BY <2>1, <2>2 DEF HolmExclusions
    <3>2. \A f \in {"F1", "F2"} : DOMAIN dm[f] = Family[f]
      BY <2>2 DEF IInv, Reported
    <3>3. \A f \in {"F1", "F2"} : exclusions'[f] = { t \in Family[f] : ~dm[f][t].defined }
      BY <2>1, <2>2, <3>2 DEF HolmExclusions
    <3> QED BY <3>1, <3>3 DEF Listed
  <2> QED BY <2>1, <2>2, <2>3 DEF IInv
<1>4. CASE HypothesesBlock
  <2>1. /\ meanLoss' = meanLoss /\ dm' = dm /\ rejected' = rejected /\ exclusions' = exclusions
        /\ phase = "hypotheses" /\ phase' = "done" /\ hypotheses' = Hypotheses
    BY <1>4 DEF HypothesesBlock
  <2>2. Supported(Hypotheses, dm, meanLoss, rejected)
    BY <2>1, Decided DEF IInv
  <2> QED BY <2>1, <2>2 DEF IInv
<1>5. CASE UNCHANGED vars
  BY <1>5 DEF vars, IInv
<1> QED BY <1>1, <1>2, <1>3, <1>4, <1>5 DEF Next

LEMMA Always == Spec => []IInv
BY Initially, Inductive, PTL DEF Spec

-----------------------------------------------------------------------------
(* Theorems                                                                *)

\* In each family, whatever its size, its p-values and its undefined tests, the
\* tests Holm's loop rejects are those of the closed test, and the adjusted
\* p-values keep the order of the raw ones.
THEOREM HolmRejectsAsClosedTest == Spec => []HolmIsClosedTest
<1>1. IInv => HolmIsClosedTest
  <2> SUFFICES ASSUME IInv, NEW f \in DOMAIN dm, NEW t \in Defined(f)
               PROVE  /\ dm[f][t].significant <=> ClosedTestRejects(f, t)
                      /\ dm[f][t].adjusted \in dm[f][t].p_value .. Scale
                      /\ \A u \in Defined(f) :
                           dm[f][t].p_value <= dm[f][u].p_value =>
                             dm[f][t].adjusted <= dm[f][u].adjusted
    BY DEF HolmIsClosedTest
  <2>1. f \in {"F1", "F2"} /\ Reported(dm[f], Family[f], meanLoss)
    BY DEF IInv
  <2> QED BY <2>1, EntriesOf
<1> QED BY <1>1, Always, PTL

\* No test of a family is missing from the report, or in it twice.
THEOREM AllTestsReported == Spec => []EveryTestReported
<1>1. IInv => EveryTestReported
  <2> SUFFICES ASSUME IInv, phase = "done"
               PROVE  /\ DOMAIN exclusions = DOMAIN Family
                      /\ \A f \in DOMAIN Family :
                           /\ DOMAIN dm[f] = Family[f]
                           /\ Defined(f) \cap exclusions[f] = {}
                           /\ Family[f] = Defined(f) \cup exclusions[f]
    BY DEF EveryTestReported
  <2>1. DOMAIN Family = {"F1", "F2"} /\ DOMAIN dm = {"F1", "F2"} /\ Listed(exclusions, dm)
    BY Families DEF IInv
  <2>2. \A f \in {"F1", "F2"} : DOMAIN dm[f] = Family[f]
    BY <2>1 DEF IInv, Reported
  <2> QED BY <2>1, <2>2 DEF Listed, Defined
<1> QED BY <1>1, Always, PTL

\* A hypothesis is supported on the evidence its rule names, and with H2
\* supported Naive has not the lowest QLIKE.
THEOREM HypothesesOnEvidence == Spec => []SupportedOnEvidence
<1>1. ASSUME IInv, phase = "done", NEW f \in {"F1", "F2"}, NEW t \in Family[f],
             FavoursA(dm[f][t])
      PROVE  /\ t \notin exclusions[f]
             /\ ClosedTestRejects(f, t)
             /\ meanLoss[t.a] < meanLoss[t.b]
  <2>1. Reported(dm[f], Family[f], meanLoss) /\ Listed(exclusions, dm)
    BY <1>1 DEF IInv
  <2>2. dm[f][t].defined /\ dm[f][t].significant /\ dm[f][t].negative
    BY <1>1 DEF FavoursA
  <2>3. t \in Defined(f)
    BY <1>1, <2>1, <2>2, EntriesOf DEF Defined
  <2>4. t \notin exclusions[f]
    BY <2>1, <2>2 DEF Listed
  <2> QED BY <2>1, <2>2, <2>3, <2>4, EntriesOf
<1>2. ASSUME IInv, phase = "done"
      PROVE  /\ hypotheses.H1 =>
                  /\ EwmaOverNaive \notin exclusions["F2"]
                  /\ ClosedTestRejects("F2", EwmaOverNaive)
                  /\ meanLoss[EwmaOverNaive.a] < meanLoss[EwmaOverNaive.b]
                  /\ ~Rejects(Var("ewma", "normal"), "independence")
             /\ hypotheses.H2 =>
                  /\ GarchOverNaive \notin exclusions["F1"]
                  /\ ClosedTestRejects("F1", GarchOverNaive)
                  /\ meanLoss[GarchOverNaive.a] < meanLoss[GarchOverNaive.b]
             /\ \A m \in Model : hypotheses.H4[m] =>
                  /\ FhsOverNormal(m) \notin exclusions["F2"]
                  /\ ClosedTestRejects("F2", FhsOverNormal(m))
                  /\ meanLoss[FhsOverNormal(m).a] < meanLoss[FhsOverNormal(m).b]
                  /\ ~Rejects(Var(m, "fhs"), "kupiec")
  <2>1. Supported(hypotheses, dm, meanLoss, rejected)
    BY <1>2 DEF IInv
  <2> QED BY <1>1, <1>2, <2>1, Families DEF Supported, Rejects
<1>3. ASSUME IInv, phase = "done", hypotheses.H2
      PROVE  hypotheses.lowest_qlike_model # "naive"
  <2>1. GarchOverNaive.a = Volatility("garch", "qlike") /\ GarchOverNaive.b = Volatility("naive", "qlike")
    BY DEF GarchOverNaive, Versus
  <2>2. meanLoss[Volatility("garch", "qlike")] < meanLoss[Volatility("naive", "qlike")]
    BY <1>2, <1>3, <2>1
  <2>3. /\ meanLoss[Volatility("garch", "qlike")] \in Nat
        /\ meanLoss[Volatility("naive", "qlike")] \in Nat
    <3>1. "garch" \in Model /\ "naive" \in Model
      BY DEF Model
    <3>2. Volatility("garch", "qlike") \in Forecast /\ Volatility("naive", "qlike") \in Forecast
      BY <3>1 DEF Forecast
    <3> QED BY <1>3, <3>2 DEF IInv
  <2>4. hypotheses.lowest_qlike_model = "naive" =>
          meanLoss[Volatility("naive", "qlike")] <= meanLoss[Volatility("garch", "qlike")]
    BY <1>3 DEF IInv, Supported
  <2> QED BY <2>2, <2>3, <2>4
<1>4. IInv => SupportedOnEvidence
  BY <1>2, <1>3 DEF SupportedOnEvidence
<1> QED BY <1>4, Always, PTL

=============================================================================
