------------------------- MODULE NumericCheckProofs -------------------------
(***************************************************************************)
(* The promise of facts.py, for any results and any limits on what the     *)
(* prompt lists: the prompt of a portfolio shows no number that the check  *)
(* would reject, a text that the check accepts is right about the result,  *)
(* and the summary leaves nothing out.                                     *)
(*                                                                         *)
(* Each fact of a portfolio's sheet is made by one of four constructors,   *)
(* whatever was rounded or aggregated before.  What a writer can copy of   *)
(* such a fact is, in the unit it is written in, a form of that fact; and  *)
(* its forms are figures of the result, rounded.  The lines of the sheet   *)
(* are the positions by rank, cut in two: a sum does not depend on order,  *)
(* is that of its two parts, and each line's rounding adds its half unit.  *)
(***************************************************************************)
EXTENDS NumericCheck, OrderLemmas, SequenceTheorems, TLAPS

-----------------------------------------------------------------------------
(* Sums                                                                    *)

\* A sum of integers goes through its sequence from the left.
LEMMA SumSteps ==
  ASSUME NEW s \in Seq(Int), NEW n \in Nat, n = Len(s)
  PROVE  \E f \in [0 .. n -> Int] :
           /\ f[0] = 0 /\ \A i \in 1 .. n : f[i] = s[i] + f[i - 1]
           /\ Sum(s) = f[n]
<1> DEFINE Adds(m, f) == /\ f \in [0 .. m -> Int] /\ f[0] = 0
                         /\ \A i \in 1 .. m : f[i] = s[i] + f[i - 1]
           sums(f) == [ i \in 0 .. Len(s) |-> IF i = 0 THEN 0 ELSE s[i] + f[i - 1] ]
           sum == CHOOSE f : f = sums(f)
<1>1. n \in Nat /\ \A i \in 1 .. n : s[i] \in Int
  OBVIOUS
<1>2. \A m \in 0 .. n : \E f : Adds(m, f)
  <2> DEFINE Without == { m \in 0 .. n : ~\E f : Adds(m, f) }
  <2> SUFFICES ASSUME Without # {} PROVE FALSE
    OBVIOUS
  <2>1. PICK m \in Without : \A k \in Without : m <= k
    <3>1. Without \in SUBSET Nat
      BY <1>1
    <3> HIDE DEF Without
    <3> QED BY <3>1, LeastNatural
  <2>2. CASE m = 0
    <3>1. Adds(0, [ i \in 0 .. 0 |-> 0 ])
      OBVIOUS
    <3> QED BY <2>2, <3>1
  <2>3. CASE m # 0
    <3>1. m \in 1 .. n /\ m - 1 \in 0 .. n /\ ~(m <= m - 1)
      BY <1>1, <2>1, <2>3
    <3>2. PICK f : Adds(m - 1, f)
      <4>1. m - 1 \notin Without
        <5> HIDE DEF Without
        <5> QED BY <2>1, <3>1
      <4> HIDE DEF Adds
      <4> QED BY <3>1, <4>1
    <3> DEFINE g == [ i \in 0 .. m |-> IF i = m THEN s[m] + f[m - 1] ELSE f[i] ]
    <3>3. f[m - 1] \in Int /\ s[m] \in Int
      BY <1>1, <3>1, <3>2
    <3>4. \A i \in 0 .. m - 1 : i \in 0 .. m /\ g[i] = f[i]
      BY <3>1
    <3>5. g[m] = s[m] + f[m - 1] /\ g \in [0 .. m -> Int]
      BY <3>1, <3>2, <3>3
    <3> HIDE DEF g
    <3>6. g[0] = 0
      BY <3>1, <3>2, <3>4
    <3>7. ASSUME NEW i \in 1 .. m PROVE g[i] = s[i] + g[i - 1]
      <4>1. i - 1 \in 0 .. m - 1 /\ g[i - 1] = f[i - 1]
        BY <3>1, <3>4
      <4>2. CASE i = m
        BY <3>5, <4>1, <4>2
      <4>3. CASE i # m
        <5>1. i \in 1 .. m - 1 /\ i \in 0 .. m - 1
          BY <3>1, <4>3
        <5> QED BY <3>2, <3>4, <4>1, <5>1
      <4> QED BY <4>2, <4>3
    <3>8. Adds(m, g)
      BY <3>5, <3>6, <3>7
    <3> QED BY <3>8
  <2> QED BY <2>2, <2>3
<1>3. PICK f : Adds(n, f)
  <2>1. n \in 0 .. n
    BY <1>1
  <2> HIDE DEF Adds
  <2> QED BY <1>2, <2>1
<1>4. f = sums(f)
  BY <1>1, <1>3
<1>5. sum = sums(sum)
  BY <1>4
<1>6. sum[0] = 0 /\ \A i \in 1 .. n : sum[i] = s[i] + sum[i - 1]
  <2> HIDE DEF sum
  <2> QED BY <1>1, <1>5
<1>7. Sum(s) = sum[n]
  BY DEF Sum
<1> HIDE DEF sum
<1> DEFINE Bad == { i \in 0 .. n : sum[i] # f[i] }
<1>8. Bad = {}
  <2> SUFFICES ASSUME Bad # {} PROVE FALSE
    OBVIOUS
  <2>1. PICK m \in Bad : \A i \in Bad : m <= i
    <3>1. Bad \in SUBSET Nat
      BY <1>1
    <3> HIDE DEF Bad
    <3> QED BY <3>1, LeastNatural
  <2>2. m \in 0 .. n /\ sum[m] # f[m]
    OBVIOUS
  <2>3. m \in 1 .. n /\ m - 1 \in 0 .. n /\ ~(m <= m - 1)
    BY <1>1, <1>3, <1>6, <2>2
  <2>4. m - 1 \notin Bad
    <3> HIDE DEF Bad
    <3> QED BY <2>1, <2>3
  <2>5. sum[m - 1] = f[m - 1]
    BY <2>3, <2>4
  <2>6. sum[m] = s[m] + sum[m - 1] /\ f[m] = s[m] + f[m - 1]
    BY <1>3, <1>6, <2>3
  <2> HIDE DEF Bad
  <2> QED BY <2>2, <2>5, <2>6
<1>9. sum[n] = f[n]
  BY <1>1, <1>8
<1> QED BY <1>3, <1>7, <1>9

\* A sum of natural numbers is one.
LEMMA SumIsNat ==
  ASSUME NEW s \in Seq(Nat)
  PROVE  Sum(s) \in Nat
<1>1. PICK n \in Nat : n = Len(s) /\ s \in Seq(Int) /\ \A i \in 1 .. n : s[i] \in Nat
  OBVIOUS
<1>2. PICK f \in [0 .. n -> Int] :
        /\ f[0] = 0 /\ \A i \in 1 .. n : f[i] = s[i] + f[i - 1]
        /\ Sum(s) = f[n]
  BY <1>1, SumSteps
<1> DEFINE Bad == { i \in 0 .. n : f[i] \notin Nat }
<1>3. Bad = {}
  <2> SUFFICES ASSUME Bad # {} PROVE FALSE
    OBVIOUS
  <2>1. PICK m \in Bad : \A i \in Bad : m <= i
    <3>1. Bad \in SUBSET Nat
      OBVIOUS
    <3> HIDE DEF Bad
    <3> QED BY <3>1, LeastNatural
  <2>2. m \in 0 .. n /\ f[m] \notin Nat
    OBVIOUS
  <2>3. m \in 1 .. n /\ m - 1 \in 0 .. n /\ ~(m <= m - 1)
    BY <1>2, <2>2
  <2>4. m - 1 \notin Bad
    <3> HIDE DEF Bad
    <3> QED BY <2>1, <2>3
  <2>5. f[m - 1] \in Nat /\ s[m] \in Nat /\ f[m] = s[m] + f[m - 1]
    BY <1>1, <1>2, <2>3, <2>4
  <2> HIDE DEF Bad
  <2> QED BY <2>2, <2>5
<1>4. f[n] \in Nat
  BY <1>3
<1> HIDE DEF Bad
<1> QED BY <1>2, <1>4

\* And whatever goes through it in this way is its sum.
LEMMA SumIs ==
  ASSUME NEW s \in Seq(Int), NEW n \in Nat, n = Len(s),
         NEW f, f[0] = 0, \A i \in 1 .. n : f[i] = s[i] + f[i - 1]
  PROVE  Sum(s) = f[n]
<1>1. PICK g \in [0 .. n -> Int] :
        /\ g[0] = 0 /\ \A i \in 1 .. n : g[i] = s[i] + g[i - 1]
        /\ Sum(s) = g[n]
  BY SumSteps
<1> DEFINE Bad == { i \in 0 .. n : g[i] # f[i] }
<1>2. Bad = {}
  <2> SUFFICES ASSUME Bad # {} PROVE FALSE
    OBVIOUS
  <2>1. PICK m \in Bad : \A i \in Bad : m <= i
    <3>1. Bad \in SUBSET Nat
      OBVIOUS
    <3> HIDE DEF Bad
    <3> QED BY <3>1, LeastNatural
  <2>2. m \in 0 .. n /\ g[m] # f[m]
    OBVIOUS
  <2>3. m \in 1 .. n /\ m - 1 \in 0 .. n /\ ~(m <= m - 1)
    BY <1>1, <2>2
  <2>4. m - 1 \notin Bad
    <3> HIDE DEF Bad
    <3> QED BY <2>1, <2>3
  <2>5. g[m - 1] = f[m - 1]
    BY <2>3, <2>4
  <2>6. g[m] = s[m] + g[m - 1] /\ f[m] = s[m] + f[m - 1]
    BY <1>1, <2>3
  <2> HIDE DEF Bad
  <2> QED BY <2>2, <2>5, <2>6
<1>3. g[n] = f[n]
  BY <1>2
<1> QED BY <1>1, <1>3

\* The same of a sequence given as a function.
LEMMA RowSum ==
  ASSUME NEW n \in Nat, NEW s \in [1 .. n -> Int]
  PROVE  /\ Len(s) = n /\ s \in Seq(Int)
         /\ \E f \in [0 .. n -> Int] :
              f[0] = 0 /\ (\A i \in 1 .. n : f[i] = s[i] + f[i - 1]) /\ Sum(s) = f[n]
         /\ Sum(s) \in Int
<1>1. Len(s) = n /\ s \in Seq(Int)
  OBVIOUS
<1>2. \E f \in [0 .. n -> Int] :
        f[0] = 0 /\ (\A i \in 1 .. n : f[i] = s[i] + f[i - 1]) /\ Sum(s) = f[n]
  BY <1>1, SumSteps
<1>3. Sum(s) \in Int
  <2>1. PICK f \in [0 .. n -> Int] : Sum(s) = f[n]
    BY <1>2
  <2>2. f[n] \in Int
    OBVIOUS
  <2> QED BY <2>1, <2>2
<1> QED BY <1>1, <1>2, <1>3

\* Members' multiples, added pairwise.
Combined(n, a, b, c, d) == [ i \in 1 .. n |-> c * a[i] + d * b[i] ]

\* A sum is linear.
LEMMA SumLinear ==
  ASSUME NEW n \in Nat, NEW a \in [1 .. n -> Int], NEW b \in [1 .. n -> Int],
         NEW c \in Int, NEW d \in Int
  PROVE  Sum(Combined(n, a, b, c, d)) = c * Sum(a) + d * Sum(b)
<1> DEFINE z == [ i \in 1 .. n |-> c * a[i] + d * b[i] ]
<1>1. z \in [1 .. n -> Int]
  <2>1. \A i \in 1 .. n : a[i] \in Int /\ b[i] \in Int
    OBVIOUS
  <2>2. \A x, y \in Int : c * x + d * y \in Int
    OBVIOUS
  <2> QED BY <2>1, <2>2
<1>2. PICK f \in [0 .. n -> Int] :
        f[0] = 0 /\ (\A i \in 1 .. n : f[i] = a[i] + f[i - 1]) /\ Sum(a) = f[n]
  BY RowSum
<1>3. PICK g \in [0 .. n -> Int] :
        g[0] = 0 /\ (\A i \in 1 .. n : g[i] = b[i] + g[i - 1]) /\ Sum(b) = g[n]
  BY RowSum
<1> DEFINE h == [ i \in 0 .. n |-> c * f[i] + d * g[i] ]
<1>4. h[0] = 0
  <2>1. h[0] = c * f[0] + d * g[0]
    OBVIOUS
  <2>2. c * 0 + d * 0 = 0
    OBVIOUS
  <2> QED BY <1>2, <1>3, <2>1, <2>2
<1>5. ASSUME NEW i \in 1 .. n PROVE h[i] = z[i] + h[i - 1]
  <2>1. i \in 0 .. n /\ i - 1 \in 0 .. n
    OBVIOUS
  <2>2. PICK x, u, y, v \in Int : x = a[i] /\ u = f[i - 1] /\ y = b[i] /\ v = g[i - 1]
    BY <2>1
  <2>3. f[i] = x + u /\ g[i] = y + v
    BY <1>2, <1>3, <2>2
  <2>4. c * (x + u) = c * x + c * u /\ d * (y + v) = d * y + d * v
    OBVIOUS
  <2>5. h[i] = c * (x + u) + d * (y + v) /\ z[i] = c * x + d * y /\ h[i - 1] = c * u + d * v
    BY <2>1, <2>2, <2>3
  <2>6. PICK p, q, k, l \in Int : p = c * x /\ q = c * u /\ k = d * y /\ l = d * v
    OBVIOUS
  <2> HIDE DEF h, z
  <2> QED BY <2>4, <2>5, <2>6
<1>6. h[n] = c * Sum(a) + d * Sum(b)
  BY <1>2, <1>3
<1>7. Len(z) = n /\ z \in Seq(Int)
  <2> HIDE DEF z
  <2> QED BY <1>1, RowSum
<1>8. Sum(z) = h[n]
  <2> HIDE DEF h, z
  <2> QED BY <1>4, <1>5, <1>7, SumIs
<1> QED BY <1>6, <1>8 DEF Combined

\* And bounded by its members' bound.
LEMMA SumBound ==
  ASSUME NEW n \in Nat, NEW s \in [1 .. n -> Int], NEW e \in Nat,
         \A i \in 1 .. n : s[i] <= e /\ -e <= s[i]
  PROVE  Sum(s) <= n * e /\ -(n * e) <= Sum(s)
<1>1. PICK f \in [0 .. n -> Int] :
        f[0] = 0 /\ (\A i \in 1 .. n : f[i] = s[i] + f[i - 1]) /\ Sum(s) = f[n]
  BY RowSum
<1> DEFINE Bad == { i \in 0 .. n : ~(f[i] <= i * e /\ -(i * e) <= f[i]) }
<1>2. Bad = {}
  <2> SUFFICES ASSUME Bad # {} PROVE FALSE
    OBVIOUS
  <2>1. PICK m \in Bad : \A i \in Bad : m <= i
    <3>1. Bad \in SUBSET Nat
      OBVIOUS
    <3> HIDE DEF Bad
    <3> QED BY <3>1, LeastNatural
  <2>2. m \in 0 .. n /\ ~(f[m] <= m * e /\ -(m * e) <= f[m])
    OBVIOUS
  <2>3. m # 0
    <3>1. 0 * e = 0
      OBVIOUS
    <3> QED BY <1>1, <2>2, <3>1
  <2>4. m \in 1 .. n /\ m - 1 \in 0 .. n /\ ~(m <= m - 1)
    BY <2>2, <2>3
  <2>5. m - 1 \notin Bad
    <3> HIDE DEF Bad
    <3> QED BY <2>1, <2>4
  <2>6. f[m - 1] <= (m - 1) * e /\ -((m - 1) * e) <= f[m - 1]
    BY <2>4, <2>5
  <2>7. m * e = (m - 1) * e + e
    OBVIOUS
  <2>8. PICK x, y, u, v, w \in Int :
          x = f[m] /\ y = f[m - 1] /\ u = s[m] /\ v = m * e /\ w = (m - 1) * e
    BY <2>4
  <2>9. x = u + y /\ u <= e /\ -e <= u
    BY <1>1, <2>4, <2>8
  <2>10. y <= w /\ -w <= y /\ v = w + e
    BY <2>6, <2>7, <2>8
  <2>11. x <= v /\ -v <= x
    BY <2>9, <2>10
  <2> HIDE DEF Bad
  <2> QED BY <2>2, <2>8, <2>11
<1>3. f[n] <= n * e /\ -(n * e) <= f[n]
  BY <1>2
<1> QED BY <1>1, <1>3

\* Two rows, each times a factor, differ by e at most in every place.
Near(n, a, b, c, d, e) ==
  \A i \in 1 .. n : c * a[i] - d * b[i] <= e /\ d * b[i] - c * a[i] <= e

\* Two sums differ by no more than their members do, one by one.
LEMMA SumNear ==
  ASSUME NEW n \in Nat, NEW a \in [1 .. n -> Int], NEW b \in [1 .. n -> Int],
         NEW c \in Int, NEW d \in Int, NEW e \in Nat, Near(n, a, b, c, d, e)
  PROVE  c * Sum(a) - d * Sum(b) <= n * e /\ d * Sum(b) - c * Sum(a) <= n * e
<1>1. PICK m \in Int : m = -d
  OBVIOUS
<1>2. PICK z : z = Combined(n, a, b, c, m)
  OBVIOUS
<1>3. ASSUME NEW i \in 1 .. n PROVE z[i] \in Int /\ z[i] <= e /\ -e <= z[i]
  <2>1. PICK x, y \in Int : x = a[i] /\ y = b[i]
    OBVIOUS
  <2>2. PICK u, v \in Int : u = c * x /\ v = d * y
    OBVIOUS
  <2>3. m * y = -v
    BY <1>1, <2>2
  <2>4. z[i] = u - v
    BY <1>2, <2>1, <2>2, <2>3 DEF Combined
  <2>5. u - v <= e /\ v - u <= e
    BY <2>1, <2>2 DEF Near
  <2> QED BY <2>4, <2>5
<1>4. z \in [1 .. n -> Int]
  BY <1>2, <1>3 DEF Combined
<1>5. Sum(z) <= n * e /\ -(n * e) <= Sum(z)
  BY <1>3, <1>4, SumBound
<1>6. Sum(z) = c * Sum(a) + m * Sum(b)
  BY <1>2, SumLinear
<1>7. PICK x, y \in Int : x = Sum(a) /\ y = Sum(b)
  BY RowSum
<1>8. PICK u, v, w \in Int : u = c * x /\ v = d * y /\ w = n * e
  OBVIOUS
<1>9. m * y = -v
  BY <1>1, <1>8
<1>10. Sum(z) = u + -v
  BY <1>6, <1>7, <1>8, <1>9
<1>11. u - v <= w /\ v - u <= w
  BY <1>5, <1>8, <1>10
<1> QED BY <1>7, <1>8, <1>11

\* A sequence with one entry that may differ from 0.
LEMMA SumSingle ==
  ASSUME NEW n \in Nat, NEW x \in 1 .. n, NEW c \in Int
  PROVE  Sum([ i \in 1 .. n |-> IF i = x THEN c ELSE 0 ]) = c
<1> DEFINE s == [ i \in 1 .. n |-> IF i = x THEN c ELSE 0 ]
           f == [ i \in 0 .. n |-> IF i < x THEN 0 ELSE c ]
<1>1. Len(s) = n /\ s \in Seq(Int)
  <2>1. s \in [1 .. n -> Int]
    OBVIOUS
  <2> HIDE DEF s
  <2> QED BY <2>1, RowSum
<1>2. f[0] = 0 /\ f[n] = c
  OBVIOUS
<1>3. ASSUME NEW i \in 1 .. n PROVE f[i] = s[i] + f[i - 1]
  <2>1. f[i] = (IF i < x THEN 0 ELSE c) /\ f[i - 1] = (IF i - 1 < x THEN 0 ELSE c)
        /\ s[i] = (IF i = x THEN c ELSE 0)
    OBVIOUS
  <2> HIDE DEF f, s
  <2> QED BY <2>1
<1> HIDE DEF f, s
<1>4. Sum(s) = f[n]
  BY <1>1, <1>2, <1>3, SumIs
<1> QED BY <1>2, <1>4 DEF s

\* Sums of no or one figure.
LEMMA SumFew ==
  /\ Sum(<< >>) = 0
  /\ \A c \in Int : Sum([ i \in 1 .. 1 |-> c ]) = c
<1>1. Sum(<< >>) = 0
  <2>1. PICK s \in [1 .. 0 -> Int] : s = << >>
    <3>1. << >> \in [1 .. 0 -> Int]
      OBVIOUS
    <3> QED BY <3>1
  <2>2. PICK f : f[0] = 0 /\ Sum(s) = f[0]
    <3>1. PICK z \in Nat : z = 0
      OBVIOUS
    <3>2. s \in [1 .. z -> Int]
      BY <2>1, <3>1
    <3>3. \E f \in [0 .. z -> Int] : f[0] = 0 /\ Sum(s) = f[z]
      BY <3>2, RowSum
    <3> QED BY <3>1, <3>3
  <2> QED BY <2>1, <2>2
<1>2. ASSUME NEW c \in Int PROVE Sum([ i \in 1 .. 1 |-> c ]) = c
  <2>1. PICK n \in Nat : n = 1
    OBVIOUS
  <2>2. PICK x \in 1 .. n : x = 1
    BY <2>1
  <2>3. Sum([ i \in 1 .. n |-> IF i = x THEN c ELSE 0 ]) = c
    BY SumSingle
  <2>4. [ i \in 1 .. n |-> IF i = x THEN c ELSE 0 ] = [ i \in 1 .. 1 |-> c ]
    BY <2>1, <2>2
  <2> QED BY <2>3, <2>4
<1> QED BY <1>1, <1>2

\* The order of a sequence does not matter to its sum.
LEMMA SumPermuted ==
  ASSUME NEW n \in Nat, NEW s \in [1 .. n -> Int], NEW p \in Bijection(1 .. n, 1 .. n)
  PROVE  Sum([ k \in 1 .. n |-> s[p[k]] ]) = Sum(s)
<1> DEFINE z == [ k \in 1 .. n |-> s[p[k]] ]
           Only(T) == [ i \in 1 .. n |-> IF i \in T THEN s[i] ELSE 0 ]
           First(k) == { p[j] : j \in 1 .. k }
           f == [ k \in 0 .. n |-> Sum(Only(First(k))) ]
<1>1. /\ p \in [1 .. n -> 1 .. n]
      /\ \A i, j \in 1 .. n : p[i] = p[j] => i = j
      /\ \A x \in 1 .. n : \E k \in 1 .. n : p[k] = x
  BY DEF Bijection, Injection, Surjection, IsInjective
<1>2. z \in [1 .. n -> Int]
  BY <1>1
<1>3. f[0] = 0
  <2>1. f[0] = Sum(Only(First(0)))
    OBVIOUS
  <2>2. Only(First(0)) \in [1 .. n -> Int] /\ \A i \in 1 .. n : Only(First(0))[i] = 0
    OBVIOUS
  <2>3. PICK o \in [1 .. n -> Int] : o = Only(First(0)) /\ \A i \in 1 .. n : o[i] <= 0 /\ -0 <= o[i]
    <3>1. PICK o \in [1 .. n -> Int] : o = Only(First(0)) /\ \A i \in 1 .. n : o[i] = 0
      <4> HIDE DEF Only
      <4> QED BY <2>2
    <3>2. \A i \in 1 .. n : o[i] <= 0 /\ -0 <= o[i]
      BY <3>1
    <3> HIDE DEF Only
    <3> QED BY <3>1, <3>2
  <2>4. Sum(o) <= n * 0 /\ -(n * 0) <= Sum(o)
    BY <2>3, SumBound
  <2>5. n * 0 = 0 /\ Sum(o) \in Int
    BY RowSum
  <2> HIDE DEF Only, First, f
  <2> QED BY <2>1, <2>3, <2>4, <2>5
<1>4. ASSUME NEW k \in 1 .. n PROVE f[k] = z[k] + f[k - 1]
  <2>1. k - 1 \in 0 .. n /\ k \in 0 .. n /\ p[k] \in 1 .. n
    BY <1>1
  <2>2. PICK x \in 1 .. n : x = p[k] /\ z[k] = s[x]
    BY <2>1
  <2>3. First(k) = First(k - 1) \cup {x} /\ x \notin First(k - 1)
    <3>1. \A j \in 1 .. k : j \in 1 .. k - 1 \/ j = k
      OBVIOUS
    <3>2. \A j \in 1 .. k - 1 : j \in 1 .. k /\ j \in 1 .. n /\ j # k
      OBVIOUS
    <3>3. x \in First(k) /\ \A y \in First(k - 1) : y \in First(k)
      <4>1. k \in 1 .. k
        OBVIOUS
      <4> QED BY <2>2, <3>2, <4>1
    <3>4. \A y \in First(k) : y \in First(k - 1) \/ y = x
      BY <2>2, <3>1
    <3>5. x \notin First(k - 1)
      BY <1>1, <2>2, <3>2
    <3> HIDE DEF First
    <3> QED BY <3>3, <3>4, <3>5
  <2>4. PICK a, b, d : /\ a = Only(First(k)) /\ b = Only(First(k - 1))
                       /\ d = [ i \in 1 .. n |-> IF i = x THEN s[x] ELSE 0 ]
    OBVIOUS
  <2>5. b \in [1 .. n -> Int] /\ d \in [1 .. n -> Int]
    BY <2>4
  <2>6. a = Combined(n, b, d, 1, 1)
    <3> HIDE DEF First
    <3>1. ASSUME NEW i \in 1 .. n PROVE a[i] = 1 * b[i] + 1 * d[i]
      <4>1. PICK u \in Int : u = s[i]
        OBVIOUS
      <4>2. CASE i = x
        BY <2>3, <2>4, <4>1, <4>2
      <4>3. CASE i # x
        BY <2>3, <2>4, <4>1, <4>3
      <4> QED BY <4>2, <4>3
    <3>2. a = [ i \in 1 .. n |-> a[i] ]
      BY <2>4
    <3> QED BY <3>1, <3>2 DEF Combined
  <2>7. Sum(a) = 1 * Sum(b) + 1 * Sum(d)
    <3>1. PICK one \in Int : one = 1
      OBVIOUS
    <3>2. Sum(Combined(n, b, d, one, one)) = one * Sum(b) + one * Sum(d)
      BY <2>5, SumLinear
    <3> QED BY <2>6, <3>1, <3>2
  <2>8. Sum(d) = s[x] /\ s[x] \in Int
    BY <2>4, SumSingle
  <2>9. Sum(b) \in Int
    BY <2>5, RowSum
  <2>10. f[k] = Sum(a) /\ f[k - 1] = Sum(b)
    BY <2>1, <2>4
  <2> HIDE DEF f, z
  <2> QED BY <2>2, <2>7, <2>8, <2>9, <2>10
<1>5. f[n] = Sum(s)
  <2>1. First(n) = 1 .. n
    BY <1>1
  <2>2. Only(1 .. n) = s
    OBVIOUS
  <2>3. f[n] = Sum(Only(First(n)))
    OBVIOUS
  <2> HIDE DEF Only, First, f
  <2> QED BY <2>1, <2>2, <2>3
<1>6. Len(z) = n /\ z \in Seq(Int)
  <2> HIDE DEF z
  <2> QED BY <1>2, RowSum
<1>7. Sum(z) = f[n]
  <2> HIDE DEF f, z
  <2> QED BY <1>3, <1>4, <1>6, SumIs
<1> QED BY <1>5, <1>7

\* A sum is that of a beginning and that of the rest.
LEMMA SumSplit ==
  ASSUME NEW n \in Nat, NEW m \in Nat, NEW s \in [1 .. n + m -> Int]
  PROVE  Sum(s) = Sum([ i \in 1 .. n |-> s[i] ]) + Sum([ j \in 1 .. m |-> s[n + j] ])
<1> DEFINE a == [ i \in 1 .. n |-> s[i] ]
           b == [ j \in 1 .. m |-> s[n + j] ]
<1>1. a \in [1 .. n -> Int] /\ b \in [1 .. m -> Int]
  OBVIOUS
<1> HIDE DEF a, b
<1>2. PICK f \in [0 .. n -> Int] :
        f[0] = 0 /\ (\A i \in 1 .. n : f[i] = a[i] + f[i - 1]) /\ Sum(a) = f[n]
  BY <1>1, RowSum
<1>3. PICK g \in [0 .. m -> Int] :
        g[0] = 0 /\ (\A i \in 1 .. m : g[i] = b[i] + g[i - 1]) /\ Sum(b) = g[m]
  BY <1>1, RowSum
<1> DEFINE h == [ i \in 0 .. n + m |-> IF i <= n THEN f[i] ELSE f[n] + g[i - n] ]
<1>4. h[0] = 0
  BY <1>2
<1>5. ASSUME NEW i \in 1 .. n + m PROVE h[i] = s[i] + h[i - 1]
  <2>1. i - 1 \in 0 .. n + m /\ i \in 0 .. n + m
    OBVIOUS
  <2>2. CASE i <= n
    <3>1. i \in 1 .. n /\ a[i] = s[i]
      BY <2>2 DEF a
    <3>2. h[i] = f[i] /\ h[i - 1] = f[i - 1]
      BY <2>1, <2>2
    <3> QED BY <1>2, <3>1, <3>2
  <2>3. CASE i > n
    <3>1. PICK j \in 1 .. m : i = n + j
      <4>1. i - n \in 1 .. m /\ i = n + (i - n)
        BY <2>3
      <4> QED BY <4>1
    <3>2. b[j] = s[i] /\ b[j] \in Int
      BY <1>1, <3>1 DEF b
    <3>3. h[i] = f[n] + g[j] /\ g[j] = b[j] + g[j - 1]
      BY <1>3, <2>1, <2>3, <3>1
    <3>4. h[i - 1] = f[n] + g[j - 1]
      <4>1. CASE j = 1
        <5>1. h[i - 1] = f[n] /\ g[j - 1] = 0
          BY <1>3, <3>1, <4>1
        <5> QED BY <5>1
      <4>2. CASE j # 1
        <5>1. ~(i - 1 <= n) /\ (i - 1) - n = j - 1
          BY <3>1, <4>2
        <5> QED BY <2>1, <5>1
      <4> QED BY <4>1, <4>2
    <3>5. f[n] \in Int /\ g[j - 1] \in Int
      BY <3>1
    <3> HIDE DEF h
    <3> QED BY <3>2, <3>3, <3>4, <3>5
  <2> QED BY <2>2, <2>3
<1>6. h[n + m] = f[n] + g[m]
  <2>1. CASE m = 0
    <3>1. g[m] = 0 /\ h[n + m] = f[n]
      BY <1>3, <2>1
    <3> QED BY <3>1
  <2>2. CASE m # 0
    <3>1. ~(n + m <= n) /\ (n + m) - n = m /\ n + m \in 0 .. n + m
      BY <2>2
    <3> QED BY <3>1
  <2> QED BY <2>1, <2>2
<1>7. n + m \in Nat /\ Len(s) = n + m /\ s \in Seq(Int)
  <2>1. PICK l \in Nat : l = n + m
    OBVIOUS
  <2> QED BY <2>1, RowSum
<1> HIDE DEF h
<1>8. Sum(s) = h[n + m]
  BY <1>4, <1>5, <1>7, SumIs
<1> QED BY <1>2, <1>3, <1>6, <1>8 DEF a, b

-----------------------------------------------------------------------------
(* One fact                                                                *)

\* The facts of a portfolio's sheet: amounts of money, percentages, the horizon,
\* and plain figures.
Stated(f) ==
  \/ \E amount : f = Money(amount)
  \/ \E h \in Int : \E also : f = Percentage(h, also)
  \/ \E d \in Nat \ {0} : f = Horizon(d)
  \/ \E x, step : f = Decimal(x, step)

\* A number copied from one of them matches, in its unit, a form of that fact.
LEMMA StatedMatches ==
  ASSUME NEW facts, NEW f \in facts, Stated(f), NEW c \in f.copies, NEW n \in c
  PROVE  Matches(n, facts)
<1>1. SUFFICES n.value \in Candidates(UnitOf(n), facts)
  BY <1>1 DEF Matches, IsClose
<1>2. ASSUME NEW amount, f = Money(amount)
      PROVE  n.value \in Candidates(UnitOf(n), facts)
  <2>1. PICK a : a = Rounded(amount, Cent)
    OBVIOUS
  <2>2. f.unit = "currency" /\ f.forms = {a} /\ f.copies = { { [value |-> a, marks |-> {"money"}] } }
    BY <1>2, <2>1 DEF Money, Marked
  <2>3. n.value = a /\ n.marks = {"money"}
    BY <2>2
  <2>4. UnitOf(n) = "currency"
    BY <2>3 DEF UnitOf
  <2> QED BY <2>2, <2>3, <2>4 DEF Candidates
<1>3. ASSUME NEW h \in Int, NEW also, f = Percentage(h, also)
      PROVE  n.value \in Candidates(UnitOf(n), facts)
  <2>1. One \div 10000 = 10 /\ Cent = 1000
    BY DEF One, Cent
  <2>2. f.unit = "rate" /\ h * 10 \in f.forms
        /\ f.copies = { { [value |-> h * 1000, marks |-> {"%"}] } }
    BY <1>3, <2>1 DEF Percentage, Marked
  <2>3. n.value = h * 1000 /\ n.marks = {"%"}
    BY <2>2
  <2>4. UnitOf(n) = "rate"
    BY <2>3 DEF UnitOf
  <2>5. n.value = 100 * (h * 10)
    BY <2>3
  <2> QED BY <2>2, <2>4, <2>5 DEF Candidates
<1>4. ASSUME NEW d \in Nat \ {0}, f = Horizon(d)
      PROVE  n.value \in Candidates(UnitOf(n), facts)
  <2>1. PICK v \in Int : v = d * One
    BY DEF One
  <2>2. Printed(v) = {v}
    <3>1. One \div 10000 = 10 /\ v >= 100000
      BY <2>1 DEF One
    <3> QED BY <3>1 DEF Printed, Magnitude
  <2>3. /\ f.unit = "horizon" /\ f.forms = {v}
        /\ f.copies = { { [value |-> v, marks |-> {}] } } \cup { { [value |-> v, marks |-> {"day"}] } }
    BY <1>4, <2>1, <2>2 DEF Horizon, AsIs, Plainly, Marked
  <2>4. n.value = v /\ (n.marks = {} \/ n.marks = {"day"})
    BY <2>3
  <2>5. UnitOf(n) \in {"none", "horizon"}
    BY <2>4 DEF UnitOf
  <2> QED BY <2>3, <2>4, <2>5 DEF Candidates, ExpectedNumbers
<1>5. ASSUME NEW x, NEW step, f = Decimal(x, step)
      PROVE  n.value \in Candidates(UnitOf(n), facts)
  <2>1. PICK a : a = Rounded(x, step)
    OBVIOUS
  <2>2. f.forms = {a} /\ f.copies = { { [value |-> a, marks |-> {}] } }
    BY <1>5, <2>1 DEF Decimal, Plainly
  <2>3. n.value = a /\ n.marks = {}
    BY <2>2
  <2>4. UnitOf(n) = "none"
    BY <2>3 DEF UnitOf
  <2> QED BY <2>2, <2>3, <2>4 DEF Candidates, ExpectedNumbers
<1> QED BY <1>2, <1>3, <1>4, <1>5 DEF Stated

-----------------------------------------------------------------------------
(* A portfolio's sheet                                                     *)

\* Ranked positions are the positions, and none is larger than one before it.
LEMMA RankedPlaces ==
  ASSUME NEW r \in ResultType, Consistent(r)
  PROVE  \E place \in Bijection(1 .. Len(r.assets), 1 .. Len(r.assets)) :
           /\ place \in [1 .. Len(r.assets) -> 1 .. Len(r.assets)] /\ Ranked(r) = place
           /\ \A i, j \in 1 .. Len(r.assets) :
                i < j => r.notionals[place[i]] >= r.notionals[place[j]]
<1> DEFINE n == Len(r.assets)
           s == [i \in DOMAIN r.assets |-> i]
           before == { ij \in (DOMAIN r.assets) \X (DOMAIN r.assets) :
                         LET i == ij[1]
                             j == ij[2]
                         IN  \/ r.notionals[i] > r.notionals[j]
                             \/ r.notionals[i] = r.notionals[j] /\ r.assets[i] < r.assets[j] }
<1>1. /\ n \in Nat /\ DOMAIN r.assets = 1 .. n /\ Len(r.notionals) = n
      /\ \A i \in 1 .. n : r.assets[i] \in Nat /\ r.notionals[i] \in Nat
  <2>1. r.assets \in Seq(Nat) /\ r.notionals \in Seq(Nat) /\ Len(r.notionals) = Len(r.assets)
    BY DEF ResultType, Consistent
  <2> QED BY <2>1, LenProperties, ElementOfSeq
<1>2. s \in [1 .. n -> 1 .. n] /\ \A i \in 1 .. n : s[i] = i
  BY <1>1
<1>3. \A i, j \in 1 .. n : << i, j >> \in before <=>
        \/ r.notionals[i] > r.notionals[j]
        \/ r.notionals[i] = r.notionals[j] /\ r.assets[i] < r.assets[j]
  BY <1>1
<1>4. Ranked(r) = SortedBy(s, before)
  BY DEF Ranked
<1> HIDE DEF n, s, before
<1>5. StrictWeakOrder(before, 1 .. n)
  <2>1. \A i \in 1 .. n : << i, i >> \notin before
    BY <1>1, <1>3
  <2>2. ASSUME NEW i \in 1 .. n, NEW j \in 1 .. n, NEW k \in 1 .. n
        PROVE  /\ << i, j >> \in before /\ << j, k >> \in before => << i, k >> \in before
               /\ << i, k >> \in before => << i, j >> \in before \/ << j, k >> \in before
    <3>1. PICK a, b, c \in Nat : a = r.notionals[i] /\ b = r.notionals[j] /\ c = r.notionals[k]
      BY <1>1
    <3>2. PICK x, y, z \in Nat : x = r.assets[i] /\ y = r.assets[j] /\ z = r.assets[k]
      BY <1>1
    <3>3. << i, j >> \in before <=> a > b \/ (a = b /\ x < y)
      BY <1>3, <3>1, <3>2
    <3>4. << j, k >> \in before <=> b > c \/ (b = c /\ y < z)
      BY <1>3, <3>1, <3>2
    <3>5. << i, k >> \in before <=> a > c \/ (a = c /\ x < z)
      BY <1>3, <3>1, <3>2
    <3> QED BY <3>3, <3>4, <3>5
  <2> QED BY <2>1, <2>2 DEF StrictWeakOrder
<1>6. PICK place \in Bijection(1 .. n, 1 .. n) :
        /\ SortedBy(s, before) = [ k \in 1 .. n |-> s[place[k]] ]
        /\ \A i, j \in 1 .. n : i < j => << s[place[j]], s[place[i]] >> \notin before
  <2>1. PICK S : S = 1 .. n
    OBVIOUS
  <2>2. n \in Nat /\ s \in [1 .. n -> S] /\ StrictWeakOrder(before, S)
    BY <1>1, <1>2, <1>5, <2>1
  <2> QED BY <2>2, Sorts
<1>7. place \in [1 .. n -> 1 .. n]
  BY <1>6 DEF Bijection, Injection
<1>8. SortedBy(s, before) = place
  BY <1>2, <1>6, <1>7
<1>9. ASSUME NEW i \in 1 .. n, NEW j \in 1 .. n, i < j
      PROVE  r.notionals[place[i]] >= r.notionals[place[j]]
  <2>1. PICK x \in 1 .. n, y \in 1 .. n : x = place[i] /\ y = place[j]
    BY <1>7
  <2>2. << y, x >> \notin before
    BY <1>2, <1>6, <1>9, <2>1
  <2>3. ~(r.notionals[y] > r.notionals[x]) /\ r.notionals[x] \in Nat /\ r.notionals[y] \in Nat
    BY <1>1, <1>3, <2>2
  <2> QED BY <2>1, <2>3
<1> QED BY <1>4, <1>6, <1>7, <1>8, <1>9 DEF n

LEMMA RankedPositions ==
  ASSUME NEW r \in ResultType, Consistent(r)
  PROVE  Ranked(r) \in [1 .. Len(r.assets) -> 1 .. Len(r.assets)]
BY RankedPlaces

\* A percentage of a positive whole.
LEMMA PercentIsPercentage ==
  ASSUME NEW part \in Nat, NEW whole \in Nat \ {0}
  PROVE  \E h \in Int : \E also : Percent(part, whole) = Percentage(h, also)
<1>1. (2 * 10000 * part + whole) \div (2 * whole) \in Int
  OBVIOUS
<1> QED BY <1>1 DEF Percent

\* The parts of a list.
LEMMA Parts ==
  ASSUME NEW S, NEW s \in Seq(S), NEW n \in Nat
  PROVE  /\ After(s, n) \in Seq(S)
         /\ Upto(s, n) \in Seq(S)
<1>1. Len(s) \in Nat /\ \A i \in 1 .. Len(s) : s[i] \in S
  BY LenProperties, ElementOfSeq
<1>2. SubSeq(s, n + 1, Len(s)) \in Seq(S)
  <2>1. \A i \in n + 1 .. Len(s) : s[i] \in S
    BY <1>1
  <2> QED BY <1>1, <2>1, SubSeqProperties
<1>3. PICK m \in Nat : m = (IF n < Len(s) THEN n ELSE Len(s)) /\ m <= Len(s)
  BY <1>1
<1>4. SubSeq(s, 1, m) \in Seq(S)
  <2>1. \A i \in 1 .. m : s[i] \in S
    BY <1>1, <1>3
  <2> QED BY <2>1, SubSeqProperties
<1> QED BY <1>2, <1>3, <1>4 DEF After, Upto

\* The amounts that make up a portfolio, as its sheet shows them: each notional,
\* and those that are not shown, together.
PartsOf(r) == ToSet(r.notionals) \cup { Amount(r, After(Ranked(r), TopPositions)) }

\* The facts of a sheet, and what of the result each of them is about.
StatedOf(f, r) ==
  \/ \E amount \in {r.value, r.portfolio_value} \cup PartsOf(r) : f = Money(amount)
  \/ \E part \in PartsOf(r) : f = Percent(part, r.portfolio_value)
  \/ f = Confidence(r.confidence)
  \/ f = Horizon(r.horizon)
  \/ \E x, step : f = Decimal(x, step)

\* Counts are plain figures.
LEMMA CountStated == \A n, r : StatedOf(Count(n), r)
BY DEF StatedOf, Count

\* The amounts a portfolio is made of are natural numbers.
LEMMA PartsAreNat ==
  ASSUME NEW r \in ResultType, Consistent(r)
  PROVE  PartsOf(r) \subseteq Nat
<1> DEFINE n == Len(r.assets)
           rest == After(Ranked(r), TopPositions)
<1>1. /\ n \in Nat /\ Len(r.notionals) = n /\ r.notionals \in Seq(Nat)
      /\ DOMAIN r.notionals = 1 .. n /\ \A i \in 1 .. n : r.notionals[i] \in Nat
  <2>1. r.assets \in Seq(Nat) /\ r.notionals \in Seq(Nat) /\ Len(r.notionals) = Len(r.assets)
    BY DEF ResultType, Consistent
  <2> QED BY <2>1, LenProperties, ElementOfSeq
<1>2. rest \in Seq(1 .. n)
  <2>1. Ranked(r) \in Seq(1 .. n)
    BY <1>1, RankedPositions
  <2> QED BY <2>1, Parts, SheetAssumption
<1>3. [j \in DOMAIN rest |-> r.notionals[rest[j]]] \in Seq(Nat)
  <2>1. Len(rest) \in Nat /\ DOMAIN rest = 1 .. Len(rest)
        /\ \A j \in DOMAIN rest : rest[j] \in 1 .. n
    BY <1>2, LenProperties, ElementOfSeq
  <2> HIDE DEF rest
  <2> QED BY <1>1, <2>1
<1>4. Amount(r, rest) \in Nat
  <2> HIDE DEF rest
  <2> QED BY <1>3, SumIsNat DEF Amount
<1>5. ToSet(r.notionals) \subseteq Nat
  BY <1>1 DEF ToSet
<1> QED BY <1>4, <1>5 DEF PartsOf

\* Each fact of a portfolio's sheet is about one of its figures.
LEMMA SheetStatedOf ==
  ASSUME NEW r \in ResultType, Consistent(r), NEW f \in Facts(PortfolioSheet(r))
  PROVE  StatedOf(f, r)
<1> DEFINE sheet == PortfolioSheet(r)
           n == Len(r.assets)
<1>1. /\ n \in Nat /\ Len(r.notionals) = n
      /\ \A i \in 1 .. n : r.notionals[i] \in ToSet(r.notionals)
      /\ Total(r) = r.portfolio_value
  <2>1. /\ r.assets \in Seq(Nat) /\ r.notionals \in Seq(Nat)
        /\ Len(r.notionals) = Len(r.assets) /\ Total(r) = r.portfolio_value
    BY DEF ResultType, Consistent
  <2>2. n \in Nat /\ DOMAIN r.notionals = 1 .. n
    BY <2>1, LenProperties
  <2> QED BY <2>1, <2>2 DEF ToSet
<1>2. TopPositions \in Nat /\ ListedDates \in Nat /\ ListedAssets \in Nat
  BY SheetAssumption
<1>3. /\ Ranked(r) \in Seq(1 .. n)
      /\ Upto(Ranked(r), TopPositions) \in Seq(1 .. n)
      /\ After(Ranked(r), TopPositions) \in Seq(1 .. n)
  <2>1. Ranked(r) \in Seq(1 .. n)
    BY <1>1, RankedPositions
  <2> QED BY <1>2, <2>1, Parts
<1>4. ASSUME NEW i \in 1 .. n
      PROVE  StatedOf(Position(r, i).money, r) /\ StatedOf(Position(r, i).weight, r)
  <2>1. Position(r, i).money = Money(r.notionals[i])
        /\ Position(r, i).weight = Percent(r.notionals[i], Total(r))
    BY DEF Position
  <2>2. r.notionals[i] \in PartsOf(r)
    BY <1>1 DEF PartsOf
  <2> QED BY <1>1, <2>1, <2>2 DEF StatedOf
<1>5. ASSUME NEW k \in DOMAIN sheet.positions
      PROVE  StatedOf(sheet.positions[k].money, r) /\ StatedOf(sheet.positions[k].weight, r)
  <2> DEFINE shown == Upto(Ranked(r), TopPositions)
  <2>1. sheet.positions = [j \in DOMAIN shown |-> Position(r, shown[j])]
    BY DEF PortfolioSheet
  <2> HIDE DEF shown, sheet
  <2>2. k \in DOMAIN shown /\ sheet.positions[k] = Position(r, shown[k])
    BY <2>1
  <2>3. shown[k] \in 1 .. n
    BY <1>3, <2>2, LenProperties, ElementOfSeq DEF shown
  <2> QED BY <1>4, <2>2, <2>3
<1>6. ASSUME NEW k \in DOMAIN sheet.rest
      PROVE  /\ StatedOf(sheet.rest[k].count, r) /\ StatedOf(sheet.rest[k].money, r)
             /\ StatedOf(sheet.rest[k].weight, r)
  <2> DEFINE rest == After(Ranked(r), TopPositions)
             line == [count |-> Count(Len(rest)), money |-> Money(Amount(r, rest)),
                      weight |-> Percent(Amount(r, rest), Total(r))]
  <2>1. sheet.rest = IF rest = << >> THEN << >> ELSE << line >>
    BY DEF PortfolioSheet, Rest
  <2>2. sheet.rest[k] = line
    <3> HIDE DEF line, rest, sheet
    <3> QED BY <1>6, <2>1
  <2>3. Amount(r, rest) \in PartsOf(r)
    BY DEF PartsOf
  <2>4. /\ line.count = Count(Len(rest)) /\ line.money = Money(Amount(r, rest))
        /\ line.weight = Percent(Amount(r, rest), r.portfolio_value)
    BY <1>1
  <2> HIDE DEF line, rest, sheet
  <2> QED BY <2>2, <2>3, <2>4, CountStated DEF StatedOf
<1>7. ASSUME NEW k \in DOMAIN sheet.dropped, NEW g,
             \/ g = sheet.dropped[k].count
             \/ g \in ToSet(sheet.dropped[k].more)
             \/ \E j \in DOMAIN sheet.dropped[k].listed :
                  g \in ToSet(sheet.dropped[k].listed[j].more)
      PROVE  StatedOf(g, r)
  <2> DEFINE all == [j \in DOMAIN r.dropped |-> DroppedDate(r, j)]
             listed == Upto(all, ListedDates)
             drops == [count |-> Count(Len(r.dropped)), listed |-> listed,
                       more |-> More(Len(r.dropped), ListedDates)]
  <2>1. sheet.dropped = << drops >>
    BY DEF PortfolioSheet
  <2>2. sheet.dropped[k] = drops
    <3> HIDE DEF drops, sheet
    <3> QED BY <1>7, <2>1
  <2>3. \A x, y : \A h \in ToSet(More(x, y)) : StatedOf(h, r)
    BY CountStated DEF More, ToSet
  <2>4. ASSUME NEW j \in DOMAIN listed
        PROVE  \E x, y : listed[j].more = More(x, y)
    <3>1. all \in Seq({ DroppedDate(r, i) : i \in DOMAIN r.dropped })
      <4>1. r.dropped \in Seq(Nat)
        BY DEF ResultType
      <4> QED BY <4>1
    <3>2. listed \in Seq({ DroppedDate(r, i) : i \in DOMAIN r.dropped })
      <4> HIDE DEF all
      <4> QED BY <1>2, <3>1, Parts
    <3>3. listed[j] \in { DroppedDate(r, i) : i \in DOMAIN r.dropped }
      <4> HIDE DEF listed
      <4> QED BY <2>4, <3>2, LenProperties, ElementOfSeq
    <3>4. PICK i \in DOMAIN r.dropped : listed[j] = DroppedDate(r, i)
      <4> HIDE DEF listed
      <4> QED BY <3>3
    <3> HIDE DEF listed
    <3> QED BY <3>4 DEF DroppedDate
  <2>5. /\ drops.count = Count(Len(r.dropped)) /\ drops.listed = listed
        /\ drops.more = More(Len(r.dropped), ListedDates)
    OBVIOUS
  <2> HIDE DEF drops, listed, sheet
  <2> QED BY <1>7, <2>2, <2>3, <2>4, <2>5, CountStated
<1>8. ASSUME NEW g \in sheet.others
      PROVE  StatedOf(g, r)
  <2>1. \/ g \in { Money(r.value), Confidence(r.confidence), Horizon(r.horizon),
                   Money(Total(r)), Count(r.observations), Count(Len(r.assets)) }
        \/ g \in Diagnostics(r)
    BY <1>8 DEF PortfolioSheet
  <2>2. StatedOf(Money(r.value), r) /\ StatedOf(Money(Total(r)), r) /\ StatedOf(Horizon(r.horizon), r)
    BY <1>1 DEF StatedOf
  <2>3. StatedOf(Confidence(r.confidence), r)
    BY DEF StatedOf
  <2>4. CASE g \in Diagnostics(r)
    <3>1. \A x : StatedOf(Significant(x), r)
      BY CountStated DEF Significant, StatedOf
    <3>2. \A x, y : StatedOf(Decimal(x, y), r)
      BY DEF StatedOf
    <3> QED BY <2>4, <3>1, <3>2, CountStated DEF Diagnostics
  <2> QED BY <2>1, <2>2, <2>3, <2>4, CountStated
<1>9. \/ f \in sheet.others
      \/ \E k \in DOMAIN sheet.positions :
           f = sheet.positions[k].money \/ f = sheet.positions[k].weight
      \/ \E k \in DOMAIN sheet.rest :
           f = sheet.rest[k].money \/ f = sheet.rest[k].weight \/ f = sheet.rest[k].count
      \/ \E k \in DOMAIN sheet.dropped :
           \/ f = sheet.dropped[k].count
           \/ f \in ToSet(sheet.dropped[k].more)
           \/ \E j \in DOMAIN sheet.dropped[k].listed :
                f \in ToSet(sheet.dropped[k].listed[j].more)
  <2>1. f \in Facts(sheet)
    OBVIOUS
  <2> HIDE DEF sheet
  <2> QED BY <2>1 DEF Facts
<1> HIDE DEF sheet
<1> QED BY <1>5, <1>6, <1>7, <1>8, <1>9

\* So it is of one of the four kinds.
LEMMA SheetStated ==
  ASSUME NEW r \in ResultType, Consistent(r), NEW f \in Facts(PortfolioSheet(r))
  PROVE  Stated(f)
<1>1. r.portfolio_value \in Nat \ {0} /\ r.horizon \in Nat \ {0} /\ r.confidence \in Int
  BY DEF ResultType, Consistent
<1>2. CASE \E part \in PartsOf(r) : f = Percent(part, r.portfolio_value)
  <2>1. PICK part \in Nat : f = Percent(part, r.portfolio_value)
    BY <1>2, PartsAreNat
  <2> QED BY <1>1, <2>1, PercentIsPercentage DEF Stated
<1>3. CASE f = Confidence(r.confidence)
  <2>1. Rounded(r.confidence, One \div 10000) \div (One \div 10000) \in Int
    <3>1. One \div 10000 = 10
      BY DEF One
    <3>2. (2 * r.confidence + 10) \div 20 \in Int
      BY <1>1
    <3> QED BY <3>1, <3>2 DEF Rounded
  <2> QED BY <1>3, <2>1 DEF Confidence, Stated
<1>4. StatedOf(f, r)
  BY SheetStatedOf
<1> QED BY <1>1, <1>2, <1>3, <1>4 DEF StatedOf, Stated

-----------------------------------------------------------------------------
(* What a fact says of the result                                          *)

\* The amounts and the rates of a result, in hundred-thousandths and in
\* hundred-thousandths of a percent.
AmountsOf(r) ==
  {r.value, r.portfolio_value} \cup (IF IsPortfolio(r) THEN PartsOf(r) ELSE {})

RatesOf(r) ==
  { 100 * r.confidence, 100 * (One - r.confidence) }
  \cup { ((10000 * p) \div r.portfolio_value) * Cent :
         p \in IF IsPortfolio(r) THEN PartsOf(r) ELSE {} }
  \cup { 100 * s.value : s \in { t \in r.scalars : t.key \in {"mu", "sigma"} } }

\* v is one of the figures, to what a sheet rounds by at most.
RoundingOf(v, figures) ==
  v \in Int /\ \E w \in figures : w \in Int /\ v - w <= Cent /\ w - v <= Cent

\* Whatever form of the fact a text matches, it is a figure of the result.
TrueOf(f, r) ==
  /\ f.unit \in {"plain", "horizon", "currency", "rate"}
  /\ f.unit = "horizon"  => \A v \in f.forms : v = r.horizon * One
  /\ f.unit = "currency" => \A v \in f.forms : RoundingOf(v, AmountsOf(r))
  /\ f.unit = "rate"     => \A v \in f.forms : v \in Int /\ RoundingOf(100 * v, RatesOf(r))

\* Money is rounded by half a cent at most.
LEMMA RoundsToCent ==
  ASSUME NEW x \in Int
  PROVE  /\ Rounded(x, Cent) \in Int
         /\ Rounded(x, Cent) - x <= 500 /\ x - Rounded(x, Cent) <= 500
<1>1. Cent = 1000
  BY DEF Cent, One
<1>2. PICK q \in Int : q = (2 * x + 1000) \div 2000
  OBVIOUS
<1>3. q * 2000 <= 2 * x + 1000 /\ 2 * x + 1000 < q * 2000 + 2000
  BY <1>2
<1>4. Rounded(x, Cent) = q * 1000
  BY <1>1, <1>2 DEF Rounded
<1> QED BY <1>3, <1>4

\* A share is rounded to a hundredth of a percent, and the one below is within
\* a step of it.
LEMMA RoundsToHundredth ==
  ASSUME NEW part \in Nat, NEW whole \in Nat \ {0}
  PROVE  \E h \in Int, g \in Int :
           /\ h = (2 * 10000 * part + whole) \div (2 * whole)
           /\ g = (10000 * part) \div whole
           /\ h - g <= 1 /\ g - h <= 1
<1>1. PICK a \in Nat, b \in Nat, w \in Nat \ {0} :
        a = 10000 * part /\ b = 2 * 10000 * part + whole /\ w = 2 * whole
  OBVIOUS
<1>2. PICK h \in Int, g \in Int : h = b \div w /\ g = a \div whole
  BY <1>1
<1>3. w * h <= b /\ b < w * h + w
  BY <1>1, <1>2
<1>4. whole * g <= a /\ a < whole * g + whole
  BY <1>1, <1>2
<1>5. PICK x, y \in Int : x = whole * h /\ y = whole * g
  OBVIOUS
<1>6. w * h = 2 * x
  BY <1>1, <1>5
<1>7. 2 * x <= 2 * a + whole /\ 2 * a + whole < 2 * x + 2 * whole /\ y <= a /\ a < y + whole
  BY <1>1, <1>3, <1>4, <1>5, <1>6
<1>8. x - y < 2 * whole /\ y - x < 2 * whole
  BY <1>7
<1>9. whole * (h - g) = x - y /\ whole * (g - h) = y - x
  BY <1>5
<1>10. \A d \in Int : whole * d < 2 * whole => d <= 1
  <2> SUFFICES ASSUME NEW d \in Int, d >= 2 PROVE whole * d >= 2 * whole
    BY SMT
  <2>1. PICK e \in Nat : d = e + 2
    <3>1. d - 2 \in Nat /\ d = (d - 2) + 2
      OBVIOUS
    <3> QED BY <3>1
  <2>2. whole * d = whole * e + 2 * whole /\ whole * e >= 0
    BY <2>1
  <2> QED BY <2>2
<1>11. h - g \in Int /\ g - h \in Int /\ h - g <= 1 /\ g - h <= 1
  BY <1>8, <1>9, <1>10
<1> QED BY <1>1, <1>2, <1>11

\* The facts of a single asset's sheet are figures of its result as they are.
LEMMA SingleIsTrue ==
  ASSUME NEW r \in ResultType, ~IsPortfolio(r), NEW f \in Facts(SingleAssetSheet(r))
  PROVE  TrueOf(f, r) /\ \A c \in f.copies : \A n \in c : n.marks # {} => n.value \in Int
<1> DEFINE sheet == SingleAssetSheet(r)
<1>1. /\ r.value \in Int /\ r.portfolio_value \in Int /\ r.confidence \in Int
      /\ r.horizon \in Int /\ r.observations \in Int /\ One \in Int
      /\ \A s \in r.scalars : s.value \in Int
  <2>1. /\ r.value \in Nat /\ r.portfolio_value \in Nat /\ r.confidence \in Int
        /\ r.horizon \in Nat /\ r.observations \in Nat
    BY DEF ResultType
  <2>2. r.scalars \in SUBSET [key : STRING, value : Int, integral : BOOLEAN]
    BY DEF ResultType
  <2>3. One \in Int
    BY DEF One
  <2> QED BY <2>1, <2>2, <2>3
<1>2. Facts(sheet) = sheet.others
  <2>1. sheet.positions = << >> /\ sheet.rest = << >> /\ sheet.dropped = << >>
    BY DEF SingleAssetSheet
  <2> HIDE DEF sheet
  <2> QED BY <2>1 DEF Facts
<1>3. \/ \E amount \in {r.value, r.portfolio_value} :
           f = AsIs("currency", amount, {}, Marked(amount, "money"))
      \/ f = AsIs("rate", r.confidence, {One - r.confidence}, {})
      \/ f = Horizon(r.horizon)
      \/ f = AsIs("plain", r.observations * One, {}, {})
      \/ \E s \in r.scalars :
           f = AsIs(IF s.key \in {"mu", "sigma"} THEN "rate" ELSE "plain", s.value, {}, {})
  BY <1>2 DEF SingleAssetSheet
<1>4. \A unit, v, also : /\ AsIs(unit, v, also, {}).unit = unit
                         /\ AsIs(unit, v, also, {}).forms = {v} \cup also
                         /\ \A c \in AsIs(unit, v, also, {}).copies : \A n \in c : n.marks = {}
  BY DEF AsIs, Plainly
<1>5. \A unit, v, mark : \A c \in AsIs(unit, v, {}, Marked(v, mark)).copies :
                           \A n \in c : n.marks = {} \/ n.value = v
  BY DEF AsIs, Plainly, Marked
<1>6. \A unit, v, mark : /\ AsIs(unit, v, {}, mark).unit = unit
                         /\ AsIs(unit, v, {}, mark).forms = {v}
  BY DEF AsIs
<1>7. Cent = 1000
  BY DEF Cent, One
<1>8. \A v \in Int : \A S : v \in S => RoundingOf(v, S)
  BY <1>7 DEF RoundingOf
<1>9. CASE \E amount \in {r.value, r.portfolio_value} :
             f = AsIs("currency", amount, {}, Marked(amount, "money"))
  <2>1. PICK amount \in {r.value, r.portfolio_value} :
          f = AsIs("currency", amount, {}, Marked(amount, "money"))
    BY <1>9
  <2>2. amount \in Int /\ amount \in AmountsOf(r)
    BY <1>1 DEF AmountsOf
  <2>3. f.unit = "currency" /\ f.forms = {amount}
    BY <1>6, <2>1
  <2>4. RoundingOf(amount, AmountsOf(r))
    BY <1>8, <2>2
  <2>5. \A c \in f.copies : \A n \in c : n.marks = {} \/ n.value = amount
    BY <1>5, <2>1
  <2> QED BY <2>2, <2>3, <2>4, <2>5 DEF TrueOf
<1>10. CASE f = AsIs("rate", r.confidence, {One - r.confidence}, {})
  <2>1. f.unit = "rate" /\ f.forms = {r.confidence, One - r.confidence}
        /\ \A c \in f.copies : \A n \in c : n.marks = {}
    BY <1>4, <1>10
  <2>2. 100 * r.confidence \in RatesOf(r) /\ 100 * (One - r.confidence) \in RatesOf(r)
    BY DEF RatesOf
  <2>3. r.confidence \in Int /\ One - r.confidence \in Int
        /\ 100 * r.confidence \in Int /\ 100 * (One - r.confidence) \in Int
    BY <1>1
  <2>4. RoundingOf(100 * r.confidence, RatesOf(r)) /\ RoundingOf(100 * (One - r.confidence), RatesOf(r))
    BY <1>8, <2>2, <2>3
  <2> QED BY <2>1, <2>3, <2>4 DEF TrueOf
<1>11. CASE f = Horizon(r.horizon)
  <2>1. PICK v \in Int : v = r.horizon * One
    BY <1>1
  <2>2. f = AsIs("horizon", v, {}, Marked(v, "day"))
    BY <1>11, <2>1 DEF Horizon
  <2>3. f.unit = "horizon" /\ f.forms = {v}
    BY <1>6, <2>2
  <2>4. \A c \in f.copies : \A n \in c : n.marks = {} \/ n.value = v
    BY <1>5, <2>2
  <2> QED BY <2>1, <2>3, <2>4 DEF TrueOf
<1>12. CASE f = AsIs("plain", r.observations * One, {}, {})
  <2>1. f.unit = "plain" /\ \A c \in f.copies : \A n \in c : n.marks = {}
    BY <1>4, <1>12
  <2> QED BY <2>1 DEF TrueOf
<1>13. CASE \E s \in r.scalars :
              f = AsIs(IF s.key \in {"mu", "sigma"} THEN "rate" ELSE "plain", s.value, {}, {})
  <2>1. PICK s \in r.scalars :
              f = AsIs(IF s.key \in {"mu", "sigma"} THEN "rate" ELSE "plain", s.value, {}, {})
    BY <1>13
  <2>2. \A c \in f.copies : \A n \in c : n.marks = {}
    BY <1>4, <2>1
  <2>3. CASE s.key \in {"mu", "sigma"}
    <3>1. f.unit = "rate" /\ f.forms = {s.value}
      BY <1>6, <2>1, <2>3
    <3>2. s.value \in Int /\ 100 * s.value \in Int
      BY <1>1
    <3>3. 100 * s.value \in RatesOf(r)
      BY <2>3 DEF RatesOf
    <3>4. RoundingOf(100 * s.value, RatesOf(r))
      BY <1>8, <3>2, <3>3
    <3> QED BY <2>2, <3>1, <3>2, <3>4 DEF TrueOf
  <2>4. CASE s.key \notin {"mu", "sigma"}
    <3>1. f.unit = "plain"
      BY <1>6, <2>1, <2>4
    <3> QED BY <2>2, <3>1 DEF TrueOf
  <2> QED BY <2>3, <2>4
<1> QED BY <1>3, <1>9, <1>10, <1>11, <1>12, <1>13

\* The facts of a portfolio's sheet are figures of its result, rounded.
LEMMA PortfolioIsTrue ==
  ASSUME NEW r \in ResultType, IsPortfolio(r), Consistent(r), NEW f \in Facts(PortfolioSheet(r))
  PROVE  TrueOf(f, r) /\ \A c \in f.copies : \A n \in c : n.marks # {} => n.value \in Int
<1>1. /\ r.value \in Int /\ r.portfolio_value \in Nat \ {0} /\ r.confidence \in Int
      /\ r.horizon \in Int /\ One = 100000 /\ Cent = 1000 /\ One \div 10000 = 10
  <2>1. r.value \in Int /\ r.portfolio_value \in Nat /\ r.confidence \in Int /\ r.horizon \in Int
    BY DEF ResultType
  <2>2. r.portfolio_value > 0
    BY DEF Consistent
  <2>3. One = 100000 /\ Cent = 1000 /\ One \div 10000 = 10
    BY DEF One, Cent
  <2> QED BY <2>1, <2>2, <2>3
<1>2. PartsOf(r) \subseteq Nat
  BY PartsAreNat
<1>3. StatedOf(f, r)
  BY SheetStatedOf
<1>4. CASE \E amount \in {r.value, r.portfolio_value} \cup PartsOf(r) : f = Money(amount)
  <2>1. PICK amount \in {r.value, r.portfolio_value} \cup PartsOf(r) : f = Money(amount)
    BY <1>4
  <2>2. amount \in Int /\ amount \in AmountsOf(r)
    BY <1>1, <1>2 DEF AmountsOf
  <2>3. PICK a \in Int : a = Rounded(amount, Cent) /\ a - amount <= Cent /\ amount - a <= Cent
    BY <1>1, <2>2, RoundsToCent
  <2>4. /\ f.unit = "currency" /\ f.forms = {a}
        /\ f.copies = { { [value |-> a, marks |-> {"money"}] } }
    BY <2>1, <2>3 DEF Money, Marked
  <2>5. RoundingOf(a, AmountsOf(r))
    BY <2>2, <2>3 DEF RoundingOf
  <2>6. \A c \in f.copies : \A n \in c : n.value = a
    BY <2>4
  <2> QED BY <2>3, <2>4, <2>5, <2>6 DEF TrueOf
<1>5. CASE \E part \in PartsOf(r) : f = Percent(part, r.portfolio_value)
  <2>1. PICK part \in PartsOf(r) : f = Percent(part, r.portfolio_value)
    BY <1>5
  <2>2. PICK h \in Int, g \in Int :
          /\ h = (2 * 10000 * part + r.portfolio_value) \div (2 * r.portfolio_value)
          /\ g = (10000 * part) \div r.portfolio_value
          /\ h - g <= 1 /\ g - h <= 1
    <3>1. PICK whole \in Nat \ {0} : whole = r.portfolio_value
      BY <1>1
    <3>2. part \in Nat
      BY <1>2
    <3> QED BY <3>1, <3>2, RoundsToHundredth
  <2>3. f = Percentage(h, {})
    BY <2>1, <2>2 DEF Percent
  <2>4. /\ f.unit = "rate" /\ f.forms = {h * 10}
        /\ f.copies = { { [value |-> h * 1000, marks |-> {"%"}] } }
    BY <1>1, <2>3 DEF Percentage, Marked
  <2>5. g * 1000 \in RatesOf(r)
    <3>1. g * Cent \in RatesOf(r)
      BY <2>2 DEF RatesOf
    <3> QED BY <1>1, <3>1
  <2>6. /\ 100 * (h * 10) = h * 1000 /\ g * 1000 \in Int /\ h * 10 \in Int
        /\ 100 * (h * 10) \in Int /\ h * 1000 \in Int
        /\ 100 * (h * 10) - g * 1000 <= 1000 /\ g * 1000 - 100 * (h * 10) <= 1000
    BY <2>2
  <2>7. RoundingOf(100 * (h * 10), RatesOf(r))
    BY <1>1, <2>5, <2>6 DEF RoundingOf
  <2>8. \A c \in f.copies : \A n \in c : n.value = h * 1000
    BY <2>4
  <2> QED BY <2>4, <2>6, <2>7, <2>8 DEF TrueOf
<1>6. CASE f = Confidence(r.confidence)
  <2>1. PICK h \in Int : h = Rounded(r.confidence, One \div 10000) \div (One \div 10000)
                         /\ h * 10 - r.confidence <= 10 /\ r.confidence - h * 10 <= 10
    <3>1. PICK q \in Int : q = (2 * r.confidence + 10) \div 20
      BY <1>1
    <3>2. q * 20 <= 2 * r.confidence + 10 /\ 2 * r.confidence + 10 < q * 20 + 20
      BY <1>1, <3>1
    <3>3. Rounded(r.confidence, 10) = q * 10
      BY <3>1 DEF Rounded
    <3>4. (q * 10) \div 10 = q
      OBVIOUS
    <3> QED BY <1>1, <3>2, <3>3, <3>4
  <2>2. f = Percentage(h, {One - h * 10})
    BY <1>1, <1>6, <2>1 DEF Confidence
  <2>3. /\ f.unit = "rate" /\ f.forms = {h * 10, One - h * 10}
        /\ f.copies = { { [value |-> h * 1000, marks |-> {"%"}] } }
    BY <1>1, <2>2 DEF Percentage, Marked
  <2>4. 100 * r.confidence \in RatesOf(r) /\ 100 * (One - r.confidence) \in RatesOf(r)
    BY DEF RatesOf
  <2>5. /\ h * 10 \in Int /\ One - h * 10 \in Int /\ h * 1000 \in Int
        /\ 100 * (h * 10) \in Int /\ 100 * (One - h * 10) \in Int
        /\ 100 * r.confidence \in Int /\ 100 * (One - r.confidence) \in Int
    BY <1>1
  <2>6. /\ 100 * (h * 10) - 100 * r.confidence <= 1000
        /\ 100 * r.confidence - 100 * (h * 10) <= 1000
        /\ 100 * (One - h * 10) - 100 * (One - r.confidence) <= 1000
        /\ 100 * (One - r.confidence) - 100 * (One - h * 10) <= 1000
    BY <1>1, <2>1
  <2>7. RoundingOf(100 * (h * 10), RatesOf(r)) /\ RoundingOf(100 * (One - h * 10), RatesOf(r))
    BY <1>1, <2>4, <2>5, <2>6 DEF RoundingOf
  <2>8. \A c \in f.copies : \A n \in c : n.value = h * 1000
    BY <2>3
  <2> QED BY <2>3, <2>5, <2>7, <2>8 DEF TrueOf
<1>7. CASE f = Horizon(r.horizon)
  <2>1. PICK v \in Int : v = r.horizon * One
    BY <1>1
  <2>2. f = AsIs("horizon", v, {}, Marked(v, "day"))
    BY <1>7, <2>1 DEF Horizon
  <2>3. f.unit = "horizon" /\ f.forms = {v}
    BY <2>2 DEF AsIs
  <2>4. \A c \in f.copies : \A n \in c : n.marks = {} \/ n.value = v
    BY <2>2 DEF AsIs, Plainly, Marked
  <2> QED BY <2>1, <2>3, <2>4 DEF TrueOf
<1>8. CASE \E x, step : f = Decimal(x, step)
  <2>1. f.unit = "plain" /\ \A c \in f.copies : \A n \in c : n.marks = {}
    BY <1>8 DEF Decimal, Plainly
  <2> QED BY <2>1 DEF TrueOf
<1> QED BY <1>3, <1>4, <1>5, <1>6, <1>7, <1>8 DEF StatedOf

\* Whichever sheet it is on.
LEMMA SheetIsTrue ==
  ASSUME NEW r \in ResultType, IsPortfolio(r) => Consistent(r), NEW f \in Facts(BuildFactSheet(r))
  PROVE  TrueOf(f, r) /\ \A c \in f.copies : \A n \in c : n.marks # {} => n.value \in Int
BY SingleIsTrue, PortfolioIsTrue DEF BuildFactSheet

\* The tolerance of the check and the rounding of the sheet together.
NearTo(a, w) == \E m \in {Magnitude(a), Magnitude(w)} : 100 * Magnitude(a - w) <= m + 2 * One

\* A number that is close to the rounding of a figure is near the figure.
LEMMA CloseIsNear ==
  ASSUME NEW a \in Int, NEW v, NEW figures, IsClose(a, v), RoundingOf(v, figures)
  PROVE  \E w \in figures : NearTo(a, w)
<1>1. v \in Int /\ One = 100000 /\ Cent = 1000
  BY DEF RoundingOf, One, Cent
<1>2. PICK w \in figures : w \in Int /\ v - w <= 1000 /\ w - v <= 1000
  BY <1>1 DEF RoundingOf
<1>3. \/ 200 * Magnitude(a - v) <= 100000
      \/ 100 * Magnitude(a - v) <= Magnitude(a) \/ 100 * Magnitude(a - v) <= Magnitude(v)
  <2>1. PICK apart \in Nat, x \in Nat, y \in Nat :
          apart = Magnitude(a - v) /\ x = Magnitude(a) /\ y = Magnitude(v)
    BY <1>1 DEF Magnitude
  <2>2. \/ apart = 0 \/ apart <= 100000 \div 200
        \/ apart <= x \div 100 \/ apart <= y \div 100
    BY <1>1, <2>1 DEF IsClose, Magnitude
  <2>3. 200 * apart <= 100000 \/ 100 * apart <= x \/ 100 * apart <= y
    BY <2>2, SMT
  <2> QED BY <2>1, <2>3
<1>4. PICK x \in Nat, y \in Nat, z \in Nat :
        x = Magnitude(a) /\ y = Magnitude(v) /\ z = Magnitude(w) /\ y <= z + 1000
  BY <1>1, <1>2 DEF Magnitude
<1>5. PICK d \in Nat, e \in Nat :
        d = Magnitude(a - v) /\ e = Magnitude(a - w) /\ e <= d + 1000
  <2>1. PICK b \in Int, c \in Int : b = a - v /\ c = a - w /\ c <= b + 1000 /\ b <= c + 1000
    BY <1>1, <1>2
  <2>2. Magnitude(b) \in Nat /\ Magnitude(c) \in Nat /\ Magnitude(c) <= Magnitude(b) + 1000
    BY <2>1 DEF Magnitude
  <2> QED BY <2>1, <2>2
<1>6. 100 * e <= x + 2 * One \/ 100 * e <= z + 2 * One
  BY <1>1, <1>3, <1>4, <1>5
<1> QED BY <1>2, <1>4, <1>5, <1>6 DEF NearTo

\* So a number that matches in its unit is a figure of the result.
LEMMA MatchIsTrue ==
  ASSUME NEW r \in ResultType, IsPortfolio(r) => Consistent(r),
         NEW n, n.marks # {} => n.value \in Int, Matches(n, Facts(BuildFactSheet(r)))
  PROVE  /\ UnitOf(n) = "horizon"  => n.value = r.horizon * One
         /\ UnitOf(n) = "currency" => \E w \in AmountsOf(r) : NearTo(n.value, w)
         /\ UnitOf(n) = "rate"     => \E w \in RatesOf(r) : NearTo(n.value, w)
<1> DEFINE facts == Facts(BuildFactSheet(r))
<1>1. \A f \in facts : TrueOf(f, r)
  BY SheetIsTrue
<1> HIDE DEF facts
<1>2. CASE UnitOf(n) = "horizon"
  <2>1. n.value \in Candidates("horizon", facts)
    BY <1>2 DEF Matches, facts
  <2>2. PICK f \in facts : f.unit = "horizon" /\ n.value \in f.forms
    BY <2>1 DEF Candidates
  <2> QED BY <1>1, <1>2, <2>2 DEF TrueOf
<1>3. CASE UnitOf(n) = "currency"
  <2>1. PICK v \in Candidates("currency", facts) : IsClose(n.value, v)
    BY <1>3 DEF Matches, facts
  <2>2. PICK f \in facts : f.unit = "currency" /\ v \in f.forms
    BY <2>1 DEF Candidates
  <2>3. RoundingOf(v, AmountsOf(r))
    BY <1>1, <2>2 DEF TrueOf
  <2>4. n.value \in Int
    BY <1>3 DEF UnitOf
  <2>5. \E w \in AmountsOf(r) : NearTo(n.value, w)
    BY <2>1, <2>3, <2>4, CloseIsNear
  <2> QED BY <1>3, <2>5
<1>4. CASE UnitOf(n) = "rate"
  <2>1. PICK v \in Candidates("rate", facts) : IsClose(n.value, v)
    BY <1>4 DEF Matches, facts
  <2>2. PICK f \in facts : \E u \in f.forms : f.unit = "rate" /\ v = 100 * u
    BY <2>1 DEF Candidates
  <2>3. RoundingOf(v, RatesOf(r))
    BY <1>1, <2>2 DEF TrueOf
  <2>4. n.value \in Int
    BY <1>4 DEF UnitOf
  <2>5. \E w \in RatesOf(r) : NearTo(n.value, w)
    BY <2>1, <2>3, <2>4, CloseIsNear
  <2> QED BY <1>4, <2>5
<1> QED BY <1>2, <1>3, <1>4

\* The dates of a sheet are dates of the result.
LEMMA SheetDates ==
  ASSUME NEW r \in ResultType
  PROVE  BuildFactSheet(r).dates \subseteq {r.as_of} \cup r.dates \cup ToSet(r.dropped)
<1> DEFINE all == [j \in DOMAIN r.dropped |-> DroppedDate(r, j)]
           listed == Upto(all, ListedDates)
<1>1. all \in Seq({ DroppedDate(r, i) : i \in DOMAIN r.dropped })
  <2>1. r.dropped \in Seq(Nat)
    BY DEF ResultType
  <2> QED BY <2>1
<1>2. listed \in Seq({ DroppedDate(r, i) : i \in DOMAIN r.dropped })
  <2> HIDE DEF all
  <2> QED BY <1>1, Parts, SheetAssumption
<1>3. ASSUME NEW k \in DOMAIN listed PROVE listed[k].date \in ToSet(r.dropped)
  <2>1. listed[k] \in { DroppedDate(r, i) : i \in DOMAIN r.dropped }
    <3> HIDE DEF listed
    <3> QED BY <1>2, <1>3, LenProperties, ElementOfSeq
  <2>2. PICK i \in DOMAIN r.dropped : listed[k] = DroppedDate(r, i)
    <3> HIDE DEF listed
    <3> QED BY <2>1
  <2>3. listed[k].date = r.dropped[i]
    <3> HIDE DEF listed
    <3> QED BY <2>2 DEF DroppedDate
  <2> HIDE DEF listed
  <2> QED BY <2>3 DEF ToSet
<1>4. PortfolioSheet(r).dates = {r.as_of} \cup { listed[k].date : k \in DOMAIN listed }
  BY DEF PortfolioSheet
<1>5. SingleAssetSheet(r).dates = {r.as_of} \cup r.dates
  BY DEF SingleAssetSheet
<1> HIDE DEF listed
<1> QED BY <1>3, <1>4, <1>5 DEF BuildFactSheet

-----------------------------------------------------------------------------
(* What a portfolio's summary stands for                                   *)

\* The figures the lines show.
LEMMA Figures ==
  /\ \A x : Figure(Money(x)) = Rounded(x, Cent)
  /\ \A h, also : Figure(Percentage(h, also)) = h * Cent
  /\ \A n \in Nat : Figure(Count(n)) \div One = n
<1>1. ASSUME NEW f, NEW v, NEW m, f.copies = { { [value |-> v, marks |-> m] } }
      PROVE  Figure(f) = v
  <2>1. \A x : (CHOOSE y \in {x} : TRUE) = x
    OBVIOUS
  <2>2. PICK n : n = [value |-> v, marks |-> m]
    OBVIOUS
  <2>3. n.value = v
    BY <2>2
  <2>4. f.copies = {{n}}
    BY <1>1, <2>2
  <2>5. Figure(f) = (CHOOSE y \in (CHOOSE z \in f.copies : TRUE) : TRUE).value
    BY DEF Figure
  <2>6. (CHOOSE z \in f.copies : TRUE) = {n}
    BY <2>1, <2>4
  <2>7. (CHOOSE y \in {n} : TRUE) = n
    BY <2>1
  <2> QED BY <2>3, <2>5, <2>6, <2>7
<1>2. \A x : Money(x).copies = { { [value |-> Rounded(x, Cent), marks |-> {"money"}] } }
  BY DEF Money, Marked
<1>3. \A h, also : Percentage(h, also).copies = { { [value |-> h * Cent, marks |-> {"%"}] } }
  BY DEF Percentage, Marked
<1>4. ASSUME NEW n \in Nat PROVE Figure(Count(n)) \div One = n
  <2>1. PICK v : v = Rounded(n * One, One)
    OBVIOUS
  <2>2. Count(n).copies = { { [value |-> v, marks |-> {}] } }
    BY <2>1 DEF Count, Decimal, Plainly
  <2>3. Figure(Count(n)) = v
    BY <1>1, <2>2
  <2>4. v \div One = n
    <3>1. v = ((2 * (n * 100000) + 100000) \div 200000) * 100000
      BY <2>1 DEF Rounded, One
    <3>2. (2 * (n * 100000) + 100000) \div 200000 = n
      OBVIOUS
    <3>3. (n * 100000) \div 100000 = n
      OBVIOUS
    <3> QED BY <3>1, <3>2, <3>3 DEF One
  <2> QED BY <2>3, <2>4
<1>5. ASSUME NEW x PROVE Figure(Money(x)) = Rounded(x, Cent)
  BY <1>1, <1>2
<1>6. ASSUME NEW h, NEW also PROVE Figure(Percentage(h, also)) = h * Cent
  <2>1. PICK v : v = h * Cent
    OBVIOUS
  <2>2. Percentage(h, also).copies = { { [value |-> v, marks |-> {"%"}] } }
    BY <1>3, <2>1
  <2> QED BY <1>1, <2>1, <2>2
<1> QED BY <1>4, <1>5, <1>6

\* How many a list leaves out, and says so.
LEMMA BeyondList ==
  ASSUME NEW n \in Nat, NEW listed \in Nat
  PROVE  Beyond(More(n, listed)) = IF n > listed THEN n - listed ELSE 0
<1>1. CASE n > listed
  <2>1. PICK c \in Nat : c = n - listed
    <3>1. n - listed \in Nat
      BY <1>1
    <3> QED BY <3>1
  <2>2. More(n, listed) = << Count(c) >>
    BY <1>1, <2>1 DEF More
  <2>3. \A x : DOMAIN << x >> = 1 .. 1 /\ << x >>[1] = x
    OBVIOUS
  <2>4. PICK more : more = More(n, listed) /\ DOMAIN more = 1 .. 1 /\ more[1] = Count(c)
    BY <2>2, <2>3
  <2>5. [ k \in DOMAIN more |-> Figure(more[k]) \div One ] = [ i \in 1 .. 1 |-> c ]
    BY <2>4, Figures
  <2> QED BY <1>1, <2>1, <2>4, <2>5, SumFew DEF Beyond
<1>2. CASE ~(n > listed)
  <2>1. More(n, listed) = << >>
    BY <1>2 DEF More
  <2>2. [ k \in DOMAIN << >> |-> Figure(<< >>[k]) \div One ] = << >>
    OBVIOUS
  <2> QED BY <1>2, <2>1, <2>2, SumFew DEF Beyond
<1> QED BY <1>1, <1>2

\* A list and its cut.
LEMMA Cut ==
  ASSUME NEW n \in Nat, NEW t \in Nat, NEW s \in [1 .. n -> Int],
         NEW m \in 0 .. n, m = (IF t < n THEN t ELSE n)
  PROVE  /\ Upto(s, t) = [ k \in 1 .. m |-> s[k] ]
         /\ After(s, t) = [ j \in 1 .. n - m |-> s[m + j] ]
<1>1. s \in Seq(Int) /\ Len(s) = n
  OBVIOUS
<1>2. Upto(s, t) = [ k \in 1 .. m |-> s[k] ]
  <2>1. Upto(s, t) = SubSeq(s, 1, m)
    BY <1>1 DEF Upto
  <2> QED BY <1>1, <2>1
<1>3. After(s, t) = [ j \in 1 .. n - m |-> s[m + j] ]
  <2>1. After(s, t) = SubSeq(s, t + 1, n)
    BY <1>1 DEF After
  <2>2. CASE t < n
    <3>1. SubSeq(s, m + 1, n) = [ j \in 1 .. n - m |-> s[m + j] ]
      BY <1>1
    <3> QED BY <2>1, <2>2, <3>1
  <2>3. CASE ~(t < n)
    <3>1. SubSeq(s, t + 1, n) = << >>
      BY <1>1, <2>3
    <3>2. [ j \in 1 .. n - m |-> s[m + j] ] = << >>
      BY <2>3
    <3> QED BY <2>1, <3>1, <3>2
  <2> QED BY <2>2, <2>3
<1> QED BY <1>2, <1>3

\* The lines of a portfolio's sheet: the first m of its n positions by rank, and
\* the others together.
RestLine(r, n, place, m) ==
  LET amount == Sum([ j \in 1 .. n - m |-> r.notionals[place[m + j]] ])
  IN  [count |-> Count(n - m), money |-> Money(amount), weight |-> Percent(amount, r.portfolio_value)]

Laid(r, n, place, m) ==
  /\ n \in Nat /\ n = Len(r.assets) /\ m \in 0 .. n
  /\ m = (IF TopPositions < n THEN TopPositions ELSE n)
  /\ place \in Bijection(1 .. n, 1 .. n) /\ place \in [1 .. n -> 1 .. n]
  /\ \A i, j \in 1 .. n : i < j => r.notionals[place[i]] >= r.notionals[place[j]]
  /\ PortfolioSheet(r).positions = [ k \in 1 .. m |-> Position(r, place[k]) ]
  /\ PortfolioSheet(r).rest = IF m = n THEN << >> ELSE << RestLine(r, n, place, m) >>

LEMMA LaidOut ==
  ASSUME NEW r \in ResultType, Consistent(r)
  PROVE  \E n, place, m : Laid(r, n, place, m)
<1>1. PICK n : n = Len(r.assets)
  OBVIOUS
<1>2. n \in Nat /\ Total(r) = r.portfolio_value /\ TopPositions \in Nat
  BY <1>1, SheetAssumption DEF ResultType, Consistent
<1>3. PICK place \in Bijection(1 .. n, 1 .. n) :
        /\ place \in [1 .. n -> 1 .. n] /\ Ranked(r) = place
        /\ \A i, j \in 1 .. n : i < j => r.notionals[place[i]] >= r.notionals[place[j]]
  BY <1>1, RankedPlaces
<1>4. PICK m \in 0 .. n :
        /\ m = (IF TopPositions < n THEN TopPositions ELSE n)
        /\ Upto(place, TopPositions) = [ k \in 1 .. m |-> place[k] ]
        /\ After(place, TopPositions) = [ j \in 1 .. n - m |-> place[m + j] ]
  <2>1. place \in [1 .. n -> Int]
    BY <1>2, <1>3
  <2>2. PICK m \in 0 .. n : m = (IF TopPositions < n THEN TopPositions ELSE n)
    BY <1>2
  <2> QED BY <1>2, <2>1, <2>2, Cut
<1>5. PortfolioSheet(r).positions = [ k \in 1 .. m |-> Position(r, place[k]) ]
  <2>1. PICK shown : shown = Upto(Ranked(r), TopPositions)
    OBVIOUS
  <2>2. PortfolioSheet(r).positions = [ k \in DOMAIN shown |-> Position(r, shown[k]) ]
    BY <2>1 DEF PortfolioSheet
  <2>3. DOMAIN shown = 1 .. m /\ \A k \in 1 .. m : shown[k] = place[k]
    BY <1>3, <1>4, <2>1
  <2> QED BY <2>2, <2>3
<1>6. PICK rest : rest = [ j \in 1 .. n - m |-> place[m + j] ]
  OBVIOUS
<1>7. /\ DOMAIN rest = 1 .. n - m /\ Len(rest) = n - m
      /\ \A j \in 1 .. n - m : rest[j] = place[m + j]
      /\ (rest = << >> <=> m = n)
  <2>1. DOMAIN rest = 1 .. n - m /\ Len(rest) = n - m /\ \A j \in 1 .. n - m : rest[j] = place[m + j]
    BY <1>2, <1>6
  <2>2. CASE m = n
    <3>1. rest = << >>
      BY <1>6, <2>2
    <3> QED BY <2>1, <2>2, <3>1
  <2>3. CASE m # n
    <3>1. 1 \in DOMAIN rest
      BY <1>2, <2>1, <2>3
    <3>2. rest # << >>
      BY <3>1
    <3> QED BY <2>1, <2>3, <3>2
  <2> QED BY <2>2, <2>3
<1>8. Amount(r, rest) = Sum([ j \in 1 .. n - m |-> r.notionals[place[m + j]] ])
  BY <1>7 DEF Amount
<1>9. PortfolioSheet(r).rest = IF m = n THEN << >> ELSE << RestLine(r, n, place, m) >>
  <2>1. After(Ranked(r), TopPositions) = rest
    BY <1>3, <1>4, <1>6
  <2>2. PortfolioSheet(r).rest = Rest(r)
    BY DEF PortfolioSheet
  <2>3. Rest(r) = IF rest = << >> THEN << >>
                  ELSE << [count |-> Count(Len(rest)), money |-> Money(Amount(r, rest)),
                           weight |-> Percent(Amount(r, rest), Total(r))] >>
    BY <2>1 DEF Rest
  <2> QED BY <1>2, <1>7, <1>8, <2>2, <2>3 DEF RestLine
<1>10. Laid(r, n, place, m)
  BY <1>1, <1>2, <1>3, <1>4, <1>5, <1>9, Zenon DEF Laid
<1> QED BY <1>10, Zenon

\* Every position is shown or counted, and none that is left out is larger than
\* one shown.
LEMMA EveryPosition ==
  ASSUME NEW r \in ResultType, Consistent(r)
  PROVE  PositionsStand(PortfolioSheet(r), r)
<1>1. PICK n, place, m : Laid(r, n, place, m)
  BY LaidOut
<1>2. PICK sheet : sheet = PortfolioSheet(r)
  OBVIOUS
<1>3. /\ n \in Nat /\ n = Len(r.assets) /\ m \in 0 .. n /\ m <= TopPositions
      /\ place \in [1 .. n -> 1 .. n]
      /\ \A i, j \in 1 .. n : place[i] = place[j] => i = j
      /\ \A x \in 1 .. n : \E k \in 1 .. n : place[k] = x
      /\ \A i, j \in 1 .. n : i < j => r.notionals[place[i]] >= r.notionals[place[j]]
  <2>1. place \in Bijection(1 .. n, 1 .. n)
    BY <1>1 DEF Laid
  <2>2. /\ \A i, j \in 1 .. n : place[i] = place[j] => i = j
        /\ \A x \in 1 .. n : \E k \in 1 .. n : place[k] = x
    BY <2>1 DEF Bijection, Injection, Surjection, IsInjective
  <2>3. m <= TopPositions
    BY <1>1, SheetAssumption DEF Laid
  <2> QED BY <1>1, <2>2, <2>3 DEF Laid
<1>4. /\ DOMAIN r.assets = 1 .. n /\ (\A i, j \in 1 .. n : r.assets[i] = r.assets[j] => i = j)
      /\ Total(r) = r.portfolio_value
      /\ \A i \in 1 .. n : r.weights[i] = r.notionals[i]
  <2>1. DOMAIN r.assets = 1 .. n
    BY <1>3 DEF ResultType
  <2> QED BY <2>1 DEF Consistent, IsInjective
<1>5. /\ DOMAIN sheet.positions = 1 .. m /\ Len(sheet.positions) = m
      /\ \A k \in 1 .. m : /\ sheet.positions[k].asset = r.assets[place[k]]
                           /\ sheet.positions[k].weight = Percent(r.notionals[place[k]], Total(r))
  <2>1. sheet.positions = [ k \in 1 .. m |-> Position(r, place[k]) ]
    BY <1>1, <1>2 DEF Laid
  <2>2. m \in Nat
    BY <1>3
  <2>3. \A k \in 1 .. m : sheet.positions[k] = Position(r, place[k])
    BY <2>1
  <2>4. \A i : /\ Position(r, i).asset = r.assets[i]
               /\ Position(r, i).weight = Percent(r.notionals[i], Total(r))
    BY DEF Position
  <2>5. DOMAIN sheet.positions = 1 .. m /\ Len(sheet.positions) = m
    BY <2>1, <2>2
  <2> QED BY <2>3, <2>4, <2>5
<1>6. Beyond([ k \in DOMAIN sheet.rest |-> sheet.rest[k].count ]) = n - m
  <2>1. sheet.rest = IF m = n THEN << >> ELSE << RestLine(r, n, place, m) >>
    BY <1>1, <1>2 DEF Laid
  <2>2. [ k \in DOMAIN sheet.rest |-> sheet.rest[k].count ] = More(n, m)
    <3>1. CASE m = n
      <4>1. sheet.rest = << >> /\ More(n, m) = << >>
        BY <1>3, <2>1, <3>1 DEF More
      <4> QED BY <4>1
    <3>2. CASE m # n
      <4>1. PICK line : line = RestLine(r, n, place, m)
        OBVIOUS
      <4>2. line.count = Count(n - m)
        BY <4>1 DEF RestLine
      <4>3. sheet.rest = << line >> /\ More(n, m) = << Count(n - m) >>
        BY <1>3, <2>1, <3>2, <4>1 DEF More
      <4>4. [ k \in DOMAIN << line >> |-> << line >>[k].count ] = << line.count >>
        OBVIOUS
      <4> QED BY <4>2, <4>3, <4>4
    <3> QED BY <3>1, <3>2
  <2>3. Beyond(More(n, m)) = IF n > m THEN n - m ELSE 0
    <3>1. m \in Nat
      BY <1>3
    <3> QED BY <1>3, <3>1, BeyondList
  <2>4. (IF n > m THEN n - m ELSE 0) = n - m
    BY <1>3
  <2> QED BY <2>2, <2>3, <2>4
<1>7. Len(sheet.positions) <= TopPositions
      /\ Len(sheet.positions) + Beyond([ k \in DOMAIN sheet.rest |-> sheet.rest[k].count ]) = Len(r.assets)
  <2>1. m + (n - m) = n
    BY <1>3
  <2> QED BY <1>3, <1>5, <1>6, <2>1
<1>8. ASSUME NEW i \in 1 .. n, NEW j \in 1 .. n,
             \E k \in DOMAIN sheet.positions : sheet.positions[k].asset = r.assets[i],
             ~\E k \in DOMAIN sheet.positions : sheet.positions[k].asset = r.assets[j]
      PROVE  r.notionals[i] >= r.notionals[j]
  <2>1. PICK k \in 1 .. m : r.assets[place[k]] = r.assets[i]
    BY <1>5, <1>8
  <2>2. k \in 1 .. n /\ place[k] = i
    <3>1. k \in 1 .. n
      BY <1>3
    <3>2. place[k] \in 1 .. n
      BY <1>3, <3>1
    <3> QED BY <1>4, <2>1, <3>1, <3>2
  <2>3. PICK l \in 1 .. n : place[l] = j
    BY <1>3
  <2>4. ~(l \in 1 .. m)
    BY <1>5, <1>8, <2>3
  <2>5. k < l
    BY <1>3, <2>4
  <2> QED BY <1>3, <2>2, <2>3, <2>5
<1>9. ASSUME NEW i \in 1 .. n, NEW k \in 1 .. m, sheet.positions[k].asset = r.assets[i]
      PROVE  sheet.positions[k].weight = Percent(r.weights[i], r.portfolio_value)
  <2>1. k \in 1 .. n /\ place[k] = i
    <3>1. k \in 1 .. n
      BY <1>3
    <3>2. place[k] \in 1 .. n /\ r.assets[place[k]] = r.assets[i]
      BY <1>3, <1>5, <1>9, <3>1
    <3> QED BY <1>4, <3>1, <3>2
  <2> QED BY <1>4, <1>5, <2>1
<1> QED BY <1>2, <1>4, <1>5, <1>7, <1>8, <1>9 DEF PositionsStand

\* A portfolio's dates and their assets are listed or counted.
LEMMA EveryDrop ==
  ASSUME NEW r \in ResultType, Len(r.missing) = Len(r.dropped)
  PROVE  DropsStand(PortfolioSheet(r).dropped[1], r)
<1>1. PICK d : d = Len(r.dropped)
  OBVIOUS
<1>2. /\ d \in Nat /\ DOMAIN r.dropped = 1 .. d
      /\ \A k \in 1 .. d : r.missing[k] \in Seq(Nat)
      /\ ListedDates \in Nat /\ ListedAssets \in Nat
  <2>1. r.dropped \in Seq(Nat) /\ r.missing \in Seq(Seq(Nat))
    BY DEF ResultType
  <2> QED BY <1>1, <2>1, SheetAssumption
<1>3. PICK all : all = [ k \in 1 .. d |-> DroppedDate(r, k) ]
  OBVIOUS
<1>4. PICK m \in 0 .. d : /\ m = (IF ListedDates < d THEN ListedDates ELSE d)
                          /\ Upto(all, ListedDates) = [ k \in 1 .. m |-> all[k] ]
  <2>1. PICK S : S = { DroppedDate(r, k) : k \in 1 .. d }
    OBVIOUS
  <2>2. all \in Seq(S) /\ Len(all) = d
    BY <1>2, <1>3, <2>1
  <2>3. PICK t \in Nat : t = ListedDates
    BY <1>2
  <2>4. PICK m \in 0 .. d : m = (IF t < d THEN t ELSE d)
    BY <1>2
  <2>5. Upto(all, t) = SubSeq(all, 1, m)
    BY <2>2, <2>4 DEF Upto
  <2>6. SubSeq(all, 1, m) = [ k \in 1 .. m |-> all[k] ]
    BY <1>2, <2>2
  <2> QED BY <2>3, <2>4, <2>5, <2>6
<1>5. PICK drops : drops = PortfolioSheet(r).dropped[1]
  OBVIOUS
<1>6. drops.listed = Upto(all, ListedDates) /\ drops.more = More(d, ListedDates)
  <2>1. PortfolioSheet(r).dropped
          = << [count |-> Count(Len(r.dropped)),
                listed |-> Upto([k \in DOMAIN r.dropped |-> DroppedDate(r, k)], ListedDates),
                more |-> More(Len(r.dropped), ListedDates)] >>
    BY DEF PortfolioSheet
  <2>2. drops = [count |-> Count(Len(r.dropped)),
                 listed |-> Upto([k \in DOMAIN r.dropped |-> DroppedDate(r, k)], ListedDates),
                 more |-> More(Len(r.dropped), ListedDates)]
    BY <1>5, <2>1
  <2> QED BY <1>1, <1>2, <1>3, <2>2
<1>7. DOMAIN drops.listed = 1 .. m /\ Len(drops.listed) = m
      /\ \A k \in 1 .. m : drops.listed[k] = DroppedDate(r, k)
  <2>1. drops.listed = [ k \in 1 .. m |-> all[k] ] /\ m \in Nat
    BY <1>2, <1>4, <1>6
  <2>2. \A k \in 1 .. m : k \in 1 .. d
    BY <1>2
  <2> QED BY <1>3, <2>1, <2>2
<1>8. ASSUME NEW n \in Nat, NEW t \in Nat
      PROVE  (IF t < n THEN t ELSE n) + Beyond(More(n, t)) = n
  BY BeyondList
<1>9. Len(drops.listed) + Beyond(drops.more) = Len(r.dropped)
  BY <1>1, <1>2, <1>4, <1>6, <1>7, <1>8
<1>10. ASSUME NEW k \in 1 .. m
       PROVE  Len(drops.listed[k].names) + Beyond(drops.listed[k].more) = Len(r.missing[k])
  <2>1. PICK names : names = r.missing[k] /\ names \in Seq(Nat)
    BY <1>2, <1>4
  <2>2. PICK n \in Nat : n = Len(names)
    BY <2>1
  <2>3. /\ drops.listed[k].names = Upto(names, ListedAssets)
        /\ drops.listed[k].more = More(n, ListedAssets)
    <3>1. drops.listed[k] = DroppedDate(r, k)
      BY <1>7
    <3> QED BY <2>1, <2>2, <3>1 DEF DroppedDate
  <2>4. Len(Upto(names, ListedAssets)) = IF ListedAssets < n THEN ListedAssets ELSE n
    <3>1. PICK t \in Nat : t = ListedAssets
      BY <1>2
    <3>2. PICK l \in 0 .. n : l = (IF t < n THEN t ELSE n)
      OBVIOUS
    <3>3. Upto(names, t) = SubSeq(names, 1, l)
      BY <2>2, <3>2 DEF Upto
    <3>4. SubSeq(names, 1, l) = [ i \in 1 .. l |-> names[i] ]
      BY <2>1, <2>2
    <3>5. Upto(names, ListedAssets) = [ i \in 1 .. l |-> names[i] ]
      BY <3>1, <3>3, <3>4
    <3>6. l \in Nat /\ Len([ i \in 1 .. l |-> names[i] ]) = l
      OBVIOUS
    <3> QED BY <3>1, <3>2, <3>5, <3>6
  <2> QED BY <1>2, <1>8, <2>1, <2>2, <2>3, <2>4
<1> QED BY <1>5, <1>7, <1>9, <1>10 DEF DropsStand

\* A share is rounded by half a hundredth of a percent at most.
Hundredths(part, whole) == (2 * 10000 * part + whole) \div (2 * whole)

ByHalf(part, whole, h) ==
  (2 * whole) * h - 20000 * part <= whole /\ 20000 * part - (2 * whole) * h <= whole

LEMMA ShareByHalf ==
  ASSUME NEW part \in Nat, NEW whole \in Nat \ {0}
  PROVE  Hundredths(part, whole) \in Int /\ ByHalf(part, whole, Hundredths(part, whole))
<1>1. PICK a \in Nat, b \in Nat, w \in Nat \ {0} :
        a = 20000 * part /\ b = 2 * 10000 * part + whole /\ w = 2 * whole
  OBVIOUS
<1>2. PICK h \in Int : h = b \div w
  BY <1>1
<1>3. w * h <= b /\ b < w * h + w
  BY <1>1, <1>2
<1>4. PICK x \in Int : x = w * h
  BY <1>1
<1>5. b = a + whole
  BY <1>1
<1>6. x - a <= whole /\ a - x <= whole
  BY <1>1, <1>3, <1>4, <1>5
<1>7. Hundredths(part, whole) = h
  BY <1>1, <1>2 DEF Hundredths
<1> QED BY <1>1, <1>4, <1>6, <1>7, SMT DEF ByHalf

\* A portfolio's lines show the parts of one sequence of amounts, which add up
\* to the whole.
Shows(r, l, y, lines) ==
  /\ l \in Nat /\ y \in [1 .. l -> Nat] /\ Sum(y) = r.portfolio_value
  /\ lines = PortfolioSheet(r).positions \o PortfolioSheet(r).rest
  /\ DOMAIN lines = 1 .. l /\ Len(lines) = l
  /\ \A k \in 1 .. l : /\ lines[k].money = Money(y[k])
                       /\ lines[k].weight = Percent(y[k], r.portfolio_value)

LEMMA Lines ==
  ASSUME NEW r \in ResultType, Consistent(r)
  PROVE  \E l, y, lines : Shows(r, l, y, lines)
<1>1. PICK n, place, m : Laid(r, n, place, m)
  BY LaidOut
<1>2. /\ n \in Nat /\ n = Len(r.assets) /\ m \in 0 .. n
      /\ place \in [1 .. n -> 1 .. n] /\ place \in Bijection(1 .. n, 1 .. n)
  BY <1>1 DEF Laid
<1>3. PICK amounts \in [1 .. n -> Nat] :
        /\ amounts = r.notionals /\ Sum(amounts) = r.portfolio_value
  <2>1. r.notionals \in Seq(Nat) /\ Len(r.notionals) = n /\ Sum(r.notionals) = r.portfolio_value
    BY <1>2 DEF ResultType, Consistent, Total
  <2> QED BY <1>2, <2>1
<1>4. PICK whole \in Nat \ {0} : whole = r.portfolio_value
  BY DEF ResultType, Consistent
<1>5. PICK z \in [1 .. n -> Nat] :
        z = [ k \in 1 .. n |-> amounts[place[k]] ] /\ Sum(z) = whole
  <2>1. [ k \in 1 .. n |-> amounts[place[k]] ] \in [1 .. n -> Nat]
    BY <1>2
  <2>2. amounts \in [1 .. n -> Int]
    OBVIOUS
  <2>3. Sum([ k \in 1 .. n |-> amounts[place[k]] ]) = Sum(amounts)
    BY <1>2, <2>2, SumPermuted
  <2> QED BY <1>3, <1>4, <2>1, <2>3
<1>6. PICK p \in Nat : m \in Nat /\ n = m + p /\ p = n - m
  <2>1. n - m \in Nat /\ m \in Nat /\ n = m + (n - m)
    BY <1>2
  <2> QED BY <2>1
<1>7. PICK a, b : a = [ k \in 1 .. m |-> z[k] ] /\ b = [ j \in 1 .. p |-> z[m + j] ]
  OBVIOUS
<1>8. a \in [1 .. m -> Nat] /\ b \in [1 .. p -> Nat]
  BY <1>6, <1>7
<1>9. Sum(a) \in Int /\ Sum(b) \in Nat /\ Sum(a) + Sum(b) = whole
  <2>1. z \in [1 .. m + p -> Int]
    BY <1>6
  <2>2. Sum(z) = Sum(a) + Sum(b)
    BY <1>6, <1>7, <2>1, SumSplit
  <2>3. b \in Seq(Nat) /\ a \in [1 .. m -> Int]
    BY <1>6, <1>8
  <2>4. Sum(b) \in Nat
    BY <2>3, SumIsNat
  <2>5. Sum(a) \in Int
    BY <1>6, <2>3, RowSum
  <2> QED BY <1>5, <2>2, <2>4, <2>5
<1>10. PICK positions, rest :
         /\ positions = PortfolioSheet(r).positions /\ rest = PortfolioSheet(r).rest
         /\ positions = [ k \in 1 .. m |-> Position(r, place[k]) ]
         /\ rest = IF m = n THEN << >> ELSE << RestLine(r, n, place, m) >>
  BY <1>1 DEF Laid
<1>11. /\ DOMAIN positions = 1 .. m /\ Len(positions) = m
       /\ positions = [ k \in 1 .. m |-> positions[k] ]
       /\ \A k \in 1 .. m : /\ k \in 1 .. n
                            /\ positions[k].money = Money(z[k])
                            /\ positions[k].weight = Percent(z[k], whole)
  <2>1. DOMAIN positions = 1 .. m /\ Len(positions) = m /\ positions = [ k \in 1 .. m |-> positions[k] ]
    BY <1>6, <1>10
  <2>2. ASSUME NEW k \in 1 .. m
        PROVE  /\ k \in 1 .. n
               /\ positions[k].money = Money(z[k]) /\ positions[k].weight = Percent(z[k], whole)
    <3>1. k \in 1 .. n
      BY <1>2, <1>6
    <3>2. positions[k] = Position(r, place[k])
      BY <1>10
    <3>3. z[k] = r.notionals[place[k]]
      BY <1>3, <1>5, <3>1
    <3>4. Total(r) = whole
      BY <1>4 DEF Consistent
    <3>5. \A i : /\ Position(r, i).money = Money(r.notionals[i])
                 /\ Position(r, i).weight = Percent(r.notionals[i], Total(r))
      BY DEF Position
    <3> QED BY <3>1, <3>2, <3>3, <3>4, <3>5
  <2> QED BY <2>1, <2>2
<1>12. CASE m = n
  <2>1. rest = << >> /\ positions \o rest = positions
    <3>1. rest = << >>
      BY <1>10, <1>12
    <3>2. PICK S : S = { positions[k] : k \in 1 .. m }
      OBVIOUS
    <3>3. positions \in Seq(S)
      BY <1>6, <1>11, <3>2
    <3> QED BY <3>1, <3>3
  <2>2. Shows(r, n, z, positions)
    BY <1>2, <1>4, <1>5, <1>10, <1>11, <1>12, <2>1 DEF Shows
  <2> QED BY <2>2
<1>13. CASE m # n
  <2>1. PICK line : line = RestLine(r, n, place, m)
    OBVIOUS
  <2>2. line.money = Money(Sum(b)) /\ line.weight = Percent(Sum(b), whole)
    <3>1. b = [ j \in 1 .. n - m |-> r.notionals[place[m + j]] ]
      <4>1. \A j \in 1 .. p : m + j \in 1 .. n
        BY <1>6
      <4> QED BY <1>3, <1>5, <1>6, <1>7, <4>1
    <3> QED BY <1>4, <2>1, <3>1 DEF RestLine
  <2>3. PICK one \in Nat : one = 1
    OBVIOUS
  <2>4. PICK l \in Nat : l = m + one
    BY <1>6
  <2>5. PICK lines : lines = positions \o rest
    OBVIOUS
  <2>6. /\ DOMAIN lines = 1 .. l /\ Len(lines) = l
        /\ \A k \in 1 .. m : lines[k] = positions[k]
        /\ lines[l] = line
    <3>1. rest = << line >>
      BY <1>10, <1>13, <2>1
    <3>2. PICK S : S = { positions[k] : k \in 1 .. m } \cup {line}
      OBVIOUS
    <3>3. positions \in Seq(S) /\ << line >> \in Seq(S) /\ Len(<< line >>) = 1 /\ << line >>[1] = line
      <4>1. line \in S /\ \A k \in 1 .. m : positions[k] \in S
        BY <3>2
      <4>2. PICK shown \in [1 .. m -> S] : shown = positions
        BY <1>11, <4>1
      <4>3. shown \in Seq(S)
        BY <1>6
      <4> QED BY <4>1, <4>2, <4>3
    <3>4. lines = positions \o << line >>
      BY <2>5, <3>1
    <3>5. /\ Len(lines) = Len(positions) + Len(<< line >>) /\ DOMAIN lines = 1 .. Len(lines)
          /\ \A k \in 1 .. Len(positions) : lines[k] = positions[k]
          /\ \A k \in 1 .. Len(<< line >>) : lines[Len(positions) + k] = << line >>[k]
      BY <3>3, <3>4
    <3>6. l = m + 1
      BY <2>3, <2>4
    <3> QED BY <1>6, <1>11, <3>3, <3>5, <3>6
  <2>7. PICK y : y = [ k \in 1 .. l |-> IF k <= m THEN z[k] ELSE Sum(b) ]
    OBVIOUS
  <2>8. /\ y \in [1 .. l -> Nat] /\ y[l] = Sum(b) /\ \A k \in 1 .. m : y[k] = z[k]
        /\ \A k \in 1 .. l : k \in 1 .. m \/ k = l
    BY <1>6, <1>9, <2>3, <2>4, <2>7
  <2>9. Sum(y) = whole
    <3>1. y \in [1 .. m + one -> Int]
      BY <2>4, <2>8
    <3>2. Sum(y) = Sum([ i \in 1 .. m |-> y[i] ]) + Sum([ j \in 1 .. one |-> y[m + j] ])
      BY <1>6, <3>1, SumSplit
    <3>3. [ i \in 1 .. m |-> y[i] ] = a
      BY <1>7, <2>8
    <3>4. PICK c \in Int : c = Sum(b)
      BY <1>9
    <3>5. [ j \in 1 .. one |-> y[m + j] ] = [ i \in 1 .. 1 |-> c ]
      BY <2>3, <2>4, <2>8, <3>4
    <3>6. Sum([ i \in 1 .. 1 |-> c ]) = c
      BY SumFew
    <3> QED BY <1>9, <3>2, <3>3, <3>4, <3>5, <3>6
  <2>10. ASSUME NEW k \in 1 .. l
         PROVE  lines[k].money = Money(y[k]) /\ lines[k].weight = Percent(y[k], whole)
    <3>1. CASE k \in 1 .. m
      BY <1>11, <2>6, <2>8, <3>1
    <3>2. CASE k = l
      BY <2>2, <2>6, <2>8, <3>2
    <3> QED BY <2>8, <3>1, <3>2
  <2>11. Shows(r, l, y, lines)
    BY <1>4, <1>10, <2>5, <2>6, <2>8, <2>9, <2>10 DEF Shows
  <2> QED BY <2>11
<1> QED BY <1>12, <1>13

\* The amounts and the weights shown add up to the whole, rounding aside.
LEMMA EveryFigure ==
  ASSUME NEW r \in ResultType, Consistent(r)
  PROVE  FiguresAddUp(PortfolioSheet(r), r)
<1>1. PICK whole \in Nat \ {0} : whole = r.portfolio_value
  BY DEF ResultType, Consistent
<1>2. PICK n, amounts, lines : Shows(r, n, amounts, lines)
  BY Lines
<1>3. PICK l \in Nat : l = n
  BY <1>2 DEF Shows
<1>4. PICK y \in [1 .. l -> Int] : y = amounts
  BY <1>2, <1>3 DEF Shows
<1>5. /\ Sum(y) = whole /\ \A k \in 1 .. l : y[k] \in Nat
      /\ lines = PortfolioSheet(r).positions \o PortfolioSheet(r).rest
      /\ DOMAIN lines = 1 .. l /\ Len(lines) = l
      /\ \A k \in 1 .. l : /\ lines[k].money = Money(y[k])
                           /\ lines[k].weight = Percent(y[k], whole)
  BY <1>1, <1>2, <1>3, <1>4 DEF Shows
<1>6. PICK money : money = [ k \in DOMAIN lines |-> Figure(lines[k].money) ]
  OBVIOUS
<1>7. PICK weight : weight = [ k \in DOMAIN lines |-> Figure(lines[k].weight) ]
  OBVIOUS
<1>8. Magnitude(Sum(money) - whole) <= l * 500
  <2>1. \A k \in 1 .. l : money[k] = Rounded(y[k], Cent)
    BY <1>5, <1>6, Figures
  <2>2. ASSUME NEW k \in 1 .. l
        PROVE  money[k] \in Int /\ money[k] - y[k] <= 500 /\ y[k] - money[k] <= 500
    <3>1. y[k] \in Int
      BY <1>4
    <3> QED BY <2>1, <3>1, RoundsToCent
  <2>3. PICK q \in [1 .. l -> Int] : q = money
    BY <1>5, <1>6, <2>2
  <2>4. PICK one \in Int : one = 1
    OBVIOUS
  <2>5. PICK e \in Nat : e = 500
    OBVIOUS
  <2>6. \A i \in 1 .. l : one * q[i] - one * y[i] <= e /\ one * y[i] - one * q[i] <= e
    BY <2>2, <2>3, <2>4, <2>5
  <2>7. one * Sum(q) - one * Sum(y) <= l * e /\ one * Sum(y) - one * Sum(q) <= l * e
    BY <2>6, SumNear DEF Near
  <2>8. PICK s \in Int : s = Sum(q)
    BY RowSum
  <2>9. s - whole <= l * e /\ whole - s <= l * e
    BY <1>5, <2>4, <2>7, <2>8
  <2> QED BY <2>3, <2>5, <2>8, <2>9 DEF Magnitude
<1>9. PICK s \in Int : Sum(weight) = 1000 * s /\ 2 * s - 20000 <= l /\ -l <= 2 * s - 20000
  <2>1. PICK h : h = [ k \in 1 .. l |-> Hundredths(y[k], whole) ]
    OBVIOUS
  <2>2. ASSUME NEW k \in 1 .. l
        PROVE  /\ h[k] \in Int
               /\ (2 * whole) * h[k] - 20000 * y[k] <= whole
               /\ 20000 * y[k] - (2 * whole) * h[k] <= whole
    <3>1. PICK part \in Nat : part = y[k]
      BY <1>5
    <3>2. h[k] = Hundredths(part, whole)
      BY <2>1, <3>1
    <3>3. Hundredths(part, whole) \in Int /\ ByHalf(part, whole, Hundredths(part, whole))
      BY ShareByHalf
    <3>4. PICK g \in Int : g = Hundredths(part, whole)
      BY <3>3
    <3>5. (2 * whole) * g - 20000 * part <= whole /\ 20000 * part - (2 * whole) * g <= whole
      BY <3>3, <3>4, SMT DEF ByHalf
    <3>6. h[k] = g
      BY <3>2, <3>4, SMT
    <3> QED BY <3>1, <3>5, <3>6, SMT
  <2>3. PICK q \in [1 .. l -> Int] : q = h
    <3>1. \A k \in 1 .. l : h[k] \in Int
      BY <2>2
    <3>2. h = [ k \in 1 .. l |-> h[k] ]
      BY <2>1
    <3> QED BY <3>1, <3>2
  <2>4. PICK c, none, twice, full \in Int :
          c = 1000 /\ none = 0 /\ twice = 2 * whole /\ full = 20000
    OBVIOUS
  <2>5. weight = Combined(l, q, q, c, none)
    <3>1. ASSUME NEW k \in 1 .. l PROVE weight[k] = c * q[k] + none * q[k]
      <4>1. weight[k] = Figure(Percent(y[k], whole))
        BY <1>5, <1>7
      <4>2. Percent(y[k], whole) = Percentage(h[k], {})
        BY <2>1, SMT DEF Percent, Hundredths
      <4>3. weight[k] = h[k] * Cent
        BY <4>1, <4>2, Figures
      <4>4. Cent = 1000
        BY SMT DEF Cent, One
      <4> QED BY <2>2, <2>3, <2>4, <4>3, <4>4, SMT
    <3> QED BY <1>5, <1>7, <3>1 DEF Combined
  <2>6. PICK s \in Int : s = Sum(q)
    BY RowSum
  <2>7. Sum(weight) = 1000 * s
    <3>1. Sum(Combined(l, q, q, c, none)) = c * Sum(q) + none * Sum(q)
      BY SumLinear
    <3> QED BY <2>4, <2>5, <2>6, <3>1, SMT
  <2>8. PICK e \in Nat : e = whole
    OBVIOUS
  <2>9. ASSUME NEW i \in 1 .. l
        PROVE  twice * q[i] - full * y[i] <= e /\ full * y[i] - twice * q[i] <= e
    BY <2>2, <2>3, <2>4, <2>8, SMT
  <2>10. twice * Sum(q) - full * Sum(y) <= l * e /\ full * Sum(y) - twice * Sum(q) <= l * e
    BY <2>9, SumNear DEF Near
  <2>11. PICK x \in Int : x = 2 * s - 20000
    OBVIOUS
  <2>12. PICK u, v \in Int : u = whole * x /\ v = whole * l
    OBVIOUS
  <2>13. u <= v /\ -u <= v
    <3>1. twice * s - full * whole = u
      <4>1. (2 * whole) * s - 20000 * whole = whole * (2 * s - 20000)
        BY SMT
      <4> QED BY <2>4, <2>11, <2>12, <4>1, SMT
    <3>2. full * whole - twice * s = -u
      BY <2>4, <3>1, SMT
    <3>3. l * e = v
      BY <2>8, <2>12
    <3> QED BY <1>5, <2>6, <2>10, <3>1, <3>2, <3>3, SMT
  <2>14. \A t \in Int : t > l => whole * t > whole * l
    <3> SUFFICES ASSUME NEW t \in Int, t > l PROVE whole * t > whole * l
      OBVIOUS
    <3>1. PICK g \in Nat : t = l + 1 + g
      <4>1. t - l - 1 \in Nat /\ t = l + 1 + (t - l - 1)
        OBVIOUS
      <4> QED BY <4>1
    <3>2. whole * t = whole * l + whole + whole * g /\ whole * g >= 0
      BY <3>1
    <3> QED BY <3>2
  <2>15. x <= l /\ -x <= l
    <3>1. PICK w \in Int : w = -x
      OBVIOUS
    <3>2. whole * w = -u
      BY <2>12, <3>1
    <3>3. ~(x > l) /\ ~(w > l)
      BY <2>12, <2>13, <2>14, <3>2
    <3> QED BY <3>1, <3>3
  <2> QED BY <2>7, <2>11, <2>15, SMT
<1>10. Magnitude(Sum(weight) - 10000000) <= l * 500
  BY <1>9, SMT DEF Magnitude
<1>11. Cent \div 2 = 500 /\ 100 * One = 10000000
  BY SMT DEF Cent, One
<1>12. FiguresAddUp(PortfolioSheet(r), r) <=>
          /\ Magnitude(Sum(money) - r.portfolio_value) <= Len(lines) * (Cent \div 2)
          /\ Magnitude(Sum(weight) - 100 * One) <= Len(lines) * (Cent \div 2)
  BY <1>5, <1>6, <1>7, SMT DEF FiguresAddUp
<1>13. Len(lines) = l
  BY <1>5
<1> QED BY <1>1, <1>8, <1>10, <1>11, <1>12, <1>13, SMT

-----------------------------------------------------------------------------
(* The way of an explanation                                               *)

\* A text that keeps to a portfolio's prompt, and to names with a letter in
\* them, reconciles with its result.
LEMMA CopiesReconcile ==
  ASSUME NEW r \in ResultType, IsPortfolio(r), Consistent(r),
         NEW t, t.dates \subseteq BuildFactSheet(r).dates, t.names \subseteq BuildFactSheet(r).names,
         t.names \subseteq Lettered,
         \A n \in t.numbers : \E f \in Facts(BuildFactSheet(r)) : \E c \in f.copies : n \in c
  PROVE  Reconciles(t, r)
<1> DEFINE s == BuildFactSheet(r)
<1>1. s = PortfolioSheet(r)
  BY DEF BuildFactSheet
<1> HIDE DEF s
<1>2. Scanned(t, s) = t.numbers
  BY DEF Scanned, Removed, s
<1>3. ASSUME NEW n \in t.numbers PROVE Matches(n, Facts(s))
  <2>1. PICK f \in Facts(s) : \E c \in f.copies : n \in c
    BY <1>3 DEF s
  <2>2. Stated(f)
    BY <1>1, <2>1, SheetStated
  <2> QED BY <2>1, <2>2, StatedMatches
<1> QED BY <1>2, <1>3 DEF Reconciles, s

\* A text that is marked as copied has nothing but copies, of the prompt of a
\* result that was found consistent; the verdict is the check's, and still is,
\* since neither text nor result changes after it.
IInv ==
  /\ result \in Results
  /\ phase \in {"received", "prompted"} => ~text.copied
  /\ phase \notin {"received", "refused"} /\ IsPortfolio(result) => Consistent(result)
  /\ text.copied =>
       /\ text.dates \subseteq BuildFactSheet(result).dates
       /\ text.names \subseteq BuildFactSheet(result).names
       /\ \A n \in text.numbers :
            \E f \in Facts(BuildFactSheet(result)) : \E c \in f.copies : n \in c
  /\ \A n \in text.numbers : n.marks # {} => n.value \in Int
  /\ phase = "rejected" => ~Reconciles(text, result)
  /\ phase = "accepted" => Reconciles(text, result)

LEMMA Initially == Init => IInv
BY DEF Init, IInv, NoText

LEMMA Inductive == IInv /\ [Next]_vars => IInv'
<1> SUFFICES ASSUME IInv, [Next]_vars PROVE IInv'
  OBVIOUS
<1>1. ASSUME result' = result, text' = text, phase = "received",
             \/ phase' = "refused"
             \/ phase' = "prompted" /\ (IsPortfolio(result) => Consistent(result))
      PROVE  IInv'
  BY <1>1 DEF IInv
<1>2. ASSUME NEW numbers, NEW dates, NEW names, NEW copied, Writes(numbers, dates, names, copied),
             \A n \in numbers : n.marks # {} => n.value \in Int,
             copied => /\ dates \subseteq BuildFactSheet(result).dates
                       /\ names \subseteq BuildFactSheet(result).names
                       /\ \A n \in numbers :
                            \E f \in Facts(BuildFactSheet(result)) : \E c \in f.copies : n \in c
      PROVE  IInv'
  <2>1. /\ result' = result /\ phase = "prompted" /\ phase' = "written"
        /\ text'.numbers = numbers /\ text'.dates = dates /\ text'.names = names
        /\ text'.copied = copied
    BY <1>2 DEF Writes
  <2> QED BY <1>2, <2>1 DEF IInv
<1>3. ASSUME result' = result, text' = text, phase = "written",
             \/ phase' = "accepted" /\ Reconciles(text, result)
             \/ phase' = "rejected" /\ ~Reconciles(text, result)
      PROVE  IInv'
  BY <1>3 DEF IInv
<1>4. ASSUME phase = "prompted", NEW c \in Copies, NEW n \in c
      PROVE  /\ n.marks # {} => n.value \in Int
             /\ \E f \in Facts(BuildFactSheet(result)) : \E e \in f.copies : n \in e
  <2>1. PICK f \in Facts(BuildFactSheet(result)) : c \in f.copies
    BY <1>4 DEF Copies, Prompt
  <2>2. result \in ResultType /\ (IsPortfolio(result) => Consistent(result))
    BY <1>4, CheckAssumption DEF IInv
  <2> QED BY <1>4, <2>1, <2>2, SheetIsTrue
<1>5. CASE RefuseResult \/ BuildPrompt
  BY <1>1, <1>5 DEF RefuseResult, BuildPrompt
<1>6. CASE CopyFacts
  <2>1. PICK c \in Copies, d \in Copies, dates \in SUBSET Prompt.dates,
             names \in SUBSET Prompt.names :
          phase = "prompted" /\ Writes(c \cup d, dates, names, TRUE)
    BY <1>6 DEF CopyFacts
  <2>2. \A n \in c \cup d : n \in c \/ n \in d
    OBVIOUS
  <2> QED BY <1>2, <1>4, <2>1, <2>2 DEF Prompt
<1>7. CASE Invent
  <2>1. PICK c \in Copies, n \in Invented :
          phase = "prompted" /\ Writes(c \cup {n}, {}, {}, FALSE)
    BY <1>7 DEF Invent
  <2>2. n.value \in Int
    BY <2>1, CheckAssumption DEF Number
  <2>3. \A m \in c \cup {n} : m.marks # {} => m.value \in Int
    BY <1>4, <2>1, <2>2
  <2> QED BY <1>2, <2>1, <2>3
<1>8. CASE InventDate \/ NameAnother
  <2>1. PICK none, dates, names : none = {} /\ Writes(none, dates, names, FALSE)
    BY <1>8, Zenon DEF InventDate, NameAnother
  <2>2. \A n \in none : n.marks # {} => n.value \in Int
    BY <2>1
  <2> QED BY <1>2, <2>1, <2>2
<1>9. CASE Accept \/ Reject
  BY <1>3, <1>9 DEF Accept, Reject
<1>10. CASE UNCHANGED vars
  BY <1>10 DEF vars, IInv
<1> QED BY <1>5, <1>6, <1>7, <1>8, <1>9, <1>10 DEF Next

LEMMA Always == Spec => []IInv
BY Initially, Inductive, PTL DEF Spec

\* A text that only copies what a portfolio's prompt shows, and names assets
\* only by identifiers with a letter, is never rejected, whatever the result
\* and however it is rounded, aggregated and cut.
THEOREM PromptNeverRejected == Spec => []CopiesPass
<1>1. IInv => CopiesPass
  <2> SUFFICES ASSUME IInv, IsPortfolio(result), text.copied, text.names \subseteq Lettered,
                      phase = "rejected"
               PROVE  FALSE
    BY DEF CopiesPass
  <2>1. result \in ResultType /\ Consistent(result) /\ ~Reconciles(text, result)
    BY CheckAssumption DEF IInv
  <2> QED BY <2>1, CopiesReconcile DEF IInv
<1> QED BY <1>1, Always, PTL

\* Whatever a text says, copied or invented: accepted, its days are the horizon,
\* its percentages and amounts are rates and amounts of the result, up to
\* tolerance and rounding, and its dates are dates of the result.
THEOREM AcceptedTextIsTrue == Spec => []AcceptedIsTrue
<1>1. IInv => AcceptedIsTrue
  <2> SUFFICES ASSUME IInv, phase = "accepted" PROVE AcceptedIsTrue
    BY DEF AcceptedIsTrue
  <2>1. /\ result \in ResultType /\ (IsPortfolio(result) => Consistent(result))
        /\ Reconciles(text, result)
    BY CheckAssumption DEF IInv
  <2>2. ASSUME NEW n \in text.numbers
        PROVE  /\ UnitOf(n) = "horizon"  => n.value = result.horizon * One
               /\ UnitOf(n) = "currency" => \E w \in AmountsOf(result) : NearTo(n.value, w)
               /\ UnitOf(n) = "rate"     => \E w \in RatesOf(result) : NearTo(n.value, w)
    <3>1. Matches(n, Facts(BuildFactSheet(result)))
      BY <2>1, <2>2 DEF Reconciles, Scanned
    <3>2. n.marks # {} => n.value \in Int
      BY <2>2 DEF IInv
    <3> QED BY <2>1, <3>1, <3>2, MatchIsTrue
  <2>3. text.dates \subseteq {result.as_of} \cup result.dates \cup ToSet(result.dropped)
    BY <2>1, SheetDates DEF Reconciles
  <2> QED BY <2>2, <2>3 DEF AcceptedIsTrue, AmountsOf, RatesOf, PartsOf, NearTo
<1> QED BY <1>1, Always, PTL

\* The prompt of a portfolio accounts for all of it: its positions, the sum of
\* its amounts and of its weights, and its dropped dates with their assets, each
\* listed or counted, for any results and any limits on what is listed.
THEOREM SummaryIsWhole == Spec => []SummaryStandsForTheWhole
<1>1. IInv => SummaryStandsForTheWhole
  <2> SUFFICES ASSUME IInv, phase = "prompted", IsPortfolio(result)
               PROVE  /\ PositionsStand(Prompt, result)
                      /\ FiguresAddUp(Prompt, result)
                      /\ DropsStand(Prompt.dropped[1], result)
    BY DEF SummaryStandsForTheWhole
  <2>1. result \in ResultType /\ Len(result.missing) = Len(result.dropped) /\ Consistent(result)
    BY CheckAssumption DEF IInv
  <2>2. Prompt = PortfolioSheet(result)
    BY DEF Prompt, BuildFactSheet
  <2> QED BY <2>1, <2>2, EveryPosition, EveryFigure, EveryDrop
<1> QED BY <1>1, Always, PTL

=============================================================================
