----------------------------- MODULE SumsProofs -----------------------------
(***************************************************************************)
(* Laws of Sum.  Induction is done on sets: the least element of the set   *)
(* of counterexamples is 0 or has a predecessor that is no counterexample. *)
(***************************************************************************)
EXTENDS Sums, WellFoundedInduction, TLAPS

\* The order on Nat, as the set of pairs that WFMin speaks about.
LEMMA LessIsWellFounded == IsWellFoundedOn({p \in Nat \X Nat : p[1] < p[2]}, Nat)
BY NatLessThanWellFounded DEF OpToRel

\* Every nonempty set of natural numbers has a least element.
LEMMA LeastElement ==
  ASSUME NEW T \in SUBSET Nat, T # {}
  PROVE  \E x \in T : \A y \in T : x <= y
<1> DEFINE R == {p \in Nat \X Nat : p[1] < p[2]}
<1>1. IsWellFoundedOn(R, Nat)
  BY LessIsWellFounded
<1> HIDE DEF R
<1>2. \E x \in T : \A y \in T : ~ (<<y, x>> \in R)
  BY <1>1, WFMin
<1>3. \A x, y \in Nat : <<y, x>> \in R <=> y < x
  BY DEF R
<1>4. PICK x \in T : \A y \in T : ~ (<<y, x>> \in R)
  BY <1>2
<1>5. \A y \in T : ~ (y < x) /\ x \in Nat /\ y \in Nat
  BY <1>3, <1>4
<1>6. \A y \in T : x <= y
  BY <1>5
<1>7. QED
  BY <1>6

\* Induction on 0 .. n: a set that holds 0 and the successor (up to n) of each
\* of its elements holds all of 0 .. n.
LEMMA IntervalInduction ==
  ASSUME NEW n \in Nat, NEW G,
         0 \in G,
         \A i \in 1 .. n : i - 1 \in G => i \in G
  PROVE  \A i \in 0 .. n : i \in G
<1> DEFINE T == (0 .. n) \ G
<1> SUFFICES ASSUME T # {} PROVE FALSE
  OBVIOUS
<1>1. PICK x \in T : \A y \in T : x <= y
  <2>1. T \in SUBSET Nat
    OBVIOUS
  <2> HIDE DEF T
  <2>2. QED
    BY <2>1, LeastElement
<1>2. x \in 1 .. n
  BY x \in T
<1>3. x - 1 \notin T
  BY <1>1, <1>2
<1>4. x - 1 \in G
  BY <1>2, <1>3
<1>5. QED
  BY <1>2, <1>4

IsPartialSums(s, f, n) ==
  /\ s \in [0 .. n -> Int]
  /\ s[0] = 0
  /\ \A i \in 1 .. n : s[i] = s[i - 1] + f[i]

\* One partial sum from the one before.
LEMMA PartialSumStep ==
  ASSUME NEW n \in Nat, NEW f \in [1 .. n -> Int], NEW s, IsPartialSums(s, f, n),
         NEW i \in 1 .. n
  PROVE  s[i] = s[i - 1] + f[i] /\ s[i] \in Int /\ s[i - 1] \in Int /\ f[i] \in Int
BY DEF IsPartialSums

\* The recursive definition of PartialSums has a solution, so it means what it says.
LEMMA PartialSumsDefined ==
  ASSUME NEW n \in Nat, NEW f \in [1 .. n -> Int]
  PROVE  IsPartialSums(PartialSums(f, n), f, n)
<1> DEFINE G == {m \in 0 .. n : \E s : IsPartialSums(s, f, m)}
<1>1. 0 \in G
  <2>1. IsPartialSums([i \in 0 .. 0 |-> 0], f, 0)
    BY DEF IsPartialSums
  <2>2. QED
    BY <2>1
<1>2. ASSUME NEW m \in 1 .. n, m - 1 \in G
      PROVE  m \in G
  <2>1. PICK s : IsPartialSums(s, f, m - 1)
    BY <1>2
  <2> DEFINE t == [i \in 0 .. m |-> IF i = m THEN s[m - 1] + f[m] ELSE s[i]]
  <2>2. IsPartialSums(t, f, m)
    <3>1. /\ s \in [0 .. m - 1 -> Int] /\ s[0] = 0
          /\ \A i \in 1 .. m - 1 : s[i] = s[i - 1] + f[i]
      BY <2>1 DEF IsPartialSums
    <3>2. s[m - 1] \in Int /\ f[m] \in Int
      BY <3>1
    <3>3. t \in [0 .. m -> Int] /\ t[0] = 0
      BY <3>1, <3>2
    <3>4. \A i \in 1 .. m : t[i] = t[i - 1] + f[i]
      BY <3>1
    <3>5. QED
      BY <3>3, <3>4 DEF IsPartialSums
  <2>3. QED
    BY <2>2
<1>3. n \in G
  <2> HIDE DEF G
  <2>1. \A i \in 0 .. n : i \in G
    BY <1>1, <1>2, IntervalInduction
  <2>2. QED
    BY <2>1
<1>4. PICK s : IsPartialSums(s, f, n)
  BY <1>3
<1>5. s = [i \in 0 .. n |-> IF i = 0 THEN 0 ELSE s[i - 1] + f[i]]
  BY <1>4 DEF IsPartialSums
<1>6. PartialSums(f, n) = [i \in 0 .. n |-> IF i = 0 THEN 0 ELSE PartialSums(f, n)[i - 1] + f[i]]
  BY <1>5 DEF PartialSums
<1> DEFINE p == PartialSums(f, n)
<1>7. \A i \in 0 .. n : p[i] = s[i]
  <2> DEFINE H == {i \in 0 .. n : p[i] = s[i]}
  <2> HIDE DEF p
  <2>0. p = [i \in 0 .. n |-> IF i = 0 THEN 0 ELSE p[i - 1] + f[i]]
    BY <1>6 DEF p
  <2>1. 0 \in H
    BY <2>0, <1>4 DEF IsPartialSums
  <2>2. \A i \in 1 .. n : i - 1 \in H => i \in H
    BY <2>0, <1>4 DEF IsPartialSums
  <2>3. \A i \in 0 .. n : i \in H
    <3> HIDE DEF H
    <3> QED BY <2>1, <2>2, IntervalInduction
  <2>4. QED
    BY <2>3
<1> HIDE DEF p
<1>8. p = [i \in 0 .. n |-> IF i = 0 THEN 0 ELSE p[i - 1] + f[i]]
  BY <1>6 DEF p
<1>9. IsPartialSums(p, f, n)
  BY <1>4, <1>7, <1>8 DEF IsPartialSums
<1>10. QED
  BY <1>9 DEF p

-----------------------------------------------------------------------------

\* The sum of integers is an integer; of natural numbers, a natural number.
LEMMA SumType ==
  ASSUME NEW n \in Nat, NEW f \in [1 .. n -> Int]
  PROVE  Sum(f, n) \in Int
BY PartialSumsDefined DEF Sum, IsPartialSums

\* No value is more than the sum of all of them.
LEMMA SumBounds ==
  ASSUME NEW n \in Nat, NEW f \in [1 .. n -> Nat]
  PROVE  /\ Sum(f, n) \in Nat
         /\ \A k \in 1 .. n : f[k] <= Sum(f, n)
<1> DEFINE p == PartialSums(f, n)
<1>1. IsPartialSums(p, f, n)
  BY PartialSumsDefined
<1> HIDE DEF p
<1> DEFINE G == {i \in 0 .. n : p[i] \in Nat /\ \A k \in 1 .. i : f[k] <= p[i]}
<1>2. 0 \in G
  BY <1>1 DEF IsPartialSums
<1>3. ASSUME NEW i \in 1 .. n, i - 1 \in G
      PROVE  i \in G
  <2>1. p[i] = p[i - 1] + f[i] /\ p[i - 1] \in Nat /\ f[i] \in Nat
    BY <1>1, <1>3 DEF IsPartialSums
  <2>2. \A k \in 1 .. i : k = i \/ k \in 1 .. i - 1
    OBVIOUS
  <2>3. \A k \in 1 .. i : f[k] <= p[i]
    BY <1>3, <2>1, <2>2
  <2>4. QED
    BY <2>1, <2>3
<1>4. \A i \in 0 .. n : i \in G
  <2> HIDE DEF G
  <2> QED BY <1>2, <1>3, IntervalInduction
<1>5. n \in G
  BY <1>4
<1>6. QED
  BY <1>5 DEF Sum, p

\* Changing one value changes the sum by the difference.
LEMMA SumUpdate ==
  ASSUME NEW n \in Nat, NEW f \in [1 .. n -> Int],
         NEW k \in 1 .. n, NEW v \in Int
  PROVE  Sum([f EXCEPT ![k] = v], n) = Sum(f, n) - f[k] + v
<1> DEFINE g == [f EXCEPT ![k] = v]
           p == PartialSums(f, n)
           q == PartialSums(g, n)
<1>1. g \in [1 .. n -> Int] /\ g[k] = v /\ \A i \in 1 .. n : i # k => g[i] = f[i]
  OBVIOUS
<1> HIDE DEF g
<1>2. IsPartialSums(p, f, n) /\ IsPartialSums(q, g, n)
  BY <1>1, PartialSumsDefined
<1> HIDE DEF p, q
<1> DEFINE G == {i \in 0 .. n : q[i] = p[i] + (IF i < k THEN 0 ELSE v - f[k])}
<1>3. 0 \in G
  BY <1>2 DEF IsPartialSums
<1>4. ASSUME NEW i \in 1 .. n, i - 1 \in G
      PROVE  i \in G
  <2>1. /\ p[i] = p[i - 1] + f[i] /\ p[i - 1] \in Int /\ f[i] \in Int
        /\ q[i] = q[i - 1] + g[i] /\ q[i - 1] \in Int /\ g[i] \in Int /\ f[k] \in Int
    BY <1>1, <1>2, PartialSumStep
  <2>2. q[i - 1] = p[i - 1] + (IF i - 1 < k THEN 0 ELSE v - f[k])
    BY <1>4
  <2>3. CASE i = k
    BY <1>1, <2>1, <2>2, <2>3
  <2>4. CASE i # k
    BY <1>1, <2>1, <2>2, <2>4
  <2>5. QED
    BY <2>3, <2>4
<1>5. \A i \in 0 .. n : i \in G
  <2> HIDE DEF G
  <2> QED BY <1>3, <1>4, IntervalInduction
<1>6. q[n] = p[n] + (v - f[k])
  BY <1>5
<1>7. p[n] \in Int /\ f[k] \in Int
  BY <1>2 DEF IsPartialSums
<1>8. q[n] = p[n] - f[k] + v
  BY <1>6, <1>7
<1>9. QED
  BY <1>8 DEF Sum, p, q, g

\* The last value comes on top of the sum of the others.
LEMMA SumLast ==
  ASSUME NEW n \in Nat \ {0}, NEW f \in [1 .. n -> Int], NEW g \in [1 .. n - 1 -> Int],
         \A i \in 1 .. n - 1 : g[i] = f[i]
  PROVE  Sum(f, n) = Sum(g, n - 1) + f[n]
<1>1. PICK m \in Nat : m = n - 1
  OBVIOUS
<1> DEFINE p == PartialSums(f, n)
           q == PartialSums(g, m)
<1>2. IsPartialSums(p, f, n) /\ IsPartialSums(q, g, m)
  BY <1>1, PartialSumsDefined
<1> HIDE DEF p, q
<1> DEFINE G == {i \in 0 .. m : q[i] = p[i]}
<1>3. 0 \in G
  BY <1>1, <1>2 DEF IsPartialSums
<1>4. \A i \in 1 .. m : i - 1 \in G => i \in G
  BY <1>1, <1>2 DEF IsPartialSums
<1>5. \A i \in 0 .. m : i \in G
  <2> HIDE DEF G
  <2> QED BY <1>3, <1>4, IntervalInduction
<1>6. q[m] = p[m]
  BY <1>5
<1>7. p[n] = p[m] + f[n]
  BY <1>1, <1>2 DEF IsPartialSums
<1>8. QED
  BY <1>1, <1>6, <1>7 DEF Sum, p, q

\* The sum of zeros is zero.
LEMMA SumZero ==
  ASSUME NEW n \in Nat, NEW f \in [1 .. n -> Int], \A i \in 1 .. n : f[i] = 0
  PROVE  Sum(f, n) = 0
<1> DEFINE p == PartialSums(f, n)
<1>1. IsPartialSums(p, f, n)
  BY PartialSumsDefined
<1> HIDE DEF p
<1> DEFINE G == {i \in 0 .. n : p[i] = 0}
<1>2. 0 \in G
  BY <1>1 DEF IsPartialSums
<1>3. \A i \in 1 .. n : i - 1 \in G => i \in G
  BY <1>1 DEF IsPartialSums
<1>4. \A i \in 0 .. n : i \in G
  <2> HIDE DEF G
  <2> QED BY <1>2, <1>3, IntervalInduction
<1>5. n \in G
  BY <1>4
<1>6. QED
  BY <1>5 DEF Sum, p

\* Multiplication distributes over addition.
LEMMA MultiplyOut == \A a, b, c \in Int : c * (a + b) = c * a + c * b
OBVIOUS

\* The sum of f[i] + c * g[i] is the sum of f and c times the sum of g.
LEMMA SumLinear ==
  ASSUME NEW n \in Nat, NEW c \in Int,
         NEW f \in [1 .. n -> Int], NEW g \in [1 .. n -> Int], NEW h \in [1 .. n -> Int],
         \A i \in 1 .. n : h[i] = f[i] + c * g[i]
  PROVE  Sum(h, n) = Sum(f, n) + c * Sum(g, n)
<1> DEFINE p == PartialSums(f, n)
           q == PartialSums(g, n)
           r == PartialSums(h, n)
<1>1. IsPartialSums(p, f, n) /\ IsPartialSums(q, g, n) /\ IsPartialSums(r, h, n)
  BY PartialSumsDefined
<1> HIDE DEF p, q, r
<1> DEFINE G == {i \in 0 .. n : r[i] = p[i] + c * q[i]}
<1>2. 0 \in G
  <2>1. r[0] = 0 /\ p[0] = 0 /\ q[0] = 0
    BY <1>1 DEF IsPartialSums
  <2>2. QED
    BY <2>1
<1>3. ASSUME NEW i \in 1 .. n, i - 1 \in G
      PROVE  i \in G
  <2>1. /\ p[i] = p[i - 1] + f[i] /\ p[i - 1] \in Int /\ f[i] \in Int
        /\ q[i] = q[i - 1] + g[i] /\ q[i - 1] \in Int /\ g[i] \in Int
        /\ r[i] = r[i - 1] + h[i]
    BY <1>1, PartialSumStep
  <2> DEFINE before == c * q[i - 1]
             change == c * g[i]
             after  == c * q[i]
  <2>2. after = before + change
    BY <2>1, MultiplyOut
  <2>3. r[i - 1] = p[i - 1] + before /\ h[i] = f[i] + change
    BY <1>3
  <2>4. before \in Int /\ change \in Int
    BY <2>1
  <2>5. r[i] = p[i] + after
    <3> HIDE DEF before, change, after
    <3> QED BY <2>1, <2>2, <2>3, <2>4
  <2>6. QED
    BY <2>5
<1>4. \A i \in 0 .. n : i \in G
  <2> HIDE DEF G
  <2> QED BY <1>2, <1>3, IntervalInduction
<1>5. n \in G
  BY <1>4
<1>6. QED
  BY <1>5 DEF Sum, p, q, r

\* A common factor can be taken out.
LEMMA SumScale ==
  ASSUME NEW n \in Nat, NEW c \in Int,
         NEW g \in [1 .. n -> Int], NEW h \in [1 .. n -> Int],
         \A i \in 1 .. n : h[i] = c * g[i]
  PROVE  Sum(h, n) = c * Sum(g, n)
<1> DEFINE zero == [i \in 1 .. n |-> 0]
<1>1. zero \in [1 .. n -> Int] /\ \A i \in 1 .. n : zero[i] = 0
  OBVIOUS
<1> HIDE DEF zero
<1>2. \A i \in 1 .. n : h[i] = zero[i] + c * g[i]
  BY <1>1
<1>3. Sum(h, n) = Sum(zero, n) + c * Sum(g, n)
  BY <1>1, <1>2, SumLinear
<1>4. Sum(zero, n) = 0
  BY <1>1, SumZero
<1>5. Sum(g, n) \in Int
  BY SumType
<1>6. QED
  BY <1>3, <1>4, <1>5

\* A function that is nowhere larger has no larger sum.
LEMMA SumMonotone ==
  ASSUME NEW n \in Nat, NEW f \in [1 .. n -> Int], NEW g \in [1 .. n -> Int],
         \A i \in 1 .. n : f[i] <= g[i]
  PROVE  Sum(f, n) <= Sum(g, n)
<1> DEFINE d == [i \in 1 .. n |-> g[i] - f[i]]
<1>1. d \in [1 .. n -> Nat] /\ \A i \in 1 .. n : g[i] = f[i] + d[i]
  OBVIOUS
<1> HIDE DEF d
<1>2. PICK c \in Int : c = 1
  OBVIOUS
<1>3. \A i \in 1 .. n : g[i] = f[i] + c * d[i]
  BY <1>1, <1>2
<1>4. d \in [1 .. n -> Int]
  BY <1>1
<1>5. Sum(g, n) = Sum(f, n) + c * Sum(d, n)
  BY <1>3, <1>4, SumLinear
<1>6. Sum(d, n) \in Nat /\ Sum(f, n) \in Int
  BY <1>1, SumBounds, SumType
<1>7. QED
  BY <1>2, <1>5, <1>6

-----------------------------------------------------------------------------
(* Integer division, as the fixed-point arithmetic of the contracts uses it. *)

\* The quotient rounds down: multiplied back it is at most the dividend.
LEMMA DivisionRoundsDown ==
  ASSUME NEW x \in Nat, NEW p \in Nat \ {0}
  PROVE  x \div p \in Nat /\ p * (x \div p) <= x
OBVIOUS

\* A positive factor can be cancelled.
LEMMA CancelFactor ==
  ASSUME NEW x \in Int, NEW y \in Int, NEW p \in Nat \ {0}, p * x <= p * y
  PROVE  x <= y
OBVIOUS

\* Numbers whose multiples are bounded by q have a sum that is bounded by q's.
LEMMA SumOfQuotients ==
  ASSUME NEW n \in Nat, NEW d \in Nat \ {0}, NEW t \in Int,
         NEW e \in [1 .. n -> Int], NEW q \in [1 .. n -> Int],
         \A i \in 1 .. n : e[i] * d <= q[i],
         Sum(q, n) <= t * d
  PROVE  Sum(e, n) <= t
<1> DEFINE h == [i \in 1 .. n |-> d * e[i]]
<1>1. \A i \in 1 .. n : d * e[i] \in Int /\ d * e[i] = e[i] * d
  OBVIOUS
<1>2. h \in [1 .. n -> Int] /\ \A i \in 1 .. n : h[i] = d * e[i]
  BY <1>1
<1>3. \A i \in 1 .. n : h[i] <= q[i]
  BY <1>1
<1> HIDE DEF h
<1>4. d \in Int
  OBVIOUS
<1>5. Sum(h, n) = d * Sum(e, n)
  BY <1>2, <1>4, SumScale
<1>6. Sum(h, n) <= Sum(q, n)
  BY <1>2, <1>3, SumMonotone
<1>7. Sum(h, n) \in Int /\ Sum(q, n) \in Int /\ Sum(e, n) \in Int
  BY <1>2, SumType
<1>8. d * Sum(e, n) <= d * t
  BY <1>5, <1>6, <1>7
<1>9. QED
  BY <1>7, <1>8, CancelFactor
=============================================================================
