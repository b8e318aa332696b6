-------------------------- MODULE ProviderFetchProofs --------------------------
(***************************************************************************)
(* What GetPrices returns and how long it takes, for every page, list and  *)
(* answer of any length.  The loops over the data are recursive functions: *)
(* that these exist, and what holds of each of their values, follows from  *)
(* the least number for which it would not.                                *)
(***************************************************************************)
EXTENDS ProviderFetch, FiniteSetTheorems, SequenceTheorems, WellFoundedInduction, TLAPS

\* A set of naturals has a least element.
LEMMA LeastNatural ==
    ASSUME NEW S, S \subseteq Nat, S # {}
    PROVE  \E x \in S : \A y \in S : x <= y
<1>1. \A a, b \in Nat : a < b => <<a, b>> \in OpToRel(<, Nat)
  BY Zenon DEF OpToRel
<1>2. PICK x \in S : \A y \in S : <<y, x>> \notin OpToRel(<, Nat)
  BY NatLessThanWellFounded, WFMin
<1>3. \A y \in S : ~(y < x)
  BY <1>1, <1>2, Zenon
<1> QED
  BY <1>3

\* A set of naturals with a bound has a greatest element.
LEMMA GreatestNatural ==
    ASSUME NEW n \in Nat, NEW S, S \subseteq 1..n, S # {}
    PROVE  \E x \in S : \A y \in S : x >= y
<1> DEFINE From == {n - i : i \in S}
<1>1. \A i \in S : i \in Nat /\ n - i \in Nat
  OBVIOUS
<1>2. From \subseteq Nat /\ From # {}
  BY <1>1
<1>3. \E x \in From : \A y \in From : x <= y
  <2> HIDE DEF From
  <2> QED
    BY <1>2, LeastNatural
<1>4. PICK x \in S : \A y \in S : n - x <= n - y
  BY <1>3
<1>5. ASSUME NEW y \in S PROVE x >= y
  BY <1>1, <1>4
<1> QED
  BY <1>5

\* Induction up to n, over a set instead of a formula.
LEMMA Induction ==
    ASSUME NEW n \in Nat, NEW Good, 0 \in Good,
           \A i \in 1..n : i - 1 \in Good => i \in Good
    PROVE  0..n \subseteq Good
<1> DEFINE Bad == {i \in 0..n : i \notin Good}
<1> SUFFICES ASSUME Bad # {} PROVE FALSE
  OBVIOUS
<1>1. PICK x \in Bad : \A y \in Bad : x <= y
  <2>1. Bad \subseteq Nat
    OBVIOUS
  <2> HIDE DEF Bad
  <2> QED
    BY <2>1, LeastNatural
<1>2. x \in 1..n /\ x - 1 \in 0..n /\ x - 1 < x
  OBVIOUS
<1>3. x - 1 \notin Bad
  <2> HIDE DEF Bad
  <2> QED BY <1>1, <1>2
<1> QED
  BY <1>2, <1>3

\* A recursion over 0..n whose step is a function has a solution.
LEMMA Recursion ==
    ASSUME NEW S, NEW b \in S, NEW n \in Nat, NEW step \in [1..n -> [S -> S]]
    PROVE  \E f \in [0..n -> S] : f[0] = b /\ \A i \in 1..n : f[i] = step[i][f[i - 1]]
<1> DEFINE Solves(f, m) == f \in [0..m -> S] /\ f[0] = b /\ \A i \in 1..m : f[i] = step[i][f[i - 1]]
<1> DEFINE Good == {m \in 0..n : \E f : Solves(f, m)}
<1>1. 0 \in Good
  <2> DEFINE f == [i \in 0..0 |-> b]
  <2>1. f \in [0..0 -> S] /\ f[0] = b
    OBVIOUS
  <2>2. Solves(f, 0)
    <3> HIDE DEF f
    <3> QED BY <2>1
  <2> HIDE DEF Solves, f
  <2> QED BY <2>2
<1>2. ASSUME NEW m \in 1..n, m - 1 \in Good PROVE m \in Good
  <2>1. PICK f : Solves(f, m - 1)
    BY <1>2
  <2> DEFINE last == step[m][f[m - 1]]
  <2> DEFINE g == [i \in 0..m |-> IF i = m THEN last ELSE f[i]]
  <2>2. m - 1 \in 0..(m-1) /\ m \in Nat
    OBVIOUS
  <2>3. last \in S
    <3>1. f[m - 1] \in S
      BY <2>1, <2>2
    <3> QED BY <3>1
  <2>4. \A i \in 0..m : i # m => i \in 0..(m - 1) /\ f[i] \in S
    BY <2>1, <2>2
  <2> HIDE DEF last
  <2>5. g \in [0..m -> S]
    BY <2>3, <2>4
  <2>6. g[m] = last /\ \A i \in 0..(m - 1) : g[i] = f[i]
    BY <2>2
  <2> HIDE DEF g
  <2>7. g[0] = b
    BY <2>1, <2>2, <2>6
  <2>8. ASSUME NEW i \in 1..m PROVE g[i] = step[i][g[i - 1]]
    <3>1. i - 1 \in 0..(m - 1) /\ g[i - 1] = f[i - 1]
      BY <2>6
    <3>2. CASE i = m
      BY <2>6, <3>1, <3>2 DEF last
    <3>3. CASE i # m
      <4>1. i \in 0..(m - 1) /\ i \in 1..(m - 1)
        BY <3>3
      <4> QED BY <2>1, <2>6, <3>1, <4>1
    <3> QED BY <3>2, <3>3
  <2>9. Solves(g, m)
    BY <2>5, <2>7, <2>8
  <2> HIDE DEF Solves
  <2> QED BY <2>9
<1>3. n \in Good
  <2> HIDE DEF Good
  <2>1. \A i \in 1..n : i - 1 \in Good => i \in Good
    BY <1>2
  <2>2. n \in 0..n
    OBVIOUS
  <2> QED
    BY <1>1, <2>1, <2>2, Induction
<1> QED
  BY <1>3

--------------------------------------------------------------------------------
(* Sums over finite sets.                                                  *)

\* Induction over the subsets of a finite set, one element at a time.
LEMMA SubsetInduction ==
    ASSUME NEW S, IsFiniteSet(S), NEW Good, {} \in Good,
           \A s \in SUBSET S : s # {} /\ (\A x \in s : s \ {x} \in Good) => s \in Good
    PROVE  SUBSET S \subseteq Good
<1> DEFINE N == Cardinality(S)
<1> DEFINE Sizes == {n \in 0..N : \A s \in SUBSET S : Cardinality(s) = n => s \in Good}
<1>1. N \in Nat /\ \A s \in SUBSET S : IsFiniteSet(s) /\ Cardinality(s) \in Nat /\ Cardinality(s) <= N
  BY FS_CardinalityType, FS_Subset
<1>2. 0 \in Sizes
  <2>1. ASSUME NEW s \in SUBSET S, Cardinality(s) = 0 PROVE s \in Good
    <3>1. s = {}
      BY <1>1, <2>1, FS_EmptySet
    <3> QED
      BY <3>1
  <2>2. 0 \in 0..N
    BY <1>1
  <2> QED
    BY <2>1, <2>2
<1>3. ASSUME NEW n \in 1..N, n - 1 \in Sizes PROVE n \in Sizes
  <2> SUFFICES ASSUME NEW s \in SUBSET S, Cardinality(s) = n PROVE s \in Good
    BY <1>1
  <2>1. s # {}
    <3>1. Cardinality({}) = 0 /\ n # 0
      BY FS_EmptySet
    <3> QED
      BY <3>1
  <2>2. ASSUME NEW x \in s PROVE s \ {x} \in Good
    <3>1. Cardinality(s \ {x}) = n - 1
      BY <1>1, FS_RemoveElement
    <3> QED
      BY <1>3, <3>1
  <2> QED
    BY <2>1, <2>2
<1>4. 0..N \subseteq Sizes
  <2>1. \A n \in 1..N : n - 1 \in Sizes => n \in Sizes
    BY <1>3
  <2> HIDE DEF Sizes, N
  <2> QED
    BY <1>1, <1>2, <2>1, Induction
<1>5. ASSUME NEW s \in SUBSET S PROVE s \in Good
  <2>1. Cardinality(s) \in 0..N
    BY <1>1
  <2> HIDE DEF N
  <2> QED
    BY <1>4, <2>1
<1> QED
  BY <1>5

First(s) == CHOOSE x \in s : TRUE

\* What MapThenSumSet computes for each subset of S.
Adds(sum, f, S) ==
    sum = [s \in SUBSET S |-> IF s = {} THEN 0 ELSE f[First(s)] + sum[s \ {First(s)}]]

LEMMA AddsExists ==
    ASSUME NEW T, IsFiniteSet(T), NEW weight \in [T -> Int]
    PROVE  \E sum \in [SUBSET T -> Int] : Adds(sum, weight, T)
<1> DEFINE N == Cardinality(T) + 1
<1> DEFINE Sums == [SUBSET T -> Int]
<1> DEFINE Once(g) == [s \in SUBSET T |-> IF s = {} THEN 0 ELSE weight[First(s)] + g[s \ {First(s)}]]
<1> DEFINE step == [i \in 1..N |-> [g \in Sums |-> Once(g)]]
<1> DEFINE zero == [s \in SUBSET T |-> 0]
<1>1. N \in Nat /\ N # 0 /\ \A s \in SUBSET T : IsFiniteSet(s) /\ Cardinality(s) \in Nat /\ Cardinality(s) <= N - 1
  BY FS_CardinalityType, FS_Subset
<1>2. \A s \in SUBSET T : s # {} => First(s) \in s /\ weight[First(s)] \in Int /\ s \ {First(s)} \in SUBSET T
  BY DEF First
<1>3. zero \in Sums /\ \A g \in Sums : Once(g) \in Sums
  BY <1>2
<1> HIDE DEF N, Sums, Once, zero
<1>4. step \in [1..N -> [Sums -> Sums]]
  BY <1>3
<1> HIDE DEF step
<1>5. N \in Nat
  BY <1>1
<1>6. zero \in Sums
  BY <1>3
<1>7. \E h \in [0..N -> Sums] : h[0] = zero /\ \A i \in 1..N : h[i] = step[i][h[i - 1]]
  BY ONLY <1>4, <1>5, <1>6, Recursion, SMTT(20)
<1>8. PICK h \in [0..N -> Sums] : h[0] = zero /\ \A i \in 1..N : h[i] = step[i][h[i - 1]]
  BY <1>7, Zenon
<1> USE DEF N, Sums, Once, zero, step
<1>9. \A i \in 1..N : i - 1 \in 0..N /\ h[i - 1] \in Sums /\ h[i] = Once(h[i - 1])
  <2> SUFFICES ASSUME NEW i \in 1..N PROVE i - 1 \in 0..N /\ h[i - 1] \in Sums /\ h[i] = Once(h[i - 1])
    OBVIOUS
  <2> HIDE DEF N, Sums, Once
  <2>1. i - 1 \in 0..N
    BY <1>1
  <2> QED
    BY <1>8, <2>1
<1> DEFINE Same == {i \in 0..(N - 1) : \A s \in SUBSET T : Cardinality(s) <= i => h[i + 1][s] = h[i][s]}
<1>10. \A i \in 1..N, s \in SUBSET T :
         h[i][s] = IF s = {} THEN 0 ELSE weight[First(s)] + h[i - 1][s \ {First(s)}]
  BY <1>9
<1>11. 0 \in Same
  <2>1. ASSUME NEW s \in SUBSET T, Cardinality(s) <= 0 PROVE h[1][s] = h[0][s]
    <3>1. s = {}
      BY <1>1, <2>1, FS_EmptySet
    <3>2. 1 \in 1..N
      BY <1>1
    <3>3. h[1][s] = 0
      BY <1>10, <3>1, <3>2
    <3> QED
      BY <1>8, <3>3
  <2>2. 0 \in 0..(N - 1) /\ 0 + 1 = 1
    BY <1>1
  <2> QED
    BY <2>1, <2>2
<1>12. ASSUME NEW i \in 1..(N - 1), i - 1 \in Same PROVE i \in Same
  <2> HIDE DEF N
  <2>1. i \in 0..(N - 1) /\ i \in 1..N /\ i + 1 \in 1..N /\ (i + 1) - 1 = i /\ (i - 1) + 1 = i
    BY <1>1
  <2>2. ASSUME NEW s \in SUBSET T, Cardinality(s) <= i PROVE h[i + 1][s] = h[i][s]
    <3>1. CASE s = {}
      BY <1>10, <2>1, <3>1
    <3>2. CASE s # {}
      <4> DEFINE t == s \ {First(s)}
      <4>1. t \in SUBSET T /\ Cardinality(t) <= i - 1
        <5>1. Cardinality(t) = Cardinality(s) - 1
          BY <1>1, <1>2, <3>2, FS_RemoveElement
        <5> QED
          BY <1>1, <2>2, <5>1
      <4> HIDE DEF t
      <4>2. h[i][t] = h[i - 1][t]
        BY <1>12, <2>1, <4>1
      <4>3. h[i + 1][s] = weight[First(s)] + h[i][t] /\ h[i][s] = weight[First(s)] + h[i - 1][t]
        BY <1>10, <2>1, <3>2 DEF t
      <4> QED
        BY <4>2, <4>3
    <3> QED
      BY <3>1, <3>2
  <2> QED
    BY <2>1, <2>2
<1>13. N - 1 \in Same
  <2>1. \A i \in 1..(N - 1) : i - 1 \in Same => i \in Same
    BY <1>12
  <2> DEFINE M == N - 1
  <2>2. M \in Nat /\ M \in 0..M
    BY <1>1
  <2>3. 0 \in Same /\ \A i \in 1..M : i - 1 \in Same => i \in Same
    BY <1>11, <2>1
  <2> HIDE DEF Same, M
  <2>4. 0..M \subseteq Same
    BY <2>2, <2>3, Induction
  <2> QED
    BY <2>2, <2>4 DEF M
<1>14. h[N] \in Sums
  <2>1. N \in 0..N
    BY <1>1
  <2>2. h \in [0..N -> Sums]
    BY <1>8
  <2> HIDE DEF N, Sums
  <2> QED
    BY <2>2, <2>1
<1>15. Adds(h[N], weight, T)
  <2>1. N \in 1..N /\ (N - 1) + 1 = N /\ N - 1 \in 0..N
    BY <1>1
  <2>2. \A s \in SUBSET T : h[N][s] = h[N - 1][s]
    <3> HIDE DEF N
    <3> QED
      BY <1>1, <1>13, <2>1
  <2>3. h[N] \in Sums
    BY <1>14
  <2>4. \A s \in SUBSET T : h[N][s] = IF s = {} THEN 0 ELSE weight[First(s)] + h[N][s \ {First(s)}]
    BY <1>10, <2>1, <2>2
  <2> DEFINE sum == h[N]
  <2> HIDE DEF sum
  <2>5. sum \in Sums /\ \A s \in SUBSET T : sum[s] = IF s = {} THEN 0 ELSE weight[First(s)] + sum[s \ {First(s)}]
    BY <2>3, <2>4 DEF sum
  <2>6. Adds(sum, weight, T)
    BY <2>5 DEF Adds
  <2> QED
    BY <2>6 DEF sum
<1> QED
  BY <1>15, <1>14

\* The recursion has one solution, whichever larger set it is computed for.
LEMMA AddsAgree ==
    ASSUME NEW S, IsFiniteSet(S), NEW T, IsFiniteSet(T), NEW f, NEW g, NEW sum, NEW total,
           Adds(sum, f, S), Adds(total, g, T),
           NEW R, R \subseteq S, R \subseteq T, \A x \in R : f[x] = g[x]
    PROVE  sum[R] = total[R]
<1> DEFINE Good == {s \in SUBSET R : sum[s] = total[s]}
<1>1. \A s \in SUBSET R :
        /\ sum[s] = IF s = {} THEN 0 ELSE f[First(s)] + sum[s \ {First(s)}]
        /\ total[s] = IF s = {} THEN 0 ELSE g[First(s)] + total[s \ {First(s)}]
  BY DEF Adds
<1>2. {} \in Good
  BY <1>1
<1>3. ASSUME NEW s \in SUBSET R, s # {}, \A x \in s : s \ {x} \in Good PROVE s \in Good
  <2>1. First(s) \in s
    BY <1>3 DEF First
  <2>2. sum[s \ {First(s)}] = total[s \ {First(s)}] /\ f[First(s)] = g[First(s)]
    BY <1>3, <2>1
  <2> QED
    BY <1>1, <1>3, <2>2
<1>4. IsFiniteSet(R)
  BY FS_Subset
<1>5. SUBSET R \subseteq Good
  <2>1. \A s \in SUBSET R : s # {} /\ (\A x \in s : s \ {x} \in Good) => s \in Good
    BY <1>3
  <2> HIDE DEF Good
  <2> QED
    BY <1>2, <1>4, <2>1, SubsetInduction
<1> QED
  BY <1>5

LEMMA AddsTyped ==
    ASSUME NEW S, IsFiniteSet(S), NEW weight \in [S -> Int], NEW sum, Adds(sum, weight, S),
           NEW s \in SUBSET S
    PROVE  sum[s] \in Int
<1>1. PICK total \in [SUBSET S -> Int] : Adds(total, weight, S)
  BY AddsExists
<1>2. sum[s] = total[s]
  BY <1>1, AddsAgree
<1> QED
  BY <1>1, <1>2

\* The order in which the elements are added makes no difference.
LEMMA AddsAny ==
    ASSUME NEW S, IsFiniteSet(S), NEW weight \in [S -> Int], NEW sum, Adds(sum, weight, S),
           NEW last \in S
    PROVE  sum[S] = weight[last] + sum[S \ {last}]
<1>1. ASSUME NEW s \in SUBSET S PROVE sum[s] \in Int
  BY AddsTyped
<1>2. \A s \in SUBSET S : s # {} => First(s) \in s /\ sum[s] = weight[First(s)] + sum[s \ {First(s)}]
  BY DEF Adds, First
<1> DEFINE Good == {s \in SUBSET S : \A x \in s : sum[s] = weight[x] + sum[s \ {x}]}
<1>3. {} \in Good
  OBVIOUS
<1>4. ASSUME NEW s \in SUBSET S, s # {}, \A x \in s : s \ {x} \in Good PROVE s \in Good
  <2> SUFFICES ASSUME NEW x \in s, x # First(s) PROVE sum[s] = weight[x] + sum[s \ {x}]
    BY <1>2
  <2> DEFINE c == First(s)
  <2> DEFINE rest == s \ {x, c}
  <2>1. c \in s /\ sum[s] = weight[c] + sum[s \ {c}]
    BY <1>2, <1>4
  <2> HIDE DEF c
  <2>2. (s \ {c}) \ {x} = rest /\ (s \ {x}) \ {c} = rest /\ x \in s \ {c} /\ c \in s \ {x}
    BY <2>1 DEF c
  <2>3. sum[s \ {c}] = weight[x] + sum[rest] /\ sum[s \ {x}] = weight[c] + sum[rest]
    BY <1>4, <2>1, <2>2
  <2>4. weight[x] \in Int /\ weight[c] \in Int /\ sum[rest] \in Int
    BY <1>1, <2>1
  <2> QED
    BY <2>1, <2>3, <2>4
<1>5. SUBSET S \subseteq Good
  <2>1. \A s \in SUBSET S : s # {} /\ (\A x \in s : s \ {x} \in Good) => s \in Good
    BY <1>4
  <2> HIDE DEF Good
  <2> QED
    BY <1>3, <2>1, SubsetInduction
<1> QED
  BY <1>5

SumOf(f) == MapThenSumSet(LAMBDA x : f[x], DOMAIN f)

LEMMA SumUnfolds ==
    ASSUME NEW S, IsFiniteSet(S), NEW weight \in [S -> Int]
    PROVE  \E sum : Adds(sum, weight, S) /\ SumOf(weight) = sum[S]
<1> DEFINE sum == CHOOSE iter : iter = [s \in SUBSET S |->
                     IF s = {} THEN 0
                     ELSE weight[CHOOSE x \in s : TRUE] + iter[s \ {CHOOSE x \in s : TRUE}]]
<1>1. SumOf(weight) = sum[S]
  <2>1. DOMAIN weight = S
    OBVIOUS
  <2> QED
    BY <2>1 DEF SumOf, MapThenSumSet, MapThenFoldSet
<1>2. Adds(sum, weight, S)
  <2>1. \E iter : Adds(iter, weight, S)
    BY AddsExists
  <2>2. \E iter : iter = [s \in SUBSET S |->
                     IF s = {} THEN 0
                     ELSE weight[CHOOSE x \in s : TRUE] + iter[s \ {CHOOSE x \in s : TRUE}]]
    BY <2>1 DEF Adds, First
  <2>3. sum = [s \in SUBSET S |->
                     IF s = {} THEN 0
                     ELSE weight[CHOOSE x \in s : TRUE] + sum[s \ {CHOOSE x \in s : TRUE}]]
    BY <2>2
  <2> QED
    BY <2>3 DEF Adds, First
<1> QED
  BY <1>1, <1>2

LEMMA SumEmpty ==
    ASSUME NEW weight \in [{} -> Int]
    PROVE  SumOf(weight) = 0
<1>1. PICK sum : Adds(sum, weight, {}) /\ SumOf(weight) = sum[{}]
  BY SumUnfolds, FS_EmptySet
<1>2. sum[{}] = 0
  BY <1>1 DEF Adds
<1> QED
  BY <1>1, <1>2

LEMMA SumAdd ==
    ASSUME NEW S, NEW T, NEW x, NEW f, NEW g,
           IsFiniteSet(S), x \notin S, T = S \union {x},
           f \in [S -> Int], g \in [T -> Int], \A y \in S : g[y] = f[y]
    PROVE  SumOf(g) = SumOf(f) + g[x] /\ SumOf(f) \in Int
<1>1. IsFiniteSet(T) /\ T \ {x} = S /\ x \in T /\ T \in SUBSET T /\ S \in SUBSET T
  BY FS_AddElement
<1>2. g[x] \in Int
  OBVIOUS
<1>3. PICK sum : Adds(sum, f, S) /\ SumOf(f) = sum[S]
  BY SumUnfolds
<1>4. PICK total : Adds(total, g, T) /\ SumOf(g) = total[T]
  BY <1>1, <1>2, SumUnfolds
<1>5. total[T] = g[x] + total[T \ {x}]
  <2>1. IsFiniteSet(T) /\ x \in T /\ g \in [T -> Int] /\ Adds(total, g, T)
    BY <1>1, <1>4
  <2> QED
    BY ONLY <2>1, AddsAny
<1>6. sum[S] = total[S]
  BY <1>1, <1>3, <1>4, AddsAgree
<1>7. sum[S] \in Int
  BY <1>3, AddsTyped
<1>8. total[T \ {x}] = sum[S]
  BY <1>1, <1>6
<1> QED
  BY ONLY <1>2, <1>3, <1>4, <1>5, <1>7, <1>8

LEMMA SumUnique ==
    ASSUME NEW S, IsFiniteSet(S), NEW weight \in [S -> Int], NEW sum, Adds(sum, weight, S)
    PROVE  sum[S] = SumOf(weight)
<1>1. PICK total : Adds(total, weight, S) /\ SumOf(weight) = total[S]
  BY SumUnfolds
<1>2. sum[S] = total[S]
  BY <1>1, AddsAgree
<1> QED
  BY <1>1, <1>2

\* The weights of the indices up to i.
Upto(weight, i) == [k \in {j \in DOMAIN weight : j <= i} |-> weight[k]]

\* One index more adds its weight.
LEMMA SumUpto ==
    ASSUME NEW S, IsFiniteSet(S), S \subseteq Int, NEW weight \in [S -> Int], NEW i \in S
    PROVE  SumOf(Upto(weight, i)) = SumOf(Upto(weight, i - 1)) + weight[i]
           /\ SumOf(Upto(weight, i - 1)) \in Int
<1> DEFINE before == {j \in S : j <= i - 1}
<1> DEFINE all == {j \in S : j <= i}
<1> DEFINE f == Upto(weight, i - 1)
<1> DEFINE g == Upto(weight, i)
<1>1. all = before \union {i} /\ i \notin before
  <2>1. i \in Int /\ i \in S /\ \A j \in S : j \in Int
    OBVIOUS
  <2>2. \A j \in S : j <= i <=> j <= i - 1 \/ j = i
    BY ONLY <2>1
  <2>3. ~(i <= i - 1) /\ i <= i
    BY ONLY <2>1
  <2>4. ASSUME NEW j PROVE j \in all <=> j \in before \union {i}
    BY ONLY <2>1, <2>2
  <2>5. i \notin before
    BY ONLY <2>3
  <2> HIDE DEF all, before
  <2> QED
    BY ONLY <2>4, <2>5
<1>2. IsFiniteSet(before)
  BY FS_Subset
<1>3. f = [k \in before |-> weight[k]] /\ g = [k \in all |-> weight[k]]
  BY DEF Upto
<1>4. before \subseteq S /\ all \subseteq S
  OBVIOUS
<1> HIDE DEF before, all, f, g
<1>5. f \in [before -> Int]
  BY <1>3, <1>4
<1>6. g \in [all -> Int]
  BY <1>3, <1>4
<1>7. \A k \in before : g[k] = f[k]
  BY <1>1, <1>3
<1>8. g[i] = weight[i]
  BY <1>1, <1>3
<1>9. SumOf(g) = SumOf(f) + g[i] /\ SumOf(f) \in Int
  BY ONLY <1>1, <1>2, <1>5, <1>6, <1>7, SumAdd
<1> QED
  BY <1>8, <1>9 DEF f, g

--------------------------------------------------------------------------------
(* averageValid.                                                           *)

\* What the loop has after each of the prices.
LEMMA TotalsLoop ==
    ASSUME NEW prices \in Seq(Prices)
    PROVE  \E total \in [0..Len(prices) -> Nat \X Nat] :
             /\ total[0] = <<0, 0>>
             /\ \A i \in 1..Len(prices) : total[i] = addPrice(total[i - 1], prices[i])
             /\ totalValid(prices) = total[Len(prices)]
<1> DEFINE N == Len(prices)
<1> DEFINE S == Nat \X Nat
<1> DEFINE Body(f, i) == IF i = 0 THEN <<0, 0>> ELSE addPrice(f[i - 1], prices[i])
<1> DEFINE total == CHOOSE f : f = [i \in 0..N |-> Body(f, i)]
<1> DEFINE step == [i \in 1..N |-> [p \in S |-> addPrice(p, prices[i])]]
<1>1. totalValid(prices) = total[N]
  BY DEF totalValid
<1>2. N \in Nat /\ <<0, 0>> \in S /\ \A i \in 1..N : prices[i] \in Prices
  OBVIOUS
<1>3. ASSUME NEW i \in 1..N, NEW p \in S PROVE addPrice(p, prices[i]) \in S
  <2>1. prices[i] \in Prices
    BY <1>2
  <2> QED
    BY <2>1 DEF addPrice, Prices
<1> HIDE DEF S, N
<1>4. step \in [1..N -> [S -> S]]
  BY <1>3
<1>5. PICK f \in [0..N -> S] : f[0] = <<0, 0>> /\ \A i \in 1..N : f[i] = step[i][f[i - 1]]
  <2> DEFINE zero == <<0, 0>>
  <2>1. N \in Nat /\ zero \in S
    BY <1>2
  <2> HIDE DEF step, zero
  <2>2. \E f \in [0..N -> S] : f[0] = zero /\ \A i \in 1..N : f[i] = step[i][f[i - 1]]
    BY <1>4, <2>1, Recursion, SMTT(20)
  <2> QED
    BY <2>2 DEF zero
<1>6. \A i \in 1..N : f[i] = addPrice(f[i - 1], prices[i])
  <2> SUFFICES ASSUME NEW i \in 1..N PROVE f[i] = addPrice(f[i - 1], prices[i])
    OBVIOUS
  <2>1. i - 1 \in 0..N
    BY <1>2
  <2>2. f[i - 1] \in S /\ f[i] = step[i][f[i - 1]]
    BY <1>5, <2>1
  <2> QED
    BY <2>2
<1>7. f = [i \in 0..N |-> Body(f, i)]
  <2>1. \A i \in 0..N : f[i] = Body(f, i)
    BY <1>2, <1>5, <1>6
  <2> HIDE DEF Body
  <2> QED
    BY <2>1
<1>8. total = [i \in 0..N |-> Body(total, i)]
  <2> HIDE DEF Body
  <2> QED
    BY <1>7
<1> HIDE DEF total
<1>9. total \in [0..N -> S] /\ total[0] = <<0, 0>>
      /\ \A i \in 1..N : total[i] = addPrice(total[i - 1], prices[i])
  <2>1. \A i \in 0..N : total[i] = Body(total, i)
    <3> HIDE DEF Body
    <3> QED
      BY <1>8
  <2>2. 0 \in 0..N /\ \A i \in 1..N : i \in 0..N /\ i - 1 \in 0..N /\ i # 0
    BY <1>2
  <2>3. total[0] = <<0, 0>> /\ \A i \in 1..N : total[i] = addPrice(total[i - 1], prices[i])
    BY <2>1, <2>2
  <2> DEFINE Good == {i \in 0..N : total[i] \in S}
  <2>4. 0..N \subseteq Good
    <3>1. 0 \in Good
      BY <1>2, <2>2, <2>3
    <3>2. \A i \in 1..N : i - 1 \in Good => i \in Good
      BY <1>3, <2>2, <2>3
    <3> HIDE DEF Good
    <3> QED
      BY <1>2, <3>1, <3>2, Induction
  <2>5. total \in [0..N -> S]
    <3>1. DOMAIN total = 0..N /\ total = [i \in 0..N |-> total[i]]
      <4> HIDE DEF Body
      <4> QED
        BY <1>8
    <3> QED
      BY <2>4, <3>1
  <2> QED
    BY <2>3, <2>5
<1> QED
  BY <1>1, <1>9 DEF S, N

\* A total of at least one price is positive.
LEMMA TotalPositive ==
    ASSUME NEW prices \in Seq(Prices)
    PROVE  /\ totalValid(prices) \in Nat \X Nat
           /\ totalValid(prices)[2] # 0 => totalValid(prices)[1] > 0
<1> DEFINE N == Len(prices)
<1>1. PICK total \in [0..N -> Nat \X Nat] :
             /\ total[0] = <<0, 0>>
             /\ \A i \in 1..N : total[i] = addPrice(total[i - 1], prices[i])
             /\ totalValid(prices) = total[N]
  BY TotalsLoop
<1>2. N \in Nat /\ N \in 0..N /\ 0 \in 0..N /\ \A i \in 1..N : prices[i] \in Prices
  OBVIOUS
<1> DEFINE Good == {i \in 0..N : total[i][2] # 0 => total[i][1] > 0}
<1> HIDE DEF N
<1>3. 0 \in Good
  BY <1>1, <1>2
<1>4. ASSUME NEW i \in 1..N, i - 1 \in Good PROVE i \in Good
  <2>1. i \in 0..N /\ i - 1 \in 0..N /\ prices[i] \in Prices
    BY <1>2
  <2>2. total[i - 1] \in Nat \X Nat /\ total[i] = addPrice(total[i - 1], prices[i])
    BY <1>1, <2>1
  <2>3. CASE prices[i] # NonFinite /\ prices[i] > 0
    <3>1. total[i][1] = total[i - 1][1] + prices[i]
      BY <2>2, <2>3 DEF addPrice
    <3>2. total[i - 1][1] \in Nat /\ prices[i] \in Int /\ prices[i] > 0
      BY <2>1, <2>2, <2>3 DEF Prices
    <3>3. total[i][1] > 0
      BY <3>1, <3>2
    <3> QED
      BY <2>1, <3>3
  <2>4. CASE ~(prices[i] # NonFinite /\ prices[i] > 0)
    <3>1. total[i] = total[i - 1]
      BY <2>2, <2>4 DEF addPrice
    <3> QED
      BY <1>4, <2>1, <3>1
  <2> QED
    BY <2>3, <2>4
<1>5. N \in Good
  <2>1. \A i \in 1..N : i - 1 \in Good => i \in Good
    BY <1>4
  <2> HIDE DEF Good
  <2> QED
    BY <1>2, <1>3, <2>1, Induction
<1> QED
  BY <1>1, <1>2, <1>5

\* No average is of nothing, and none is zero.
LEMMA AveragePositive ==
    ASSUME NEW prices \in Seq(Prices), averageValid(prices) # Error
    PROVE  averageValid(prices) \in (Nat \ {0}) \X (Nat \ {0})
<1> DEFINE total == totalValid(prices)
<1>1. total \in Nat \X Nat /\ (total[2] # 0 => total[1] > 0)
  BY TotalPositive
<1>2. averageValid(prices) = total /\ total[2] # 0
  BY DEF averageValid
<1> HIDE DEF total
<1>3. total = <<total[1], total[2]>> /\ total[1] \in Nat \ {0} /\ total[2] \in Nat \ {0}
  BY <1>1, <1>2
<1> QED
  BY <1>2, <1>3

\* A number is finite.
LEMMA NumbersArePrices ==
    ASSUME NEW B \in Nat, NEW prices \in Seq(0..B)
    PROVE  prices \in Seq(Prices) /\ \A i \in 1..Len(prices) : prices[i] # NonFinite
<1>1. NonFinite \notin Int
  BY AnswersAssumption
<1>2. \A i \in 1..Len(prices) : prices[i] \in 0..B /\ prices[i] \in Int
  OBVIOUS
<1> QED
  BY <1>1, <1>2 DEF Prices

\* Numbers up to B add up to at most B for each of them, and one that is positive counts.
LEMMA TotalBounded ==
    ASSUME NEW B \in Nat, NEW prices \in Seq(0..B)
    PROVE  /\ totalValid(prices) \in Nat \X Nat
           /\ totalValid(prices)[1] <= Len(prices) * B
           /\ (\E i \in 1..Len(prices) : prices[i] > 0) => totalValid(prices)[2] > 0
<1> DEFINE N == Len(prices)
<1>1. PICK total \in [0..N -> Nat \X Nat] :
             /\ total[0] = <<0, 0>>
             /\ \A i \in 1..N : total[i] = addPrice(total[i - 1], prices[i])
             /\ totalValid(prices) = total[N]
  BY TotalsLoop, NumbersArePrices
<1>2. N \in Nat /\ N \in 0..N /\ 0 \in 0..N
      /\ \A i \in 1..N : prices[i] \in 0..B /\ prices[i] # NonFinite
  BY NumbersArePrices
<1> DEFINE Good == {i \in 0..N : /\ total[i][1] <= i * B
                                 /\ (\E j \in 1..i : prices[j] > 0) => total[i][2] > 0}
<1> HIDE DEF N
<1>3. 0 \in Good
  BY <1>1, <1>2
<1>4. ASSUME NEW i \in 1..N, i - 1 \in Good PROVE i \in Good
  <2>1. i \in 0..N /\ i - 1 \in 0..N /\ prices[i] \in 0..B /\ prices[i] # NonFinite /\ i \in Nat
    BY <1>2
  <2>2. total[i - 1] \in Nat \X Nat /\ total[i] = addPrice(total[i - 1], prices[i])
    BY <1>1, <2>1
  <2>3. total[i - 1][1] <= (i - 1) * B /\ ((\E j \in 1..(i - 1) : prices[j] > 0) => total[i - 1][2] > 0)
    BY <1>4
  <2>4. (i - 1) * B + B = i * B
    BY <2>1
  <2>5. CASE prices[i] > 0
    <3> DEFINE n == (i - 1) * B
    <3> DEFINE m == i * B
    <3>1. total[i] = <<total[i - 1][1] + prices[i], total[i - 1][2] + 1>>
      BY <2>1, <2>2, <2>5 DEF addPrice
    <3>2. n \in Nat /\ m \in Nat /\ total[i - 1][1] <= n /\ n + B = m
      BY <2>1, <2>3, <2>4
    <3> DEFINE a == total[i - 1][1]
    <3> DEFINE b == total[i - 1][2]
    <3> DEFINE c == prices[i]
    <3>3. a \in Nat /\ b \in Nat /\ c \in 0..B
      BY <2>1, <2>2
    <3>4. a <= n /\ total[i] = <<a + c, b + 1>>
      BY <3>1, <3>2
    <3> HIDE DEF n, m, a, b, c
    <3>5. a + c <= m /\ b + 1 > 0
      BY <3>2, <3>3, <3>4
    <3>6. total[i][1] <= m /\ total[i][2] > 0
      BY ONLY <3>4, <3>5
    <3> QED
      BY <2>1, <3>6 DEF m
  <2>6. CASE ~(prices[i] > 0)
    <3> DEFINE n == (i - 1) * B
    <3> DEFINE m == i * B
    <3>1. total[i] = total[i - 1]
      BY <2>1, <2>2, <2>6 DEF addPrice
    <3>2. n \in Nat /\ m \in Nat /\ total[i - 1][1] <= n /\ n + B = m
      BY <2>1, <2>3, <2>4
    <3> HIDE DEF n, m
    <3>3. total[i][1] <= m
      BY <2>2, <3>1, <3>2
    <3>4. (\E j \in 1..i : prices[j] > 0) => \E j \in 1..(i - 1) : prices[j] > 0
      BY <2>1, <2>6
    <3> QED
      BY <2>1, <2>3, <3>1, <3>3, <3>4 DEF m
  <2> QED
    BY <2>5, <2>6
<1>5. N \in Good
  <2>1. \A i \in 1..N : i - 1 \in Good => i \in Good
    BY <1>4
  <2> HIDE DEF Good
  <2> QED
    BY <1>2, <1>3, <2>1, Induction
<1> QED
  BY <1>1, <1>2, <1>5 DEF N

--------------------------------------------------------------------------------
(* getOrders.                                                              *)

\* What the loop has after each of the answer's offers.
LEMMA OrdersLoop ==
    ASSUME NEW answer, answer.data \in Seq(Prices \union {Unparsable})
    PROVE  \E response \in [0..Len(answer.data) -> Seq(Prices)] :
             /\ response[0] = <<>>
             /\ \A i \in 1..Len(answer.data) :
                  response[i] = appendPrice(response[i - 1], answer.data[i])
             /\ orders(answer) = IF ~ answer.success \/ response[Len(answer.data)] = <<>>
                                 THEN Error ELSE response[Len(answer.data)]
<1> DEFINE N == Len(answer.data)
<1> DEFINE S == Seq(Prices)
<1> DEFINE Body(f, i) == IF i = 0 THEN <<>> ELSE appendPrice(f[i - 1], answer.data[i])
<1> DEFINE response == CHOOSE f : f = [i \in 0..N |-> Body(f, i)]
<1> DEFINE step == [i \in 1..N |-> [p \in S |-> appendPrice(p, answer.data[i])]]
<1>1. orders(answer) = IF ~ answer.success \/ response[N] = <<>> THEN Error ELSE response[N]
  BY DEF orders
<1>2. N \in Nat /\ <<>> \in S /\ \A i \in 1..N : answer.data[i] \in Prices \union {Unparsable}
  OBVIOUS
<1>3. ASSUME NEW i \in 1..N, NEW p \in S PROVE appendPrice(p, answer.data[i]) \in S
  <2>1. answer.data[i] \in Prices \union {Unparsable}
    BY <1>2
  <2> QED
    BY <2>1 DEF appendPrice
<1> HIDE DEF S, N
<1>4. step \in [1..N -> [S -> S]]
  BY <1>3
<1>5. PICK f \in [0..N -> S] : f[0] = <<>> /\ \A i \in 1..N : f[i] = step[i][f[i - 1]]
  <2> DEFINE zero == <<>>
  <2>1. N \in Nat /\ zero \in S
    BY <1>2
  <2> HIDE DEF step, zero
  <2>2. \E f \in [0..N -> S] : f[0] = zero /\ \A i \in 1..N : f[i] = step[i][f[i - 1]]
    BY <1>4, <2>1, Recursion, SMTT(20)
  <2> QED
    BY <2>2 DEF zero
<1>6. \A i \in 1..N : f[i] = appendPrice(f[i - 1], answer.data[i])
  <2> SUFFICES ASSUME NEW i \in 1..N PROVE f[i] = appendPrice(f[i - 1], answer.data[i])
    OBVIOUS
  <2>1. i - 1 \in 0..N
    BY <1>2
  <2>2. f[i - 1] \in S /\ f[i] = step[i][f[i - 1]]
    BY <1>5, <2>1
  <2> QED
    BY <2>2
<1>7. f = [i \in 0..N |-> Body(f, i)]
  <2>1. \A i \in 0..N : f[i] = Body(f, i)
    BY <1>2, <1>5, <1>6
  <2> HIDE DEF Body
  <2> QED
    BY <2>1
<1>8. response = [i \in 0..N |-> Body(response, i)]
  <2> HIDE DEF Body
  <2> QED
    BY <1>7
<1> HIDE DEF response
<1>9. /\ response \in [0..N -> S] /\ response[0] = <<>>
      /\ \A i \in 1..N : response[i] = appendPrice(response[i - 1], answer.data[i])
  <2>1. \A i \in 0..N : response[i] = Body(response, i)
    <3> HIDE DEF Body
    <3> QED
      BY <1>8
  <2>2. 0 \in 0..N /\ \A i \in 1..N : i \in 0..N /\ i - 1 \in 0..N /\ i # 0
    BY <1>2
  <2>3. response[0] = <<>> /\ \A i \in 1..N : response[i] = appendPrice(response[i - 1], answer.data[i])
    BY <2>1, <2>2
  <2> DEFINE Good == {i \in 0..N : response[i] \in S}
  <2>4. 0..N \subseteq Good
    <3>1. 0 \in Good
      BY <1>2, <2>2, <2>3
    <3>2. \A i \in 1..N : i - 1 \in Good => i \in Good
      BY <1>3, <2>2, <2>3
    <3> HIDE DEF Good
    <3> QED
      BY <1>2, <3>1, <3>2, Induction
  <2>5. response \in [0..N -> S]
    <3>1. DOMAIN response = 0..N /\ response = [i \in 0..N |-> response[i]]
      <4> HIDE DEF Body
      <4> QED
        BY <1>8
    <3> QED
      BY <2>4, <3>1
  <2> QED
    BY <2>3, <2>5
<1> QED
  BY <1>1, <1>9 DEF S, N

\* The answer's orders are prices or an error.
LEMMA OrdersTyped ==
    ASSUME NEW answer, answer.data \in Seq(Prices \union {Unparsable})
    PROVE  orders(answer) \in Seq(Prices) \union {Error}
<1>1. PICK response \in [0..Len(answer.data) -> Seq(Prices)] :
             orders(answer) = IF ~ answer.success \/ response[Len(answer.data)] = <<>>
                              THEN Error ELSE response[Len(answer.data)]
  BY OrdersLoop
<1>2. Len(answer.data) \in 0..Len(answer.data)
  OBVIOUS
<1> QED
  BY <1>1, <1>2

\* If every offer has a price, the orders are the offers.
LEMMA OrdersComplete ==
    ASSUME NEW answer, answer.data \in Seq(Prices), answer.success, answer.data # <<>>
    PROVE  orders(answer) = answer.data
<1> DEFINE data == answer.data
<1> DEFINE N == Len(data)
<1>1. data \in Seq(Prices) /\ data \in Seq(Prices \union {Unparsable}) /\ N \in Nat
  OBVIOUS
<1>2. PICK response \in [0..N -> Seq(Prices)] :
             /\ response[0] = <<>>
             /\ \A i \in 1..N : response[i] = appendPrice(response[i - 1], data[i])
             /\ orders(answer) = IF ~ answer.success \/ response[N] = <<>>
                                 THEN Error ELSE response[N]
  BY <1>1, OrdersLoop
<1>3. ASSUME NEW i \in 1..N PROVE data[i] \in Prices /\ data[i] # Unparsable
  BY <1>1, AnswersAssumption
<1> DEFINE Good == {i \in 0..N : Len(response[i]) = i /\ \A j \in 1..i : response[i][j] = data[j]}
<1> HIDE DEF data, N
<1>4. 0 \in Good
  BY <1>1, <1>2
<1>5. ASSUME NEW i \in 1..N, i - 1 \in Good PROVE i \in Good
  <2> DEFINE before == response[i - 1]
  <2>1. i \in 0..N /\ i - 1 \in 0..N /\ i \in Nat
    BY <1>1
  <2>2. before \in Seq(Prices) /\ response[i] = appendPrice(before, data[i])
    BY <1>2, <2>1
  <2>3. Len(before) = i - 1 /\ \A j \in 1..(i - 1) : before[j] = data[j]
    BY <1>5
  <2> HIDE DEF before
  <2>4. response[i] = Append(before, data[i])
    BY <1>3, <2>2 DEF appendPrice
  <2>5. Len(response[i]) = i
    BY <1>3, <2>1, <2>2, <2>3, <2>4
  <2>6. ASSUME NEW j \in 1..i PROVE response[i][j] = data[j]
    BY <1>3, <2>1, <2>2, <2>3, <2>4
  <2> QED
    BY <2>1, <2>5, <2>6
<1>6. N \in Good
  <2>1. \A i \in 1..N : i - 1 \in Good => i \in Good
    BY <1>5
  <2> HIDE DEF Good
  <2>2. 0..N \subseteq Good
    BY <1>1, <1>4, <2>1, Induction, Zenon
  <2>3. N \in 0..N
    BY <1>1
  <2> QED
    BY <2>2, <2>3, Zenon
<1>7. response[N] = data
  <2>1. N \in 0..N /\ N = Len(data)
    BY <1>1 DEF N
  <2>2. response[N] \in Seq(Prices) /\ Len(response[N]) = N /\ \A j \in 1..N : response[N][j] = data[j]
    BY <1>2, <1>6, <2>1
  <2> QED
    BY <1>1, <2>1, <2>2, SeqEqual
<1> QED
  BY <1>2, <1>7 DEF data

--------------------------------------------------------------------------------
(* parseLocalizedNumber.                                                   *)

\* What has been read after each character of a text.
LEMMA AmountLoop ==
    ASSUME NEW raw \in Seq(Characters)
    PROVE  \E read \in [0..Len(raw) -> Nat \X (Nat \ {0})] :
             /\ read[0] = <<0, 1>>
             /\ \A i \in 1..Len(raw) : read[i] = readCharacter(read[i - 1], raw, i)
             /\ amount(raw) = read[Len(raw)]
<1> DEFINE N == Len(raw)
<1> DEFINE S == Nat \X (Nat \ {0})
<1> DEFINE Body(f, i) == IF i = 0 THEN <<0, 1>> ELSE readCharacter(f[i - 1], raw, i)
<1> DEFINE read == CHOOSE f : f = [i \in 0..N |-> Body(f, i)]
<1> DEFINE step == [i \in 1..N |-> [p \in S |-> readCharacter(p, raw, i)]]
<1>1. amount(raw) = read[N]
  BY DEF amount
<1>2. N \in Nat /\ <<0, 1>> \in S
  OBVIOUS
<1>3. ASSUME NEW i \in 1..N, NEW p \in S PROVE readCharacter(p, raw, i) \in S
  <2>1. CASE raw[i] \in 0..9
    <3>1. 10 * p[1] + raw[i] \in Nat /\ 10 * p[2] \in Nat \ {0} /\ p[2] \in Nat \ {0}
      <4> DEFINE a == p[1]
      <4> DEFINE b == p[2]
      <4> DEFINE c == raw[i]
      <4>1. a \in Nat /\ b \in Nat \ {0}
        OBVIOUS
      <4>2. c \in 0..9
        BY ONLY <2>1
      <4> HIDE DEF a, b, c
      <4>3. 10 * a + c \in Nat
        BY ONLY <4>1, <4>2
      <4>4. 10 * b \in Nat \ {0}
        BY ONLY <4>1
      <4> QED
        BY <4>1, <4>3, <4>4 DEF a, b, c
    <3> QED
      BY <2>1, <3>1 DEF readCharacter
  <2>2. CASE raw[i] \notin 0..9
    BY <2>2 DEF readCharacter
  <2> QED
    BY <2>1, <2>2
<1> HIDE DEF S, N
<1>4. step \in [1..N -> [S -> S]]
  BY <1>3
<1>5. PICK f \in [0..N -> S] : f[0] = <<0, 1>> /\ \A i \in 1..N : f[i] = step[i][f[i - 1]]
  <2> DEFINE zero == <<0, 1>>
  <2>1. N \in Nat /\ zero \in S
    BY <1>2
  <2> HIDE DEF step, zero
  <2>2. \E f \in [0..N -> S] : f[0] = zero /\ \A i \in 1..N : f[i] = step[i][f[i - 1]]
    BY <1>4, <2>1, Recursion
  <2> QED
    BY <2>2 DEF zero
<1>6. \A i \in 1..N : f[i] = readCharacter(f[i - 1], raw, i)
  <2> SUFFICES ASSUME NEW i \in 1..N PROVE f[i] = readCharacter(f[i - 1], raw, i)
    OBVIOUS
  <2>1. i - 1 \in 0..N
    BY <1>2
  <2>2. f[i - 1] \in S /\ f[i] = step[i][f[i - 1]]
    BY <1>5, <2>1
  <2> QED
    BY <2>2
<1>7. f = [i \in 0..N |-> Body(f, i)]
  <2>1. \A i \in 0..N : f[i] = Body(f, i)
    BY <1>2, <1>5, <1>6
  <2> HIDE DEF Body
  <2> QED
    BY <2>1
<1>8. read = [i \in 0..N |-> Body(read, i)]
  <2> HIDE DEF Body
  <2> QED
    BY <1>7
<1> HIDE DEF read
<1>9. /\ read \in [0..N -> S] /\ read[0] = <<0, 1>>
      /\ \A i \in 1..N : read[i] = readCharacter(read[i - 1], raw, i)
  <2>1. \A i \in 0..N : read[i] = Body(read, i)
    <3> HIDE DEF Body
    <3> QED
      BY <1>8
  <2>2. 0 \in 0..N /\ \A i \in 1..N : i \in 0..N /\ i - 1 \in 0..N /\ i # 0
    BY <1>2
  <2>3. read[0] = <<0, 1>> /\ \A i \in 1..N : read[i] = readCharacter(read[i - 1], raw, i)
    BY <2>1, <2>2
  <2> DEFINE Good == {i \in 0..N : read[i] \in S}
  <2>4. 0..N \subseteq Good
    <3>1. 0 \in Good
      BY <1>2, <2>2, <2>3
    <3>2. \A i \in 1..N : i - 1 \in Good => i \in Good
      BY <1>3, <2>2, <2>3
    <3> HIDE DEF Good
    <3> QED
      BY <1>2, <3>1, <3>2, Induction
  <2>5. read \in [0..N -> S]
    <3>1. DOMAIN read = 0..N /\ read = [i \in 0..N |-> read[i]]
      <4> HIDE DEF Body
      <4> QED
        BY <1>8
    <3> QED
      BY <2>4, <3>1
  <2> QED
    BY <2>3, <2>5
<1> QED
  BY <1>1, <1>9 DEF S, N

LEMMA AmountTyped ==
    ASSUME NEW raw \in Seq(Characters)
    PROVE  amount(raw) \in Nat \X (Nat \ {0})
<1>1. PICK read \in [0..Len(raw) -> Nat \X (Nat \ {0})] : amount(raw) = read[Len(raw)]
  BY AmountLoop
<1>2. Len(raw) \in 0..Len(raw)
  OBVIOUS
<1> QED
  BY <1>1, <1>2

\* The powers of a number up to a bound.
Powers(base, N) ==
    CHOOSE power : power = [n \in 0..N |-> IF n = 0 THEN 1 ELSE base * power[n - 1]]

LEMMA PowersOf ==
    ASSUME NEW base \in Nat \ {0}, NEW N \in Nat
    PROVE  /\ Powers(base, N) \in [0..N -> Nat \ {0}] /\ Powers(base, N)[0] = 1
           /\ \A n \in 1..N : Powers(base, N)[n] = base * Powers(base, N)[n - 1]
<1> DEFINE Body(f, n) == IF n = 0 THEN 1 ELSE base * f[n - 1]
<1> DEFINE S == Nat \ {0}
<1> DEFINE one == 1
<1> DEFINE step == [n \in 1..N |-> [p \in S |-> base * p]]
<1> DEFINE power == Powers(base, N)
<1>1. one \in S /\ \A p \in S : base * p \in S
  OBVIOUS
<1> HIDE DEF S, one
<1>2. step \in [1..N -> [S -> S]]
  BY <1>1
<1> HIDE DEF step
<1>3. \E f \in [0..N -> S] : f[0] = one /\ \A n \in 1..N : f[n] = step[n][f[n - 1]]
  BY <1>1, <1>2, Recursion
<1>4. PICK f \in [0..N -> S] : f[0] = one /\ \A n \in 1..N : f[n] = step[n][f[n - 1]]
  BY <1>3
<1>5. \A n \in 1..N : f[n] = base * f[n - 1]
  <2> SUFFICES ASSUME NEW n \in 1..N PROVE f[n] = base * f[n - 1]
    OBVIOUS
  <2>1. n - 1 \in 0..N
    OBVIOUS
  <2>2. f[n - 1] \in S /\ f[n] = step[n][f[n - 1]]
    BY <1>4, <2>1
  <2> QED
    BY <2>2 DEF step
<1>6. f = [n \in 0..N |-> Body(f, n)]
  <2>1. \A n \in 0..N : f[n] = Body(f, n)
    BY <1>4, <1>5 DEF one
  <2> HIDE DEF Body
  <2> QED
    BY <1>4, <2>1
<1>7. power = [n \in 0..N |-> Body(power, n)]
  BY <1>6 DEF Powers
<1> HIDE DEF power
<1>8. power[0] = 1 /\ \A n \in 1..N : power[n] = base * power[n - 1]
  <2>1. \A n \in 0..N : power[n] = Body(power, n)
    <3> HIDE DEF Body
    <3> QED
      BY <1>7
  <2>2. 0 \in 0..N /\ \A n \in 1..N : n \in 0..N /\ n # 0
    OBVIOUS
  <2> QED
    BY <2>1, <2>2
<1> DEFINE Good == {n \in 0..N : power[n] \in S}
<1>9. 0..N \subseteq Good
  <2>1. 0 \in Good
    BY <1>1, <1>8 DEF one
  <2>2. \A n \in 1..N : n - 1 \in Good => n \in Good
    BY <1>1, <1>8
  <2> HIDE DEF Good
  <2> QED
    BY <2>1, <2>2, Induction
<1>10. power \in [0..N -> S]
  <2>1. power = [n \in 0..N |-> power[n]]
    <3> HIDE DEF Body
    <3> QED
      BY <1>7
  <2> QED
    BY <1>9, <2>1
<1> QED
  BY <1>8, <1>10 DEF power, S

\* The digits of a text, and those to the right of a place.
Digits(raw) == {i \in DOMAIN raw : raw[i] \in 0..9}
RightOf(raw, i) == {j \in Digits(raw) : j > i}

\* The value of a text with one comma, by its digits.
LEMMA WrittenAsSum ==
    ASSUME NEW raw \in Seq(Characters), NEW comma \in 1..Len(raw),
           \A i \in 1..Len(raw) : raw[i] = Comma <=> i = comma,
           NEW T, T = Powers(10, Len(raw)),
           IsFiniteSet(Digits(raw)), NEW f \in [Digits(raw) -> Int],
           \A i \in Digits(raw) : f[i] = raw[i] * T[Cardinality(RightOf(raw, i))]
    PROVE  Written(raw) = <<SumOf(f), T[Cardinality(RightOf(raw, comma))]>>
<1> DEFINE S == Digits(raw)
<1> DEFINE first == SelectInSeq(raw, LAMBDA c : c = Comma)
<1> DEFINE Weight(i) == raw[i] * T[Cardinality(RightOf(raw, i))]
<1> DEFINE Body(sum, s) ==
             IF s = {} THEN 0
             ELSE Weight(CHOOSE x \in s : TRUE) + sum[s \ {CHOOSE x \in s : TRUE}]
<1> DEFINE sum == CHOOSE iter : iter = [s \in SUBSET S |-> Body(iter, s)]
<1>1. Written(raw) = <<sum[S], T[Cardinality(RightOf(raw, first))]>>
  BY DEF Written, MapThenSumSet, MapThenFoldSet, Powers, RightOf, Digits
<1>2. ASSUME NEW i \in S PROVE Weight(i) = f[i]
  OBVIOUS
<1>3. first = comma
  <2> DEFINE I == {i \in 1..Len(raw) : raw[i] = Comma}
  <2>1. I = {comma} /\ comma \in Int
    OBVIOUS
  <2>2. first = Min(I)
    BY <2>1 DEF SelectInSeq
  <2>3. Min(I) = comma
    BY <2>1 DEF Min
  <2> QED
    BY <2>2, <2>3
<1> HIDE DEF Weight, first
<1>4. ASSUME NEW iter PROVE [s \in SUBSET S |-> Body(iter, s)]
         = [s \in SUBSET S |-> IF s = {} THEN 0 ELSE f[First(s)] + iter[s \ {First(s)}]]
  <2>1. ASSUME NEW s \in SUBSET S
        PROVE Body(iter, s) = IF s = {} THEN 0 ELSE f[First(s)] + iter[s \ {First(s)}]
    <3>1. s # {} => First(s) \in S
      BY DEF First
    <3>2. Body(iter, s) = IF s = {} THEN 0 ELSE Weight(First(s)) + iter[s \ {First(s)}]
      BY DEF First
    <3> QED
      BY <1>2, <3>1, <3>2
  <2> HIDE DEF Body
  <2> QED
    BY <2>1
<1>5. \E iter : iter = [s \in SUBSET S |-> Body(iter, s)]
  <2>1. PICK iter : Adds(iter, f, S)
    BY AddsExists
  <2>2. iter = [s \in SUBSET S |-> IF s = {} THEN 0 ELSE f[First(s)] + iter[s \ {First(s)}]]
    BY ONLY <2>1 DEF Adds
  <2>3. [s \in SUBSET S |-> Body(iter, s)]
           = [s \in SUBSET S |-> IF s = {} THEN 0 ELSE f[First(s)] + iter[s \ {First(s)}]]
    BY <1>4
  <2>4. iter = [s \in SUBSET S |-> Body(iter, s)]
    <3> HIDE DEF Body
    <3> QED
      BY ONLY <2>2, <2>3
  <2> QED
    BY <2>4
<1>6. Adds(sum, f, S)
  <2>1. sum = [s \in SUBSET S |-> Body(sum, s)]
    <3> HIDE DEF Body
    <3> QED
      BY <1>5
  <2> HIDE DEF sum
  <2> QED
    BY <1>4, <2>1 DEF Adds
<1>7. sum[S] = SumOf(f)
  <2> HIDE DEF sum
  <2> QED
    BY <1>6, SumUnique
<1> QED
  BY <1>1, <1>3, <1>7

\* What is read of an amount in the bank's own format is the amount that is written.
LEMMA WrittenRead ==
    ASSUME NEW raw \in Seq(Characters), BankFormat(raw)
    PROVE  amount(raw) = Written(raw)
<1> DEFINE N == Len(raw)
<1> DEFINE digits == Digits(raw)
<1> DEFINE Right(i) == RightOf(raw, i)
<1> DEFINE R(i) == Cardinality(Right(i))
<1> DEFINE T == Powers(10, N)
<1> DEFINE f == [i \in digits |-> raw[i] * T[R(i)]]
<1>1. PICK comma \in 1..N :
        /\ raw[comma] = Comma /\ comma < N /\ raw[comma] \notin 0..9
        /\ \A i \in 1..(comma - 1) : raw[i] # Comma
        /\ \A i \in (comma + 1)..N : raw[i] \in 0..9 /\ raw[i] # Comma
  <2>1. DOMAIN raw = 1..N /\ N \in Nat
    OBVIOUS
  <2>2. PICK comma \in 1..N :
          /\ raw[comma] = Comma /\ comma < N
          /\ \A i \in 1..(comma - 1) : raw[i] \in (0..9) \union {Dot, Blank}
          /\ \A i \in (comma + 1)..N : raw[i] \in 0..9
    BY <2>1 DEF BankFormat
  <2>3. Comma \notin 0..9 /\ Comma # Dot /\ Comma # Blank
    BY CharactersAssumption
  <2> QED
    BY <2>2, <2>3
<1>2. N \in Nat /\ DOMAIN raw = 1..N /\ digits \subseteq 1..N /\ comma \in Nat
  BY DEF Digits
<1>3. \A i \in 1..N : raw[i] = Comma <=> i = comma
  <2>1. \A i \in 1..N : i \in 1..(comma - 1) \/ i = comma \/ i \in (comma + 1)..N
    BY <1>2
  <2> QED
    BY <1>1, <2>1
<1>4. decimalPoint(raw) = Comma
  BY <1>1 DEF decimalPoint, Contains
<1>5. /\ IsFiniteSet(digits)
      /\ \A i \in 0..N : R(i) \in 0..N /\ IsFiniteSet(Right(i))
  <2>1. IsFiniteSet(1..N) /\ Cardinality(1..N) <= N
    BY <1>2, FS_Interval
  <2>2. ASSUME NEW S, S \subseteq 1..N PROVE IsFiniteSet(S) /\ Cardinality(S) \in 0..N
    <3>1. IsFiniteSet(S) /\ Cardinality(S) <= Cardinality(1..N)
      BY <2>1, <2>2, FS_Subset
    <3>2. Cardinality(S) \in Nat /\ Cardinality(1..N) \in Nat
      BY <2>1, <3>1, FS_CardinalityType
    <3> QED
      BY <1>2, <2>1, <3>1, <3>2
  <2>3. \A i \in 0..N : Right(i) \subseteq 1..N
    BY <1>2 DEF RightOf
  <2> QED
    BY <1>2, <2>2, <2>3
<1>6. /\ T \in [0..N -> Nat] /\ T[0] = 1 /\ \A n \in 1..N : T[n] = 10 * T[n - 1]
      /\ \A i \in 0..N : T[R(i)] \in Nat
      /\ \A i \in digits : raw[i] \in 0..9 /\ i \in 1..N /\ T[R(i)] \in Nat /\ raw[i] * T[R(i)] \in Int
  <2>1. T \in [0..N -> Nat] /\ T[0] = 1 /\ \A n \in 1..N : T[n] = 10 * T[n - 1]
    <3> DEFINE base == 10
    <3> DEFINE power == Powers(base, N)
    <3>1. base \in Nat \ {0}
      OBVIOUS
    <3>2. T = power
      OBVIOUS
    <3> HIDE DEF T
    <3> HIDE DEF base
    <3>3. power \in [0..N -> Nat \ {0}] /\ power[0] = 1 /\ \A n \in 1..N : power[n] = base * power[n - 1]
      BY ONLY <1>2, <3>1, PowersOf
    <3> HIDE DEF power, N
    <3>4. power \in [0..N -> Nat]
      BY ONLY <3>3
    <3> QED
      BY ONLY <3>2, <3>3, <3>4 DEF base
  <2> HIDE DEF T, R
  <2>2. \A i \in 0..N : T[R(i)] \in Nat
    BY <1>5, <2>1
  <2>3. \A i \in digits : raw[i] \in 0..9 /\ i \in 1..N /\ T[R(i)] \in Nat
    BY <1>2, <2>2 DEF Digits
  <2>4. ASSUME NEW i \in digits PROVE raw[i] * T[R(i)] \in Int
    <3> DEFINE t == T[R(i)]
    <3>1. raw[i] \in Int /\ t \in Nat
      BY <2>3
    <3> HIDE DEF t
    <3>2. raw[i] * t \in Int
      BY <3>1
    <3> QED
      BY <3>2 DEF t
  <2> QED
    BY <2>1, <2>2, <2>3, <2>4
<1>7. T[R(N)] = 1
  <2>1. Right(N) = {}
    BY <1>2 DEF RightOf
  <2>2. R(N) = 0
    BY <2>1, FS_EmptySet
  <2> QED
    BY <1>6, <2>2
<1>8. Written(raw) = <<SumOf(f), T[R(comma)]>>
  <2>1. IsFiniteSet(digits) /\ f \in [digits -> Int] /\ \A i \in digits : f[i] = raw[i] * T[R(i)]
    BY <1>5, <1>6
  <2> HIDE DEF T, f
  <2> QED
    BY <1>3, <2>1, WrittenAsSum DEF T
<1> DEFINE P(i) == {k \in digits : k <= i}
<1> DEFINE g(i) == Upto(f, i)
<1>9. PICK read \in [0..N -> Nat \X (Nat \ {0})] :
             /\ read[0] = <<0, 1>>
             /\ \A i \in 1..N : read[i] = readCharacter(read[i - 1], raw, i)
             /\ amount(raw) = read[N]
  BY AmountLoop
<1>10. /\ f \in [digits -> Int] /\ DOMAIN f = digits /\ digits \subseteq Int
       /\ \A i \in digits : f[i] = raw[i] * T[R(i)]
       /\ \A i \in 0..N : g(i) = [k \in P(i) |-> f[k]]
  <2>1. f \in [digits -> Int] /\ DOMAIN f = digits /\ \A i \in digits : f[i] = raw[i] * T[R(i)]
    BY <1>6
  <2> HIDE DEF f, digits, N
  <2>2. \A i \in 0..N : g(i) = [k \in P(i) |-> f[k]]
    <3> SUFFICES ASSUME NEW i \in 0..N PROVE g(i) = [k \in P(i) |-> f[k]]
      OBVIOUS
    <3>1. Upto(f, i) = [k \in {j \in digits : j <= i} |-> f[k]]
      BY ONLY <2>1 DEF Upto
    <3> QED
      BY ONLY <3>1
  <2>3. digits \subseteq Int
    <3>1. 1..N \subseteq Int
      BY ONLY <1>2
    <3> QED
      BY ONLY <1>2, <3>1
  <2> HIDE DEF P, g
  <2> QED
    BY ONLY <2>1, <2>2, <2>3
<1> HIDE DEF f, g
<1> DEFINE Good == {i \in 0..N : /\ read[i][1] * T[R(i)] = SumOf(g(i))
                                 /\ i < comma => read[i][2] = 1
                                 /\ i >= comma => read[i][2] * T[R(i)] = T[R(comma)]}
<1>11. 0 \in Good
  <2>1. P(0) = {}
    BY <1>2
  <2>2. SumOf(g(0)) = 0
    <3> DEFINE h == g(0)
    <3>1. h \in [{} -> Int]
      <4>1. 0 \in 0..N
        BY <1>2
      <4>2. h = [k \in {} |-> f[k]]
        <5> HIDE DEF P, N
        <5> QED
          BY <1>10, <2>1, <4>1
      <4> QED
        BY ONLY <4>2
    <3> HIDE DEF h
    <3>2. SumOf(h) = 0
      BY <3>1, SumEmpty
    <3> QED
      BY <3>2 DEF h
  <2>3. 0 * T[R(0)] = 0
    BY <1>6
  <2> QED
    BY <1>1, <1>2, <1>9, <2>2, <2>3
<1>12. ASSUME NEW i \in 1..N, i - 1 \in Good, raw[i] \in 0..9 PROVE i \in Good
  <2> DEFINE d == raw[i]
  <2> DEFINE p == T[R(i)]
  <2> DEFINE q == T[R(i - 1)]
  <2> DEFINE before == read[i - 1]
  <2> DEFINE old == SumOf(g(i - 1))
  <2>1. i \in 0..N /\ i - 1 \in 0..N /\ i \in digits /\ i # comma
    BY <1>1, <1>2, <1>12 DEF Digits
  <2>2. q = 10 * p
    <3>1. Right(i - 1) = Right(i) \union {i} /\ i \notin Right(i)
      BY <1>2, <2>1 DEF RightOf
    <3>2. R(i - 1) = R(i) + 1
      BY <1>5, <2>1, <3>1, FS_AddElement
    <3>3. R(i - 1) \in 0..N /\ R(i) \in 0..N
      BY <1>5, <2>1
    <3>4. R(i - 1) \in 1..N /\ R(i - 1) - 1 = R(i)
      <4> DEFINE r == R(i)
      <4> DEFINE s == R(i - 1)
      <4>1. r \in 0..N /\ s \in 0..N /\ s = r + 1
        BY <3>2, <3>3
      <4> HIDE DEF r, s
      <4>2. s \in 1..N /\ s - 1 = r
        BY <4>1
      <4> QED
        BY <4>2 DEF r, s
    <3> HIDE DEF T, R
    <3> QED
      BY <1>6, <3>4
  <2>3. SumOf(g(i)) = old + d * p /\ old \in Int
    <3>1. f[i] = d * p
      BY <1>10, <2>1
    <3> HIDE DEF digits, d, p
    <3>2. IsFiniteSet(digits)
      BY <1>5
    <3>3. digits \subseteq Int
      BY <1>10
    <3>4. f \in [digits -> Int]
      BY <1>10
    <3>5. i \in digits
      BY <2>1
    <3>6. SumOf(Upto(f, i)) = SumOf(Upto(f, i - 1)) + f[i] /\ SumOf(Upto(f, i - 1)) \in Int
      BY ONLY <3>2, <3>3, <3>4, <3>5, SumUpto
    <3> QED
      BY <3>1, <3>6 DEF g
  <2>4. before \in Nat \X (Nat \ {0}) /\ d \in 0..9 /\ p \in Nat
        /\ before[1] * q = old
        /\ (i - 1 < comma => before[2] = 1) /\ (i - 1 >= comma => before[2] * q = T[R(comma)])
    BY <1>6, <1>9, <1>12, <2>1
  <2>5. read[i] = <<10 * before[1] + d, IF i > comma THEN 10 * before[2] ELSE before[2]>>
    <3>1. Comma \in {raw[j] : j \in 1..(i - 1)} <=> i > comma
      BY <1>2, <1>3, <2>1
    <3>2. read[i] = readCharacter(before, raw, i)
      BY <1>9
    <3> QED
      BY <1>4, <1>12, <3>1, <3>2 DEF readCharacter
  <2> HIDE DEF d, p, q, old
  <2>6. read[i][1] * p = old + d * p
    <3> DEFINE a == before[1]
    <3>1. a \in Nat /\ a * q = old /\ d \in Nat /\ p \in Nat /\ q = 10 * p
      BY <2>2, <2>4
    <3>2. read[i][1] = 10 * a + d
      BY <2>5
    <3> HIDE DEF a
    <3>3. (10 * a + d) * p = a * (10 * p) + d * p
      BY <3>1
    <3> QED
      BY <3>1, <3>2, <3>3
  <2>7. i < comma => read[i][2] = 1
    BY <1>2, <2>1, <2>4, <2>5
  <2>8. i >= comma => read[i][2] * p = T[R(comma)]
    <3> SUFFICES ASSUME i >= comma PROVE read[i][2] * p = T[R(comma)]
      OBVIOUS
    <3> DEFINE a == before[2]
    <3>1. i > comma /\ i - 1 >= comma
      BY <1>2, <2>1
    <3>2. a \in Nat /\ p \in Nat /\ q = 10 * p /\ a * q = T[R(comma)]
      BY <2>2, <2>4, <3>1
    <3>3. read[i][2] = 10 * a
      BY <2>5, <3>1
    <3> HIDE DEF a, T, R
    <3>4. (10 * a) * p = a * (10 * p)
      BY <3>2
    <3> QED
      BY <3>2, <3>3, <3>4
  <2>9. read[i][1] * T[R(i)] = SumOf(g(i))
    BY <2>3, <2>6 DEF p
  <2>10. i >= comma => read[i][2] * T[R(i)] = T[R(comma)]
    BY <2>8 DEF p
  <2> QED
    BY <2>1, <2>7, <2>9, <2>10
<1>13. ASSUME NEW i \in 1..N, i - 1 \in Good, raw[i] \notin 0..9 PROVE i \in Good
  <2>1. i \in 0..N /\ i - 1 \in 0..N /\ i \notin digits /\ ~(i > comma)
    BY <1>1, <1>2, <1>13 DEF Digits
  <2>2. read[i] = read[i - 1]
    BY <1>9, <1>13 DEF readCharacter
  <2>3. Right(i - 1) = Right(i) /\ P(i - 1) = P(i)
    BY <1>2, <2>1 DEF RightOf
  <2>4. g(i - 1) = g(i)
    BY <1>10, <2>1, <2>3
  <2>5. read[i][1] * T[R(i)] = SumOf(g(i)) /\ read[i][2] = 1
    <3>1. i - 1 < comma
      BY <1>2, <2>1
    <3> QED
      BY <1>13, <2>2, <2>3, <2>4, <3>1
  <2>6. i = comma => read[i][2] * T[R(i)] = T[R(comma)]
    <3> DEFINE p == T[R(comma)]
    <3>1. p \in Nat
      BY <1>2, <1>6
    <3> HIDE DEF p
    <3>2. 1 * p = p
      BY <3>1
    <3> QED
      BY <2>5, <3>2 DEF p
  <2>7. i >= comma => i = comma
    BY <1>2, <2>1
  <2> QED
    BY <2>1, <2>5, <2>6, <2>7
<1>14. N \in Good
  <2>1. \A i \in 1..N : i - 1 \in Good => i \in Good
    BY <1>12, <1>13
  <2>2. N \in 0..N
    BY <1>2
  <2> HIDE DEF Good, N
  <2>3. 0..N \subseteq Good
    BY <1>2, <1>11, <2>1, Induction
  <2> QED
    BY <2>2, <2>3
<1>15. read[N] = <<SumOf(f), T[R(comma)]>>
  <2>1. g(N) = f
    <3>1. P(N) = digits
      BY <1>2
    <3>2. g(N) = [k \in digits |-> f[k]]
      <4>1. N \in 0..N
        BY <1>2
      <4> HIDE DEF P, N, digits
      <4> QED
        BY <1>10, <3>1, <4>1
    <3>3. f \in [digits -> Int]
      BY <1>10
    <3> HIDE DEF digits
    <3> QED
      BY ONLY <3>2, <3>3
  <2>2. T[R(N)] = 1
    BY <1>7
  <2>3. read[N] \in Nat \X (Nat \ {0}) /\ N \in 0..N
    BY <1>2, <1>9
  <2>4. read[N][1] * 1 = SumOf(f) /\ read[N][2] * 1 = T[R(comma)]
    <3>1. read[N][1] * T[R(N)] = SumOf(g(N)) /\ read[N][2] * T[R(N)] = T[R(comma)]
      <4>1. N >= comma
        BY <1>1, <1>2
      <4> QED
        BY <1>14, <4>1
    <3> HIDE DEF N, T, R, f, g
    <3> QED
      BY <2>1, <2>2, <3>1
  <2> DEFINE p == read[N]
  <2>5. p = <<p[1], p[2]>> /\ p[1] \in Nat /\ p[2] \in Nat
    BY <2>3
  <2> HIDE DEF p, f
  <2>6. p[1] = SumOf(f) /\ p[2] = T[R(comma)]
    BY <2>4, <2>5 DEF p
  <2> QED
    BY <2>5, <2>6 DEF p
<1> QED
  BY <1>8, <1>9, <1>15

--------------------------------------------------------------------------------
(* strconv.ParseFloat.                                                     *)

\* The powers of two, a float64's units among them.
LEMMA PowersOfTwo ==
    /\ \A n \in {Precision, Bias} \union 0..MaxExponent : twoTo[n] \in Nat \ {0}
    /\ twoTo[0] = 1
    /\ \A n \in 1..MaxExponent : twoTo[n] = 2 * twoTo[n - 1]
    /\ \E half \in Nat \ {0} : twoTo[Precision] = 2 * half
<1> DEFINE L == Precision + Bias + MaxExponent
<1>1. /\ L \in Nat /\ Precision \in 1..L /\ Bias \in 0..L
      /\ 1..MaxExponent \subseteq 1..L /\ 0..MaxExponent \subseteq 0..L
      /\ Precision \in 0..L /\ Precision - 1 \in 0..L
  BY FloatAssumption
<1>2. twoTo = Powers(2, L)
  BY DEF twoTo, Powers
<1> HIDE DEF L
<1>3. /\ twoTo \in [0..L -> Nat \ {0}] /\ twoTo[0] = 1
      /\ \A n \in 1..L : twoTo[n] = 2 * twoTo[n - 1]
  <2> DEFINE base == 2
  <2> DEFINE power == Powers(base, L)
  <2>1. base \in Nat \ {0} /\ L \in Nat
    BY <1>1
  <2>2. twoTo = power
    BY <1>2
  <2> HIDE DEF base
  <2>3. /\ power \in [0..L -> Nat \ {0}] /\ power[0] = 1
        /\ \A n \in 1..L : power[n] = base * power[n - 1]
    BY ONLY <2>1, PowersOf
  <2> HIDE DEF power
  <2> QED
    BY ONLY <2>2, <2>3 DEF base
<1>4. twoTo[Precision] = 2 * twoTo[Precision - 1] /\ twoTo[Precision - 1] \in Nat \ {0}
  BY <1>1, <1>3
<1>5. \A n \in {Precision, Bias} \union 0..MaxExponent : twoTo[n] \in Nat \ {0}
  BY <1>1, <1>3
<1>6. \A n \in 1..MaxExponent : twoTo[n] = 2 * twoTo[n - 1]
  BY <1>1, <1>3
<1> QED
  BY <1>3, <1>4, <1>5, <1>6

\* Rounding is off by a half at most.
LEMMA RoundedOff ==
    ASSUME NEW n \in Nat, NEW d \in Nat \ {0}
    PROVE  /\ rounded(n, d) \in Nat
           /\ 2 * (rounded(n, d) * d - n) <= d
           /\ 2 * (n - rounded(n, d) * d) <= d
<1> DEFINE q == n \div d
<1> DEFINE rest == n % d
<1> DEFINE m == rounded(n, d)
<1>1. q \in Nat /\ rest \in Nat /\ rest < d /\ n = d * q + rest
  OBVIOUS
<1>2. (m = q + 1 /\ 2 * rest >= d) \/ (m = q /\ 2 * rest <= d)
  BY <1>1 DEF rounded
<1> HIDE DEF q, rest, m
<1>3. CASE m = q + 1 /\ 2 * rest >= d
  <2>1. m * d = d * q + d
    BY ONLY <1>1, <1>3
  <2> QED
    BY <1>1, <1>3, <2>1 DEF m
<1>4. CASE m = q /\ 2 * rest <= d
  <2>1. m * d = d * q
    BY ONLY <1>1, <1>4
  <2> QED
    BY <1>1, <1>4, <2>1 DEF m
<1> QED
  BY <1>2, <1>3, <1>4

\* A mantissa that did not fit at half the unit has all the bits.
LEMMA FullMantissa ==
    ASSUME NEW n \in Nat, NEW d \in Nat \ {0}, NEW half \in Nat \ {0},
           NEW fine \in Nat, fine >= 2 * half, 2 * (fine * d - n) <= d,
           NEW m \in Nat, 2 * (n - m * (2 * d)) <= 2 * d
    PROVE  m >= half
<1> SUFFICES ASSUME m + 1 <= half PROVE FALSE
  OBVIOUS
<1>1. (4 * m + 4) * d <= (2 * fine) * d
  <2>1. 4 * m + 4 <= 2 * fine
    OBVIOUS
  <2> DEFINE a == 4 * m + 4
  <2> DEFINE b == 2 * fine
  <2>2. a \in Nat /\ b \in Nat /\ a <= b
    BY <2>1
  <2> HIDE DEF a, b
  <2>3. a * d <= b * d
    BY ONLY <2>2
  <2> QED
    BY <2>3 DEF a, b
<1> DEFINE x == m * d
<1> DEFINE y == fine * d
<1>2. x \in Int /\ y \in Int
  OBVIOUS
<1>3. m * (2 * d) = 2 * x /\ (4 * m + 4) * d = 4 * x + 4 * d /\ (2 * fine) * d = 2 * y
  OBVIOUS
<1> HIDE DEF x, y
<1>4. 2 * (y - n) <= d /\ 2 * (n - 2 * x) <= 2 * d /\ 4 * x + 4 * d <= 2 * y
  BY <1>1, <1>3 DEF y
<1> QED
  BY ONLY <1>2, <1>4

\* Half a unit, relative to a mantissa with all the bits.
LEMMA RelativeError ==
    ASSUME NEW difference \in Nat, NEW d \in Nat \ {0}, 2 * difference <= d,
           NEW half \in Nat \ {0}, NEW m \in Nat, m >= half
    PROVE  difference * (2 * half) <= m * d
<1>1. (2 * difference) * half <= d * half
  <2> DEFINE x == 2 * difference
  <2>1. x \in Nat /\ x <= d
    OBVIOUS
  <2> HIDE DEF x
  <2>2. x * half <= d * half
    BY ONLY <2>1
  <2> QED
    BY <2>2 DEF x
<1>2. d * half <= d * m
  OBVIOUS
<1>3. difference * (2 * half) = (2 * difference) * half /\ d * m = m * d
  OBVIOUS
<1>4. d * half \in Int /\ d * m \in Int /\ (2 * difference) * half \in Int
  OBVIOUS
<1> DEFINE x == (2 * difference) * half
<1> DEFINE y == d * half
<1> DEFINE z == d * m
<1>5. x \in Int /\ y \in Int /\ z \in Int /\ x <= y /\ y <= z
  BY <1>1, <1>2, <1>4
<1> HIDE DEF x, y, z
<1>6. x <= z
  BY ONLY <1>5
<1> QED
  BY <1>3, <1>6 DEF x, z

\* A number is read as a float64 within half a unit in the last place.
LEMMA FloatIsNearest ==
    ASSUME NEW n \in Nat, NEW d \in Nat \ {0}, nearestFloat(<<n, d>>) # Error
    PROVE  /\ nearestFloat(<<n, d>>) \in Nat \X (Nat \ {0})
           /\ NearestTo(nearestFloat(<<n, d>>), <<n, d>>)
<1> DEFINE one == twoTo[Bias]
<1> DEFINE M(k) == rounded(n * one, d * twoTo[k])
<1> DEFINE units == {k \in 0..MaxExponent : M(k) < twoTo[Precision]}
<1> DEFINE k == Min(units)
<1>1. \A i \in 0..MaxExponent : mantissa(<<n, d>>, i) = M(i)
  BY DEF mantissa
<1>2. units = {i \in 0..MaxExponent : mantissa(<<n, d>>, i) < twoTo[Precision]}
  BY <1>1
<1>3. units # {} /\ nearestFloat(<<n, d>>) = <<mantissa(<<n, d>>, k) * twoTo[k], one>>
  BY <1>2 DEF nearestFloat
<1>4. k \in units /\ \A i \in units : k <= i
  <2>1. units \subseteq Nat
    BY FloatAssumption
  <2> HIDE DEF units
  <2>2. \E x \in units : \A y \in units : x <= y
    BY <1>3, <2>1, LeastNatural
  <2> QED
    BY <2>2 DEF Min
<1> DEFINE u == twoTo[k]
<1> DEFINE m == M(k)
<1> DEFINE N == n * one
<1> DEFINE D == d * u
<1>5. /\ k \in 0..MaxExponent /\ one \in Nat \ {0} /\ u \in Nat \ {0}
      /\ N \in Nat /\ D \in Nat \ {0} /\ m = rounded(N, D)
  <2>1. k \in 0..MaxExponent
    BY <1>4
  <2> HIDE DEF k
  <2>2. one \in Nat \ {0} /\ u \in Nat \ {0}
    BY <2>1, PowersOfTwo
  <2> HIDE DEF one, u
  <2>3. n * one \in Nat /\ d * u \in Nat \ {0}
    BY <2>2
  <2> QED
    BY <2>1, <2>2, <2>3 DEF u
<1>6. nearestFloat(<<n, d>>) = <<m * u, one>>
  BY <1>1, <1>3, <1>5
<1> HIDE DEF M, units, k, u, one
<1>7. m \in Nat /\ 2 * (m * D - N) <= D /\ 2 * (N - m * D) <= D
  <2> HIDE DEF m, N, D
  <2> QED
    BY <1>5, RoundedOff
<1> HIDE DEF m
<1>8. (m * u) * d = m * D
  BY <1>5, <1>7
<1> DEFINE a == m * D
<1> DEFINE difference == IF a < N THEN N - a ELSE a - N
<1>9. a \in Nat /\ difference \in Nat /\ 2 * difference <= D
  <2> HIDE DEF N, D
  <2>1. a \in Nat
    BY <1>5, <1>7
  <2>2. 2 * (a - N) <= D /\ 2 * (N - a) <= D
    BY <1>7
  <2> HIDE DEF a
  <2> QED
    BY <1>5, <2>1, <2>2
<1>10. NearestTo(<<m * u, one>>, <<n, d>>)
         <=> (difference * twoTo[Precision] <= a \/ 2 * difference <= d)
  <2> HIDE DEF D
  <2> QED
    BY <1>8 DEF NearestTo, one
<1>11. CASE k = 0
  <2>1. D = d
    BY <1>11, PowersOfTwo DEF u
  <2> QED
    BY <1>5, <1>6, <1>7, <1>9, <1>10, <2>1
<1>12. CASE k # 0
  <2>1. PICK half \in Nat \ {0} : twoTo[Precision] = 2 * half
    BY PowersOfTwo
  <2>2. m >= half
    <3> DEFINE finer == d * twoTo[k - 1]
    <3> DEFINE fine == rounded(N, finer)
    <3>1. k - 1 \in 0..MaxExponent /\ k \in 1..MaxExponent /\ ~(k <= k - 1)
      <4>1. k \in 0..MaxExponent /\ k # 0
        BY <1>5, <1>12
      <4> QED
        BY ONLY <4>1, FloatAssumption
    <3>2. k - 1 \notin units
      <4>1. \A i \in units : k <= i
        BY <1>4
      <4> QED
        BY <3>1, <4>1
    <3>3. ~(fine < 2 * half)
      BY <2>1, <3>1, <3>2 DEF units, M, one
    <3>4. finer \in Nat \ {0} /\ D = 2 * finer
      <4> DEFINE v == twoTo[k - 1]
      <4>1. v \in Nat \ {0} /\ u = 2 * v
        BY <3>1, PowersOfTwo DEF u
      <4> HIDE DEF v
      <4>2. d * v \in Nat \ {0} /\ d * u = 2 * (d * v)
        BY <4>1
      <4> QED
        BY <4>2 DEF v
    <3> HIDE DEF N, D, finer
    <3>5. fine \in Nat /\ 2 * (fine * finer - N) <= finer
      BY <1>5, <3>4, RoundedOff
    <3>6. 2 * (N - m * (2 * finer)) <= 2 * finer
      BY <1>7, <3>4
    <3> HIDE DEF fine
    <3>7. fine >= 2 * half
      BY <3>3, <3>5
    <3> QED
      BY <1>5, <1>7, <3>4, <3>5, <3>6, <3>7, FullMantissa
  <2>3. difference * twoTo[Precision] <= a
    <3> HIDE DEF difference, D
    <3>1. difference * (2 * half) <= m * D
      BY <1>5, <1>7, <1>9, <2>2, RelativeError
    <3> QED
      BY <2>1, <3>1
  <2> QED
    BY <1>5, <1>6, <1>7, <1>10, <2>3
<1> QED
  BY <1>11, <1>12

\* The amount of a text as a float64.
LEMMA AmountRead ==
    ASSUME NEW raw \in Seq(Characters), nearestFloat(amount(raw)) # Error
    PROVE  /\ nearestFloat(amount(raw)) \in Nat \X (Nat \ {0})
           /\ NearestTo(nearestFloat(amount(raw)), amount(raw))
<1>1. PICK n \in Nat, d \in Nat \ {0} : amount(raw) = <<n, d>>
  BY AmountTyped
<1>2. nearestFloat(<<n, d>>) # Error
  BY <1>1
<1>3. nearestFloat(<<n, d>>) \in Nat \X (Nat \ {0}) /\ NearestTo(nearestFloat(<<n, d>>), <<n, d>>)
  BY ONLY <1>2, FloatIsNearest
<1> QED
  BY <1>1, <1>3

--------------------------------------------------------------------------------
(* Responses.                                                              *)

\* Every rate of the provider, positive, and the BCV's date.
Complete(response, name) ==
    /\ response \in [values : [Keys[name] -> (Nat \ {0}) \X (Nat \ {0})],
                     date : Seq(Int) \union {Nil}]
    /\ name = "BCV" => response.date # Nil

LEMMA CompleteIsAccepted ==
    ASSUME NEW name \in DOMAIN Keys, NEW response, Complete(response, name)
    PROVE  /\ response # Nil /\ response # Error
           /\ DOMAIN response = {"values", "date"}
           /\ DOMAIN response.values = Keys[name]
           /\ \A key \in Keys[name] :
                /\ response.values[key] # Error
                /\ response.values[key][1] > 0 /\ response.values[key][2] > 0
           /\ name = "BCV" => response.date # Nil
<1> DEFINE P == (Nat \ {0}) \X (Nat \ {0})
<1>1. response \in [values : [Keys[name] -> P], date : Seq(Int) \union {Nil}]
      /\ (name = "BCV" => response.date # Nil)
  BY DEF Complete
<1>2. \A p \in P : p \in Int \X Int /\ p[1] > 0 /\ p[2] > 0
  OBVIOUS
<1> HIDE DEF P
<1>3. response.values \in [Keys[name] -> P] /\ response.date \in Seq(Int) \union {Nil}
      /\ DOMAIN response = {"values", "date"} /\ response = [values |-> response.values, date |-> response.date]
  BY <1>1
<1>4. response.values \in [Keys[name] -> Int \X Int]
  BY <1>2, <1>3
<1>5. response \in Responses(name)
  BY <1>3, <1>4 DEF Responses
<1>6. response # Nil /\ response # Error
  BY <1>5, ErrorAssumption
<1>7. Error \notin Int \X Int
  BY ErrorAssumption
<1> QED
  BY <1>1, <1>2, <1>3, <1>6, <1>7

\* parseBCVRates returns both rates and the date, or an error.
LEMMA BcvComplete ==
    ASSUME NEW page \in BcvPages, parseBCVRates(page) # Error
    PROVE  Complete(parseBCVRates(page), "BCV")
<1> DEFINE dolar == parseLocalizedNumber(rateText(page.dolar))
<1> DEFINE euro == parseLocalizedNumber(rateText(page.euro))
<1> DEFINE day == parseEffectiveDate(effectiveDateText(page))
<1>1. /\ rateText(page.dolar) # Error /\ rateText(page.euro) # Error /\ effectiveDateText(page) # Nil
      /\ dolar # Error /\ euro # Error /\ day # Error
      /\ parseBCVRates(page) = [values |-> [USD_BCV |-> dolar, EUR_BCV |-> euro], date |-> day]
  BY DEF parseBCVRates
<1>2. ASSUME NEW container \in Containers \union {Nil}, rateText(container) # Error
      PROVE  rateText(container) \in Seq(Characters)
  BY <1>2 DEF rateText, Containers
<1>3. ASSUME NEW raw \in Seq(Characters), parseLocalizedNumber(raw) # Error
      PROVE  parseLocalizedNumber(raw) \in (Nat \ {0}) \X (Nat \ {0})
  <2> DEFINE p == nearestFloat(amount(raw))
  <2>1. parseLocalizedNumber(raw) = p /\ p # Error /\ p[1] # 0
    BY <1>3 DEF parseLocalizedNumber
  <2>2. p \in Nat \X (Nat \ {0})
    BY <2>1, AmountRead
  <2> HIDE DEF p
  <2>3. p = <<p[1], p[2]>> /\ p[1] \in Nat \ {0} /\ p[2] \in Nat \ {0}
    BY <2>1, <2>2
  <2> QED
    BY <2>1, <2>3
<1>4. {page.dolar, page.euro} \subseteq Containers \union {Nil}
      /\ {page.single, page.fecha} \subseteq Seq(Int) \union {Nil}
  BY AnswersAssumption
<1>5. dolar \in (Nat \ {0}) \X (Nat \ {0})
  <2>1. rateText(page.dolar) \in Seq(Characters)
    BY <1>1, <1>2, <1>4
  <2> QED
    BY <1>1, <1>3, <2>1
<1>6. euro \in (Nat \ {0}) \X (Nat \ {0})
  <2>1. rateText(page.euro) \in Seq(Characters)
    BY <1>1, <1>2, <1>4
  <2> QED
    BY <1>1, <1>3, <2>1
<1>7. day = effectiveDateText(page)
  BY <1>1 DEF parseEffectiveDate
<1>8. effectiveDateText(page) \in Seq(Int) \union {Nil}
  BY <1>4 DEF effectiveDateText
<1> DEFINE P == (Nat \ {0}) \X (Nat \ {0})
<1> HIDE DEF dolar, euro, day, P
<1>9. [USD_BCV |-> dolar, EUR_BCV |-> euro] \in [Keys["BCV"] -> P]
  BY <1>5, <1>6 DEF Keys, P
<1> QED
  BY <1>1, <1>7, <1>8, <1>9 DEF Complete, P

\* The last entry of a currency is one of its entries.
LEMMA LastEntry ==
    ASSUME NEW list \in Seq([moneda : STRING, promedio : Int]), NEW moneda,
           \E i \in DOMAIN list : list[i].moneda = moneda
    PROVE  \E i \in DOMAIN list : list[i].moneda = moneda /\ promedio(list, moneda) = list[i].promedio
<1> DEFINE I == {i \in 1..Len(list) : list[i].moneda = moneda}
<1> DEFINE N == Len(list)
<1>1. N \in Nat /\ DOMAIN list = 1..N /\ I \subseteq 1..N /\ I # {}
  OBVIOUS
<1>2. promedio(list, moneda) = list[Max(I)].promedio
  BY <1>1 DEF promedio, SelectLastInSeq
<1>3. \E x \in I : \A y \in I : x >= y
  <2> HIDE DEF I, N
  <2> QED
    BY <1>1, GreatestNatural
<1>4. Max(I) \in I
  BY <1>3 DEF Max
<1> QED
  BY <1>1, <1>2, <1>4

\* dolarApiProvider's GetPrices returns both rates or an error.
LEMMA DolarComplete ==
    ASSUME NEW list \in DolarLists, dolarPrices(list) # Error
    PROVE  Complete(dolarPrices(list), "DolarAPI")
<1> DEFINE usd == promedio(list, "USD")
<1> DEFINE eur == promedio(list, "EUR")
<1>1. /\ {"USD", "EUR"} \subseteq {e.moneda : e \in ToSet(list)}
      /\ ~(usd <= 0) /\ ~(eur <= 0)
      /\ dolarPrices(list) = [values |-> [USD_BCV |-> <<usd, 1>>, EUR_BCV |-> <<eur, 1>>], date |-> Nil]
  BY DEF dolarPrices
<1>2. list \in Seq([moneda : STRING, promedio : Int])
  BY AnswersAssumption
<1>3. ASSUME NEW moneda \in {"USD", "EUR"} PROVE promedio(list, moneda) \in Int
  <2>1. \E i \in DOMAIN list : list[i].moneda = moneda
    BY <1>1 DEF ToSet
  <2>2. PICK i \in DOMAIN list : promedio(list, moneda) = list[i].promedio
    BY <1>2, <2>1, LastEntry, SMTT(20)
  <2> DEFINE Entry == [moneda : STRING, promedio : Int]
  <2>3. list[i] \in Entry
    <3>1. list \in Seq(Entry)
      BY <1>2
    <3> HIDE DEF Entry
    <3> QED
      BY <2>2, <3>1
  <2> QED
    BY <2>2, <2>3
<1>4. usd \in Int /\ eur \in Int
  BY <1>3
<1> HIDE DEF usd, eur
<1> DEFINE P == (Nat \ {0}) \X (Nat \ {0})
<1>5. <<usd, 1>> \in P /\ <<eur, 1>> \in P
  BY <1>1, <1>4
<1> HIDE DEF P
<1>6. [USD_BCV |-> <<usd, 1>>, EUR_BCV |-> <<eur, 1>>] \in [Keys["DolarAPI"] -> P]
  BY <1>5 DEF Keys
<1> QED
  BY <1>1, <1>6 DEF Complete, P

\* binanceProvider's GetPrices returns all three averages or an error.
LEMMA BinanceComplete ==
    ASSUME NEW all \in [{"SELL", "BUY"} -> Seq(Prices)], binancePrices(all) # Error
    PROVE  Complete(binancePrices(all), "USDT")
<1> DEFINE both == averageValid(all.SELL \o all.BUY)
<1> DEFINE sell == averageValid(all.SELL)
<1> DEFINE buy == averageValid(all.BUY)
<1> DEFINE P == (Nat \ {0}) \X (Nat \ {0})
<1>1. /\ both # Error /\ sell # Error /\ buy # Error
      /\ binancePrices(all) =
           [values |-> [USDT |-> both, USDT_BINANCE_SELL |-> buy, USDT_BINANCE_BUY |-> sell],
            date |-> Nil]
  BY DEF binancePrices
<1>2. all.SELL \in Seq(Prices) /\ all.BUY \in Seq(Prices) /\ all.SELL \o all.BUY \in Seq(Prices)
  OBVIOUS
<1>3. both \in P /\ sell \in P /\ buy \in P
  BY <1>1, <1>2, AveragePositive
<1> HIDE DEF both, sell, buy, P
<1>4. [USDT |-> both, USDT_BINANCE_SELL |-> buy, USDT_BINANCE_BUY |-> sell] \in [Keys["USDT"] -> P]
  BY <1>3 DEF Keys
<1> QED
  BY <1>1, <1>4 DEF Complete, P

--------------------------------------------------------------------------------
(* The inductive invariant.                                                *)

\* The answers that withRetry may return.
Answers(name) ==
    CASE name = "BCV" -> BcvPages
      [] name = "DolarAPI" -> DolarLists
      [] name = "USDT" -> [type : {"SELL", "BUY"}, page : {1, 2},
                           success : BOOLEAN, data : Seq(Prices \union {Unparsable})]

Typed ==
    /\ provider \in Providers /\ tries \in 0..3
    /\ failures \in Nat /\ elapsed \in Nat /\ pages \in Seq(Answers(provider))
    /\ collected \in [{"SELL", "BUY"} -> Seq(Prices)]

Requests == IF provider = "USDT" THEN 4 ELSE 1

\* The seconds that some failed attempts of a request and the pauses after them take.
spent == [n \in 0..3 |-> IF n = 3 THEN 33 ELSE IF n = 2 THEN 23 ELSE 11 * n]

\* The request that is being made, or was given up, is one of the provider's; each takes
\* 33 seconds and has two failed attempts at most, unless it is given up.
Paced ==
    /\ Len(pages) + (IF result = Nil \/ tries > 0 THEN 1 ELSE 0) <= Requests
    /\ result = Nil => tries < 3
    /\ tries <= failures /\ failures <= 2 * Len(pages) + tries
    /\ elapsed <= 33 * Len(pages) + spent[tries]

Answered == Accepted => Complete(result, provider)

PacedInv == Typed /\ Paced /\ Answered

\* The offers collected from good pages, as far as GetPrices has come: so many, none too
\* large, and one that counts for each trade type.
Limit == MaxFloat \div (4 * rows)

AllGood == \A i \in DOMAIN pages : GoodAnswer(pages[i])

Counts(prices) == \E i \in 1..Len(prices) : prices[i] > 0

Gathered ==
    /\ collected.SELL \in Seq(0..Limit) /\ collected.BUY \in Seq(0..Limit)
    /\ Len(collected.SELL) + Len(collected.BUY) <= rows * Len(pages)
    /\ Len(pages) >= 1 => Counts(collected.SELL)
    /\ Len(pages) >= 3 => Counts(collected.BUY)

Sound == (provider = "USDT" /\ result = Nil /\ AllGood) => Gathered

GoodInv == PacedInv /\ Sound /\ GoodAnswersSuffice

LEMMA Names == /\ DOMAIN Keys = {"BCV", "DolarAPI", "USDT"} /\ Providers \subseteq DOMAIN Keys
<1>1. DOMAIN Keys = {"BCV", "DolarAPI", "USDT"}
  BY DEF Keys
<1> QED
  BY <1>1, ProvidersAssumption

LEMMA Spends == spent[0] = 0 /\ spent[1] = 11 /\ spent[2] = 23 /\ spent[3] = 33
<1>1. spent[0] = 0 /\ spent[1] = 11 * 1
  BY DEF spent
<1>2. spent[2] = 23 /\ spent[3] = 33
  BY DEF spent
<1> QED
  BY <1>1, <1>2

LEMMA Delays == delay(1) = 1 /\ delay(2) = 2
BY DEF delay

LEMMA PacedInitially ==
    ASSUME Init
    PROVE  PacedInv
<1>1. /\ provider \in Providers /\ tries = 0 /\ failures = 0 /\ elapsed = 0
      /\ collected = [SELL |-> <<>>, BUY |-> <<>>] /\ result = Nil /\ pages = <<>>
  BY DEF Init
<1>2. collected \in [{"SELL", "BUY"} -> Seq(Prices)]
  <2> DEFINE S == Seq(Prices)
  <2>1. <<>> \in S
    OBVIOUS
  <2> HIDE DEF S
  <2>2. [SELL |-> <<>>, BUY |-> <<>>] \in [{"SELL", "BUY"} -> S]
    BY <2>1
  <2> QED
    BY <1>1, <2>2 DEF S
<1>3. pages \in Seq(Answers(provider)) /\ Len(pages) = 0
  BY <1>1
<1>4. Requests >= 1
  BY DEF Requests
<1>5. spent[tries] = 0
  BY <1>1, Spends
<1>6. Typed
  BY <1>1, <1>2, <1>3 DEF Typed
<1>7. Paced
  BY <1>1, <1>3, <1>4, <1>5 DEF Paced
<1>8. Answered
  BY <1>1 DEF Answered, Accepted
<1> QED
  BY <1>6, <1>7, <1>8 DEF PacedInv

\* A failed attempt, the pause after it or, after the third, the error.
LEMMA FailStep ==
    ASSUME Typed, Paced, AttemptFails
    PROVE  PacedInv'
<1>1. /\ result = Nil /\ tries' = tries + 1 /\ failures' = failures + 1
      /\ result' = (IF tries' < 3 THEN Nil ELSE Error)
      /\ provider' = provider /\ collected' = collected /\ pages' = pages
  BY DEF AttemptFails, maxAttempts
<1>2. PICK seconds \in AttemptTime :
        elapsed' = elapsed + seconds + (IF tries' < 3 THEN delay(tries') ELSE 0)
  BY DEF AttemptFails, maxAttempts
<1>3. seconds \in 0..10
  BY AttemptTimeAssumption
<1>4. /\ provider \in Providers /\ tries \in 0..3 /\ failures \in Nat /\ elapsed \in Nat
      /\ pages \in Seq(Answers(provider)) /\ collected \in [{"SELL", "BUY"} -> Seq(Prices)]
  BY DEF Typed
<1>5. /\ Len(pages) + 1 <= Requests /\ tries < 3 /\ tries <= failures
      /\ failures <= 2 * Len(pages) + tries /\ elapsed <= 33 * Len(pages) + spent[tries]
  BY <1>1 DEF Paced
<1>6. Len(pages) \in Nat /\ Requests \in Nat
  BY <1>4 DEF Requests
<1>7. elapsed' \in Nat /\ elapsed' <= 33 * Len(pages) + spent[tries + 1]
  <2> DEFINE n == Len(pages)
  <2>0. n \in Nat
    BY <1>6
  <2>1. CASE tries = 0
    <3>1. elapsed' = elapsed + seconds + 1
      BY <1>1, <1>2, <2>1, Delays
    <3>2. elapsed <= 33 * n + 0
      BY <1>5, <2>1, Spends
    <3>3. elapsed + seconds + 1 \in Nat /\ elapsed + seconds + 1 <= 33 * n + 11
      BY <1>3, <1>4, <2>0, <3>2
    <3>4. spent[tries + 1] = 11
      BY <2>1, Spends
    <3> QED
      BY <3>1, <3>3, <3>4
  <2>2. CASE tries = 1
    <3>1. elapsed' = elapsed + seconds + 2
      BY <1>1, <1>2, <2>2, Delays
    <3>2. elapsed <= 33 * n + 11
      BY <1>5, <2>2, Spends
    <3>3. elapsed + seconds + 2 \in Nat /\ elapsed + seconds + 2 <= 33 * n + 23
      BY <1>3, <1>4, <2>0, <3>2
    <3>4. spent[tries + 1] = 23
      BY <2>2, Spends
    <3> QED
      BY <3>1, <3>3, <3>4
  <2>3. CASE tries = 2
    <3>1. elapsed' = elapsed + seconds + 0
      BY <1>1, <1>2, <2>3
    <3>2. elapsed <= 33 * n + 23
      BY <1>5, <2>3, Spends
    <3>3. elapsed + seconds + 0 \in Nat /\ elapsed + seconds + 0 <= 33 * n + 33
      BY <1>3, <1>4, <2>0, <3>2
    <3>4. spent[tries + 1] = 33
      BY <2>3, Spends
    <3> QED
      BY <3>1, <3>3, <3>4
  <2> HIDE DEF n
  <2> QED
    BY <1>4, <1>5, <2>1, <2>2, <2>3
<1>8. tries' \in 0..3 /\ failures' \in Nat /\ tries' <= failures'
      /\ failures' <= 2 * Len(pages) + tries' /\ (result' = Nil => tries' < 3)
  <2>1. tries + 1 \in 0..3 /\ failures + 1 \in Nat /\ tries + 1 <= failures + 1
        /\ failures + 1 <= 2 * Len(pages) + (tries + 1)
    BY <1>4, <1>5, <1>6
  <2>2. result' = Nil => tries' < 3
    BY <1>1, ErrorAssumption
  <2> QED
    BY <1>1, <2>1, <2>2
<1>9. Typed'
  BY <1>1, <1>4, <1>7, <1>8 DEF Typed
<1>10. Paced'
  <2>1. Requests' = Requests /\ Len(pages') = Len(pages)
    BY <1>1 DEF Requests
  <2>2. elapsed' <= 33 * Len(pages') + spent[tries']
    BY <1>1, <1>7
  <2>3. Len(pages') + (IF result' = Nil \/ tries' > 0 THEN 1 ELSE 0) <= Requests'
    BY <1>1, <1>5, <1>6, <2>1
  <2> QED
    BY <1>8, <2>1, <2>2, <2>3 DEF Paced
<1>11. Answered'
  BY <1>1 DEF Answered, Accepted
<1> QED
  BY <1>9, <1>10, <1>11 DEF PacedInv

\* An answer: the next request, if there is one, starts anew.
LEMMA ReturnStep ==
    ASSUME Typed, Paced, NEW answer \in Answers(provider), AttemptReturns(answer),
           result' = Nil => Len(pages) + 1 < Requests,
           collected' \in [{"SELL", "BUY"} -> Seq(Prices)]
    PROVE  Typed' /\ Paced'
<1>1. /\ result = Nil /\ tries' = 0 /\ failures' = failures
      /\ provider' = provider /\ pages' = Append(pages, answer)
  BY DEF AttemptReturns
<1>2. PICK seconds \in AttemptTime : elapsed' = elapsed + seconds
  BY DEF AttemptReturns
<1>3. seconds \in 0..10
  BY AttemptTimeAssumption
<1>4. /\ provider \in Providers /\ tries \in 0..3 /\ failures \in Nat /\ elapsed \in Nat
      /\ pages \in Seq(Answers(provider))
  BY DEF Typed
<1>5. /\ Len(pages) + 1 <= Requests /\ tries < 3 /\ tries <= failures
      /\ failures <= 2 * Len(pages) + tries /\ elapsed <= 33 * Len(pages) + spent[tries]
  BY <1>1 DEF Paced
<1>6. Len(pages) \in Nat /\ Requests \in Nat
  BY <1>4 DEF Requests
<1>7. pages' \in Seq(Answers(provider)) /\ Len(pages') = Len(pages) + 1
  BY <1>1, <1>4
<1>8. elapsed' \in Nat /\ elapsed' <= 33 * (Len(pages) + 1)
  <2>1. spent[tries] <= 23 /\ spent[tries] \in Nat
    <3>1. tries = 0 \/ tries = 1 \/ tries = 2
      BY <1>4, <1>5
    <3> QED
      BY <3>1, Spends
  <2> DEFINE n == Len(pages)
  <2>2. n \in Nat /\ elapsed <= 33 * n + spent[tries]
    BY <1>5, <1>6
  <2> HIDE DEF n
  <2>3. elapsed + seconds \in Nat /\ elapsed + seconds <= 33 * (n + 1)
    BY <1>3, <1>4, <2>1, <2>2
  <2> QED
    BY <1>2, <2>3 DEF n
<1>9. failures <= 2 * (Len(pages) + 1)
  BY <1>4, <1>5, <1>6
<1>10. Typed'
  BY <1>1, <1>4, <1>7, <1>8 DEF Typed
<1>11. Paced'
  <2>1. Requests' = Requests
    BY <1>1 DEF Requests
  <2>2. elapsed' <= 33 * Len(pages') + spent[tries']
    <3> DEFINE n == 33 * (Len(pages) + 1)
    <3>1. spent[tries'] = 0 /\ n \in Nat /\ 33 * Len(pages') = n
      BY <1>1, <1>6, <1>7, Spends
    <3>2. n + 0 = n
      BY <3>1
    <3> QED
      BY <1>8, <3>1, <3>2
  <2>3. Len(pages') + (IF result' = Nil \/ tries' > 0 THEN 1 ELSE 0) <= Requests'
    <3>1. CASE result' = Nil
      BY <1>6, <1>7, <2>1, <3>1
    <3>2. CASE result' # Nil
      BY <1>1, <1>5, <1>6, <1>7, <2>1, <3>2
    <3> QED
      BY <3>1, <3>2
  <2>4. (result' = Nil => tries' < 3) /\ tries' <= failures'
        /\ failures' <= 2 * Len(pages') + tries'
    BY <1>1, <1>4, <1>6, <1>7, <1>9
  <2> QED
    BY <2>2, <2>3, <2>4 DEF Paced
<1> QED
  BY <1>10, <1>11

LEMMA BcvStep ==
    ASSUME Typed, Paced, BcvAnswers
    PROVE  PacedInv'
<1>1. PICK page \in BcvPages : /\ parseBCVRates(page) # Error /\ AttemptReturns(page)
                               /\ result' = parseBCVRates(page)
  BY DEF BcvAnswers
<1>2. provider = "BCV" /\ collected' = collected /\ provider' = provider
  BY <1>1 DEF BcvAnswers, AttemptReturns
<1>3. page \in Answers(provider) /\ collected' \in [{"SELL", "BUY"} -> Seq(Prices)]
  BY <1>2 DEF Answers, Typed
<1>4. Complete(result', "BCV")
  BY <1>1, BcvComplete
<1>5. result' # Nil
  BY <1>4, Names, CompleteIsAccepted
<1>6. Typed' /\ Paced'
  BY <1>1, <1>3, <1>5, ReturnStep
<1>7. Answered'
  BY <1>2, <1>4 DEF Answered
<1> QED
  BY <1>6, <1>7 DEF PacedInv

LEMMA DolarStep ==
    ASSUME Typed, Paced, DolarAnswers
    PROVE  PacedInv'
<1>1. PICK list \in DolarLists : AttemptReturns(list) /\ result' = dolarPrices(list)
  BY DEF DolarAnswers
<1>2. provider = "DolarAPI" /\ collected' = collected /\ provider' = provider
  BY <1>1 DEF DolarAnswers, AttemptReturns
<1>3. list \in Answers(provider) /\ collected' \in [{"SELL", "BUY"} -> Seq(Prices)]
  BY <1>2 DEF Answers, Typed
<1>4. result' # Error => Complete(result', "DolarAPI")
  BY <1>1, DolarComplete
<1>5. result' # Nil
  BY <1>4, Names, CompleteIsAccepted, ErrorAssumption
<1>6. Typed' /\ Paced'
  BY <1>1, <1>3, <1>5, ReturnStep
<1>7. Answered'
  BY <1>2, <1>4 DEF Answered, Accepted
<1> QED
  BY <1>6, <1>7 DEF PacedInv

\* What getAllOrders asks for next, and what becomes of the answer.
LEMMA BinanceAnswer ==
    ASSUME Typed, Paced, BinanceAnswers
    PROVE  \E answer \in P2PAnswers, type \in {"SELL", "BUY"}, number \in {1, 2} :
             LET page == [type |-> type, page |-> number,
                          success |-> answer.success, data |-> answer.data]
             IN  /\ AttemptReturns(page) /\ page \in Answers(provider)
                 /\ type = (IF Len(pages) < 2 THEN "SELL" ELSE "BUY")
                 /\ <<type, number>> = p2pRequests[Len(pages) + 1]
                 /\ \/ orders(answer) = Error /\ result' = Error /\ collected' = collected
                    \/ /\ orders(answer) # Error
                       /\ collected' = [collected EXCEPT ![type] = @ \o orders(answer)]
                       /\ result' = IF Len(pages) + 1 < 4 THEN Nil ELSE binancePrices(collected')
<1>1. PICK answer \in P2PAnswers :
         LET request == p2pRequests[Len(pages) + 1] IN
         /\ AttemptReturns([type |-> request[1], page |-> request[2],
                            success |-> answer.success, data |-> answer.data])
         /\ IF orders(answer) = Error THEN UNCHANGED collected /\ result' = Error
            ELSE /\ Collect(request[1], orders(answer))
                 /\ result' = IF Len(pages') < Len(p2pRequests) THEN Nil
                              ELSE binancePrices(collected')
  BY DEF BinanceAnswers
<1> DEFINE request == p2pRequests[Len(pages) + 1]
<1> DEFINE type == request[1]
<1> DEFINE number == request[2]
<1> DEFINE page == [type |-> type, page |-> number, success |-> answer.success, data |-> answer.data]
<1>2. provider = "USDT" /\ result = Nil /\ pages' = Append(pages, page)
  BY <1>1 DEF BinanceAnswers, AttemptReturns
<1>3. Len(pages) \in 0..3 /\ pages \in Seq(Answers(provider))
  <2>1. Len(pages) + 1 <= 4 /\ pages \in Seq(Answers(provider))
    BY <1>2 DEF Typed, Paced, Requests
  <2> DEFINE n == Len(pages)
  <2>2. n \in Nat /\ n + 1 <= 4
    BY <2>1
  <2> HIDE DEF n
  <2>3. n \in 0..3
    BY <2>2
  <2> QED
    BY <2>1, <2>3 DEF n
<1>4. type \in {"SELL", "BUY"} /\ number \in {1, 2}
      /\ type = (IF Len(pages) < 2 THEN "SELL" ELSE "BUY")
      /\ <<type, number>> = p2pRequests[Len(pages) + 1]
  <2> DEFINE n == Len(pages)
  <2>1. n = 0 \/ n = 1 \/ n = 2 \/ n = 3
    BY <1>3
  <2> HIDE DEF n
  <2>2. /\ p2pRequests[0 + 1] = <<"SELL", 1>> /\ p2pRequests[1 + 1] = <<"SELL", 2>>
        /\ p2pRequests[2 + 1] = <<"BUY", 1>> /\ p2pRequests[3 + 1] = <<"BUY", 2>>
    BY DEF p2pRequests
  <2>3. request = p2pRequests[n + 1]
    BY DEF n
  <2>4. \/ request \in {<<"SELL", 1>>, <<"SELL", 2>>} /\ n < 2
        \/ request \in {<<"BUY", 1>>, <<"BUY", 2>>} /\ ~(n < 2)
    <3> HIDE DEF request
    <3> QED
      BY <2>1, <2>2, <2>3
  <2> HIDE DEF request
  <2>5. request[1] \in {"SELL", "BUY"} /\ request[2] \in {1, 2}
        /\ request[1] = (IF n < 2 THEN "SELL" ELSE "BUY")
        /\ <<request[1], request[2]>> = request
    BY <2>4
  <2> QED
    BY <2>3, <2>5 DEF n
<1>5. Len(pages') = Len(pages) + 1 /\ Len(p2pRequests) = 4
  BY <1>2, <1>3 DEF p2pRequests
<1>6. page \in Answers(provider)
  <2>1. answer.success \in BOOLEAN /\ answer.data \in Seq(Prices \union {Unparsable})
    BY AnswersAssumption
  <2> HIDE DEF type, number
  <2> QED
    BY <1>2, <1>4, <2>1 DEF Answers
<1>7. \/ orders(answer) = Error /\ result' = Error /\ collected' = collected
      \/ /\ orders(answer) # Error
         /\ collected' = [collected EXCEPT ![type] = @ \o orders(answer)]
         /\ result' = IF Len(pages) + 1 < 4 THEN Nil ELSE binancePrices(collected')
  BY <1>1, <1>5 DEF Collect
<1>8. AttemptReturns(page)
  BY <1>1
<1> HIDE DEF type, number
<1> QED
  BY <1>4, <1>6, <1>7, <1>8

LEMMA BinanceStep ==
    ASSUME Typed, Paced, BinanceAnswers
    PROVE  PacedInv'
<1>1. PICK answer \in P2PAnswers, type \in {"SELL", "BUY"}, number \in {1, 2} :
             LET page == [type |-> type, page |-> number,
                          success |-> answer.success, data |-> answer.data]
             IN  /\ AttemptReturns(page) /\ page \in Answers(provider)
                 /\ \/ orders(answer) = Error /\ result' = Error /\ collected' = collected
                    \/ /\ orders(answer) # Error
                       /\ collected' = [collected EXCEPT ![type] = @ \o orders(answer)]
                       /\ result' = IF Len(pages) + 1 < 4 THEN Nil ELSE binancePrices(collected')
  BY BinanceAnswer, ZenonT(40)
<1> DEFINE page == [type |-> type, page |-> number, success |-> answer.success, data |-> answer.data]
<1>2. AttemptReturns(page) /\ page \in Answers(provider)
  BY <1>1
<1> HIDE DEF page
<1>3. provider = "USDT" /\ provider' = provider
  BY <1>2 DEF BinanceAnswers, AttemptReturns
<1>4. collected \in [{"SELL", "BUY"} -> Seq(Prices)]
  BY DEF Typed
<1>5. orders(answer) \in Seq(Prices) \union {Error}
  <2>1. answer.data \in Seq(Prices \union {Unparsable})
    BY AnswersAssumption
  <2> QED
    BY <2>1, OrdersTyped
<1>6. collected' \in [{"SELL", "BUY"} -> Seq(Prices)]
  <2>1. CASE orders(answer) = Error
    BY <1>1, <1>4, <2>1
  <2>2. CASE orders(answer) # Error
    <3>1. collected[type] \o orders(answer) \in Seq(Prices)
      BY <1>4, <1>5, <2>2
    <3>2. collected' = [collected EXCEPT ![type] = collected[type] \o orders(answer)]
      BY <1>1, <2>2
    <3> DEFINE S == Seq(Prices)
    <3> HIDE DEF S
    <3>3. collected \in [{"SELL", "BUY"} -> S] /\ collected[type] \o orders(answer) \in S
      BY <1>4, <3>1 DEF S
    <3>4. collected' \in [{"SELL", "BUY"} -> S]
      BY <3>2, <3>3
    <3> QED
      BY <3>4 DEF S
  <2> QED
    BY <2>1, <2>2
<1>7. result' \notin {Nil, Error} => Complete(result', "USDT")
  <2> SUFFICES ASSUME result' \notin {Nil, Error} PROVE Complete(result', "USDT")
    OBVIOUS
  <2>1. result' = binancePrices(collected')
    BY <1>1
  <2> DEFINE all == collected'
  <2>2. all \in [{"SELL", "BUY"} -> Seq(Prices)] /\ binancePrices(all) # Error
    BY <1>6, <2>1
  <2> HIDE DEF all
  <2>3. Complete(binancePrices(all), "USDT")
    BY <2>2, BinanceComplete
  <2> QED
    BY <2>1, <2>3 DEF all
<1>8. result' = Nil => Len(pages) + 1 < Requests
  <2>1. CASE orders(answer) = Error
    BY <1>1, <2>1, ErrorAssumption
  <2>2. CASE Len(pages) + 1 < 4
    BY <1>3, <2>2 DEF Requests
  <2>3. CASE orders(answer) # Error /\ ~(Len(pages) + 1 < 4)
    <3> DEFINE all == collected'
    <3>1. result' = binancePrices(all)
      BY <1>1, <2>3
    <3>2. all \in [{"SELL", "BUY"} -> Seq(Prices)]
      BY <1>6
    <3> HIDE DEF all
    <3>3. binancePrices(all) # Error => binancePrices(all) # Nil
      BY <3>2, BinanceComplete, Names, CompleteIsAccepted
    <3> QED
      BY <3>1, <3>3, ErrorAssumption
  <2> QED
    BY <2>1, <2>2, <2>3
<1>9. Typed' /\ Paced'
  BY <1>2, <1>6, <1>8, ReturnStep
<1>10. Answered'
  BY <1>3, <1>7 DEF Answered, Accepted
<1> QED
  BY <1>9, <1>10 DEF PacedInv

LEMMA PacedStep ==
    ASSUME PacedInv, [Next]_vars
    PROVE  PacedInv'
<1>1. Typed /\ Paced /\ Answered
  BY DEF PacedInv
<1>2. CASE AttemptFails
  BY <1>1, <1>2, FailStep
<1>3. CASE BcvAnswers
  BY <1>1, <1>3, BcvStep
<1>4. CASE DolarAnswers
  BY <1>1, <1>4, DolarStep
<1>5. CASE BinanceAnswers
  BY <1>1, <1>5, BinanceStep
<1>6. CASE UNCHANGED vars
  BY <1>1, <1>6 DEF vars, PacedInv, Typed, Paced, Answered, Accepted, Requests
<1> QED
  BY <1>2, <1>3, <1>4, <1>5, <1>6 DEF Next

LEMMA AlwaysPaced == Spec => []PacedInv
<1>1. Init => PacedInv
  BY PacedInitially
<1>2. PacedInv /\ [Next]_vars => PacedInv'
  BY PacedStep
<1> QED
  BY <1>1, <1>2, PTL DEF Spec

\* Type correctness of GetPrices: it makes no more requests than it has to, and has at
\* most three failed attempts for each.
THEOREM TypeCorrect == Spec => []TypeOK
<1>1. PacedInv => TypeOK
  <2> SUFFICES ASSUME PacedInv PROVE TypeOK
    OBVIOUS
  <2>1. Typed /\ Paced /\ Answered
    BY DEF PacedInv
  <2>2. /\ provider \in Providers /\ tries \in 0..3 /\ failures \in Nat /\ elapsed \in Nat
        /\ pages \in Seq(Answers(provider))
    BY <2>1 DEF Typed
  <2>3. collected \in [{"SELL", "BUY"} -> Seq({NonFinite} \union Int)]
    <3>1. Prices = {NonFinite} \union Int
      BY DEF Prices
    <3> QED
      BY <2>1, <3>1 DEF Typed
  <2>4. /\ Len(pages) + (IF result = Nil \/ tries > 0 THEN 1 ELSE 0) <= Requests
        /\ result = Nil => tries < 3
        /\ tries <= failures /\ failures <= 2 * Len(pages) + tries
    BY <2>1 DEF Paced
  <2>5. Len(pages) \in Nat /\ Requests = (IF provider = "USDT" THEN 4 ELSE 1)
    BY <2>2 DEF Requests
  <2>6. Len(pages) <= Requests /\ failures <= 12
    BY <2>2, <2>4, <2>5
  <2>7. Accepted => DOMAIN result = {"values", "date"}
    BY <2>1, <2>2, Names, CompleteIsAccepted DEF Answered
  <2> QED
    BY <2>2, <2>3, <2>4, <2>5, <2>6, <2>7 DEF TypeOK
<1> QED
  BY <1>1, AlwaysPaced, PTL

\* GetPrices takes at most 33 seconds for each request, however its attempts fall out.
THEOREM FetchInTime == Spec => []WithinBudget
<1>1. PacedInv => WithinBudget
  <2> SUFFICES ASSUME PacedInv PROVE WithinBudget
    OBVIOUS
  <2>1. Typed /\ Paced
    BY DEF PacedInv
  <2>2. tries \in 0..3 /\ elapsed \in Nat /\ pages \in Seq(Answers(provider))
    BY <2>1 DEF Typed
  <2> DEFINE n == Len(pages)
  <2>3. /\ n + (IF result = Nil \/ tries > 0 THEN 1 ELSE 0) <= Requests
        /\ elapsed <= 33 * n + spent[tries]
    BY <2>1 DEF Paced
  <2>4. n \in Nat /\ Requests = (IF provider = "USDT" THEN 4 ELSE 1) /\ Requests \in Nat
    BY <2>2 DEF Requests
  <2> HIDE DEF n
  <2>5. CASE tries = 0
    BY <2>2, <2>3, <2>4, <2>5, Spends DEF WithinBudget
  <2>6. CASE tries > 0
    <3>1. spent[tries] <= 33 /\ spent[tries] \in Nat
      <4>1. tries = 1 \/ tries = 2 \/ tries = 3
        BY <2>2, <2>6
      <4> QED
        BY <4>1, Spends
    <3>2. n + 1 <= Requests
      BY <2>3, <2>6
    <3> QED
      BY <2>2, <2>3, <2>4, <3>1, <3>2 DEF WithinBudget
  <2> QED
    BY <2>2, <2>5, <2>6
<1> QED
  BY <1>1, AlwaysPaced, PTL

\* Every response has all rates of its provider, each positive, and the BCV's its date.
THEOREM AlwaysAllRates == Spec => []AllRatesOrError
<1>1. PacedInv => AllRatesOrError
  <2> SUFFICES ASSUME PacedInv, Accepted PROVE AllRatesOrError
    BY DEF AllRatesOrError
  <2>1. Complete(result, provider) /\ provider \in DOMAIN Keys
    BY Names DEF PacedInv, Typed, Answered
  <2> QED
    BY <2>1, CompleteIsAccepted DEF AllRatesOrError
<1> QED
  BY <1>1, AlwaysPaced, PTL

--------------------------------------------------------------------------------
(* Good answers.                                                           *)

\* Averages of offers that are not too large, with one that counts, are finite.
LEMMA AverageFinite ==
    ASSUME NEW prices \in Seq(0..Limit), Len(prices) <= 4 * rows,
           Counts(prices)
    PROVE  averageValid(prices) # Error
<1> DEFINE n == Len(prices)
<1> DEFINE total == totalValid(prices)
<1>1. MaxFloat \in Nat
  BY AnswersAssumption
<1>2. Limit \in Nat /\ 80 * Limit <= MaxFloat
  BY <1>1 DEF Limit, rows
<1>3. total \in Nat \X Nat /\ total[1] <= n * Limit /\ total[2] > 0
  BY <1>2, TotalBounded DEF Counts
<1>4. n \in Nat /\ n <= 80
  BY DEF rows
<1>5. n * Limit <= 80 * Limit /\ n * Limit \in Nat
  <2> HIDE DEF n
  <2> QED
    BY <1>2, <1>4
<1> HIDE DEF n, total
<1>6. total[1] \in Nat /\ total[2] \in Nat
  BY <1>3
<1>7. total[1] <= MaxFloat
  <2> DEFINE a == n * Limit
  <2> DEFINE b == 80 * Limit
  <2>1. a \in Nat /\ b \in Nat /\ a <= b /\ b <= MaxFloat /\ total[1] <= a
    BY <1>2, <1>3, <1>5
  <2> HIDE DEF a, b
  <2> QED
    BY <1>1, <1>6, <2>1
<1>8. averageValid(prices) = total
  BY <1>1, <1>3, <1>6, <1>7 DEF averageValid, total
<1> QED
  BY <1>3, <1>8, ErrorAssumption

\* An offer that counts does so in a longer list.
LEMMA ConcatCounts ==
    ASSUME NEW s \in Seq(0..Limit), NEW t \in Seq(0..Limit)
    PROVE  /\ s \o t \in Seq(0..Limit) /\ Len(s \o t) = Len(s) + Len(t)
           /\ Counts(s) \/ Counts(t) => Counts(s \o t)
<1> DEFINE both == s \o t
<1>1. /\ both \in Seq(0..Limit) /\ Len(both) = Len(s) + Len(t)
      /\ Len(s) \in Nat /\ Len(t) \in Nat
      /\ \A i \in 1..Len(s) : both[i] = s[i]
      /\ \A i \in 1..Len(t) : both[Len(s) + i] = t[i]
  OBVIOUS
<1>2. ASSUME NEW i \in 1..Len(s), s[i] > 0 PROVE Counts(both)
  <2>1. i \in 1..Len(both) /\ both[i] > 0
    BY <1>1, <1>2
  <2> QED
    BY <2>1 DEF Counts
<1>3. ASSUME NEW i \in 1..Len(t), t[i] > 0 PROVE Counts(both)
  <2>1. Len(s) + i \in 1..Len(both) /\ both[Len(s) + i] > 0
    <3> HIDE DEF both
    <3> QED
      BY <1>1, <1>3
  <2> QED
    BY <2>1 DEF Counts
<1> QED
  BY <1>1, <1>2, <1>3 DEF Counts

\* With three of them there is a response.
LEMMA GoodPrices ==
    ASSUME NEW all \in [{"SELL", "BUY"} -> Seq(Prices)],
           all.SELL \in Seq(0..Limit), all.BUY \in Seq(0..Limit),
           Len(all.SELL) + Len(all.BUY) <= 4 * rows,
           Counts(all.SELL), Counts(all.BUY)
    PROVE  binancePrices(all) # Error
<1> DEFINE sell == all.SELL
<1> DEFINE buy == all.BUY
<1> DEFINE both == sell \o buy
<1>1. sell \in Seq(0..Limit) /\ buy \in Seq(0..Limit) /\ Len(sell) + Len(buy) <= 80
      /\ Counts(sell) /\ Counts(buy)
  BY DEF rows
<1> HIDE DEF sell, buy
<1>2. both \in Seq(0..Limit) /\ Len(both) = Len(sell) + Len(buy) /\ Counts(both)
  BY <1>1, ConcatCounts
<1>3. Len(sell) \in Nat /\ Len(buy) \in Nat
  BY <1>1
<1>4. Len(sell) <= 4 * rows /\ Len(buy) <= 4 * rows /\ Len(both) <= 4 * rows
  BY <1>1, <1>2, <1>3 DEF rows
<1> HIDE DEF both
<1>6. averageValid(sell) # Error /\ averageValid(buy) # Error /\ averageValid(both) # Error
  BY <1>1, <1>2, <1>4, AverageFinite
<1> DEFINE values == [USDT |-> averageValid(both), USDT_BINANCE_SELL |-> averageValid(buy),
                      USDT_BINANCE_BUY |-> averageValid(sell)]
<1>7. \A key \in DOMAIN values : values[key] # Error
  BY <1>6
<1>8. binancePrices(all) = [values |-> values, date |-> Nil]
  BY <1>7 DEF binancePrices, both, sell, buy
<1>9. values \in [Keys["USDT"] -> Int \X Int]
  <2>1. sell \in Seq(Prices) /\ buy \in Seq(Prices)
    BY DEF sell, buy
  <2>2. both \in Seq(Prices)
    BY <2>1 DEF both
  <2> DEFINE P == (Nat \ {0}) \X (Nat \ {0})
  <2>3. averageValid(both) \in P /\ averageValid(sell) \in P /\ averageValid(buy) \in P
    BY <1>6, <2>1, <2>2, AveragePositive
  <2> DEFINE Q == Int \X Int
  <2>4. averageValid(both) \in Q /\ averageValid(sell) \in Q /\ averageValid(buy) \in Q
    BY <2>3
  <2> HIDE DEF Q
  <2>5. values \in [Keys["USDT"] -> Q]
    BY <2>4 DEF Keys
  <2> QED
    BY <2>5 DEF Q
<1> HIDE DEF values
<1>10. [values |-> values, date |-> Nil] \in Responses("USDT")
  BY <1>9 DEF Responses
<1> QED
  BY <1>8, <1>10, Names, ErrorAssumption

\* A list with what it should have makes a response.
LEMMA GoodList ==
    ASSUME NEW list \in DolarLists, provider = "DolarAPI", GoodAnswer(list)
    PROVE  dolarPrices(list) # Error
<1>1. \A moneda \in {"USD", "EUR"} :
         /\ \E i \in DOMAIN list : list[i].moneda = moneda
         /\ \A i \in DOMAIN list : list[i].moneda = moneda => list[i].promedio > 0
  BY DEF GoodAnswer
<1>2. list \in Seq([moneda : STRING, promedio : Int])
  BY AnswersAssumption
<1>3. ASSUME NEW moneda \in {"USD", "EUR"}
      PROVE  /\ promedio(list, moneda) \in Int /\ promedio(list, moneda) > 0
             /\ moneda \in {e.moneda : e \in ToSet(list)}
  <2>1. PICK i \in DOMAIN list : list[i].moneda = moneda /\ promedio(list, moneda) = list[i].promedio
    BY <1>1, <1>2, LastEntry, ZenonT(40)
  <2> DEFINE Entry == [moneda : STRING, promedio : Int]
  <2>2. list[i] \in Entry
    <3>1. list \in Seq(Entry)
      BY <1>2
    <3> HIDE DEF Entry
    <3> QED
      BY <2>1, <3>1
  <2>3. moneda \in {e.moneda : e \in ToSet(list)}
    BY <2>1 DEF ToSet
  <2> QED
    BY <1>1, <2>1, <2>2, <2>3
<1> DEFINE usd == promedio(list, "USD")
<1> DEFINE eur == promedio(list, "EUR")
<1>4. usd \in Int /\ usd > 0 /\ eur \in Int /\ eur > 0
      /\ {"USD", "EUR"} \subseteq {e.moneda : e \in ToSet(list)}
  BY <1>3
<1> HIDE DEF usd, eur
<1>5. ~(usd <= 0) /\ ~(eur <= 0)
  BY <1>4
<1>6. dolarPrices(list) = [values |-> [USD_BCV |-> <<usd, 1>>, EUR_BCV |-> <<eur, 1>>], date |-> Nil]
  BY <1>4, <1>5 DEF dolarPrices, usd, eur
<1> DEFINE Q == Int \X Int
<1>7. <<usd, 1>> \in Q /\ <<eur, 1>> \in Q
  BY <1>4
<1> HIDE DEF Q
<1>8. [USD_BCV |-> <<usd, 1>>, EUR_BCV |-> <<eur, 1>>] \in [Keys["DolarAPI"] -> Q]
  BY <1>7 DEF Keys
<1>9. dolarPrices(list) \in Responses("DolarAPI")
  BY <1>6, <1>8 DEF Responses, Q
<1> QED
  BY <1>9, Names, ErrorAssumption

\* If all answers are good after one more, that one is and all others were.
LEMMA GoodBefore ==
    ASSUME NEW answer, pages \in Seq(Answers(provider)), pages' = Append(pages, answer),
           provider' = provider, AllGood'
    PROVE  AllGood /\ GoodAnswer(answer)
<1>1. \A i \in DOMAIN pages' : GoodAnswer(pages'[i])
  <2>1. ASSUME NEW i \in DOMAIN pages' PROVE GoodAnswer(pages'[i])
    BY <2>1 DEF AllGood, GoodAnswer
  <2> QED
    BY <2>1
<1> DEFINE n == Len(pages)
<1>2. n + 1 \in DOMAIN pages' /\ pages'[n + 1] = answer
  OBVIOUS
<1>3. \A i \in DOMAIN pages : i \in DOMAIN pages' /\ pages'[i] = pages[i]
  OBVIOUS
<1> QED
  BY <1>1, <1>2, <1>3 DEF AllGood

\* The offers of a good page are collected as they are.
LEMMA GoodPage ==
    ASSUME NEW answer \in P2PAnswers, NEW page, page.success = answer.success,
           page.data = answer.data, provider = "USDT", GoodAnswer(page)
    PROVE  /\ orders(answer) = answer.data /\ orders(answer) # Error
           /\ answer.data \in Seq(0..Limit) /\ Len(answer.data) <= rows /\ Counts(answer.data)
<1> DEFINE data == answer.data
<1>1. answer.success /\ data \in Seq(Prices \union {Unparsable}) /\ MaxFloat \in Nat
  BY AnswersAssumption DEF GoodAnswer
<1>2. /\ Len(data) <= rows
      /\ \A i \in DOMAIN data : data[i] \in 0..Limit
      /\ \E i \in DOMAIN data : data[i] > 0
  BY DEF GoodAnswer, Limit
<1>3. DOMAIN data = 1..Len(data) /\ Len(data) \in Nat
  BY <1>1
<1>4. Limit \in Nat
  BY <1>1 DEF Limit, rows
<1> HIDE DEF data
<1>5. data \in Seq(0..Limit)
  <2> DEFINE S == 0..Limit
  <2>1. data = [i \in 1..Len(data) |-> data[i]]
    BY <1>1
  <2>2. \A i \in 1..Len(data) : data[i] \in S
    BY <1>2, <1>3
  <2> HIDE DEF S
  <2>3. [i \in 1..Len(data) |-> data[i]] \in Seq(S)
    BY <1>3, <2>2
  <2> QED
    BY <2>1, <2>3 DEF S
<1>6. data \in Seq(Prices)
  BY <1>4, <1>5, NumbersArePrices
<1>7. Counts(data) /\ data # <<>>
  BY <1>2, <1>3 DEF Counts
<1>8. orders(answer) = data
  BY <1>1, <1>6, <1>7, OrdersComplete DEF data
<1>9. data # Error
  BY <1>6, ErrorAssumption
<1> QED
  BY <1>2, <1>5, <1>7, <1>8, <1>9 DEF data

\* One more good page of offers.
LEMMA GatherStep ==
    ASSUME PacedInv, Sound, BinanceAnswers, AllGood'
    PROVE  /\ Gathered'
           /\ Len(pages') \in 1..4
           /\ result' = IF Len(pages') < 4 THEN Nil ELSE binancePrices(collected')
<1>1. Typed /\ Paced
  BY DEF PacedInv
<1>2. PICK answer \in P2PAnswers, type \in {"SELL", "BUY"}, number \in {1, 2} :
             LET page == [type |-> type, page |-> number,
                          success |-> answer.success, data |-> answer.data]
             IN  /\ AttemptReturns(page) /\ page \in Answers(provider)
                 /\ type = (IF Len(pages) < 2 THEN "SELL" ELSE "BUY")
                 /\ \/ orders(answer) = Error /\ result' = Error /\ collected' = collected
                    \/ /\ orders(answer) # Error
                       /\ collected' = [collected EXCEPT ![type] = @ \o orders(answer)]
                       /\ result' = IF Len(pages) + 1 < 4 THEN Nil ELSE binancePrices(collected')
  BY <1>1, BinanceAnswer, ZenonT(40)
<1> DEFINE page == [type |-> type, page |-> number, success |-> answer.success, data |-> answer.data]
<1> DEFINE data == answer.data
<1> DEFINE n == Len(pages)
<1>3. AttemptReturns(page) /\ page.success = answer.success /\ page.data = data
  BY <1>2
<1> HIDE DEF page
<1>4. provider = "USDT" /\ provider' = provider /\ result = Nil /\ pages' = Append(pages, page)
  BY <1>3 DEF BinanceAnswers, AttemptReturns
<1>5. pages \in Seq(Answers(provider)) /\ collected \in [{"SELL", "BUY"} -> Seq(Prices)]
  BY <1>1 DEF Typed
<1>6. AllGood /\ GoodAnswer(page)
  BY <1>4, <1>5, GoodBefore
<1>7. orders(answer) = data /\ orders(answer) # Error
      /\ data \in Seq(0..Limit) /\ Len(data) <= rows /\ Counts(data)
  BY <1>3, <1>4, <1>6, GoodPage
<1> HIDE DEF data
<1>8. n \in 0..3 /\ Len(pages') = n + 1
  <2>1. n + 1 <= 4
    BY <1>1, <1>4 DEF Paced, Requests
  <2>2. n \in Nat /\ Len(pages') = n + 1
    BY <1>4, <1>5
  <2> HIDE DEF n
  <2> QED
    BY <2>1, <2>2
<1>9. Gathered
  BY <1>4, <1>6 DEF Sound
<1> DEFINE sell == collected.SELL
<1> DEFINE buy == collected.BUY
<1>10. sell \in Seq(0..Limit) /\ buy \in Seq(0..Limit) /\ Len(sell) + Len(buy) <= rows * n
       /\ (n >= 1 => Counts(sell)) /\ (n >= 3 => Counts(buy))
  BY <1>9 DEF Gathered
<1>11. result' = (IF n + 1 < 4 THEN Nil ELSE binancePrices(collected'))
  BY <1>2, <1>7
<1>12. \/ type = "SELL" /\ n < 2 /\ collected'.SELL = sell \o data /\ collected'.BUY = buy
       \/ type = "BUY" /\ ~(n < 2) /\ collected'.SELL = sell /\ collected'.BUY = buy \o data
  <2>1. collected' = [collected EXCEPT ![type] = collected[type] \o data]
    BY <1>2, <1>7
  <2>2. type = IF n < 2 THEN "SELL" ELSE "BUY"
    BY <1>2
  <2> QED
    BY <1>5, <2>1, <2>2
<1>13. Gathered'
  <2> DEFINE sells == collected'.SELL
  <2> DEFINE buys == collected'.BUY
  <2>1. /\ sells \in Seq(0..Limit) /\ buys \in Seq(0..Limit)
        /\ Len(sells) + Len(buys) = Len(sell) + Len(buy) + Len(data)
        /\ Counts(sells) /\ (n >= 2 => Counts(buys))
    <3> HIDE DEF sell, buy
    <3>1. CASE type = "SELL" /\ n < 2 /\ sells = sell \o data /\ buys = buy
      <4>1. sell \o data \in Seq(0..Limit) /\ Len(sell \o data) = Len(sell) + Len(data)
            /\ Counts(sell \o data)
        BY <1>7, <1>10, ConcatCounts
      <4>2. Len(sell) \in Nat /\ Len(buy) \in Nat /\ Len(data) \in Nat
        BY <1>7, <1>10
      <4> HIDE DEF sells, buys, n
      <4> QED
        BY <1>8, <1>10, <3>1, <4>1, <4>2
    <3>2. CASE type = "BUY" /\ ~(n < 2) /\ sells = sell /\ buys = buy \o data
      <4>1. buy \o data \in Seq(0..Limit) /\ Len(buy \o data) = Len(buy) + Len(data)
            /\ Counts(buy \o data)
        BY <1>7, <1>10, ConcatCounts
      <4>2. Len(sell) \in Nat /\ Len(buy) \in Nat /\ Len(data) \in Nat
        BY <1>7, <1>10
      <4> HIDE DEF sells, buys, n
      <4> QED
        BY <1>8, <1>10, <3>2, <4>1, <4>2
    <3> QED
      BY <1>12, <3>1, <3>2
  <2>2. Len(sells) + Len(buys) <= rows * (n + 1)
    <3> HIDE DEF sell, buy, sells, buys, n
    <3>1. Len(sell) \in Nat /\ Len(buy) \in Nat /\ Len(data) \in Nat
      BY <1>7, <1>10
    <3> QED
      BY <1>7, <1>8, <1>10, <2>1, <3>1 DEF rows
  <2>3. Gathered' <=> /\ sells \in Seq(0..Limit) /\ buys \in Seq(0..Limit)
                      /\ Len(sells) + Len(buys) <= rows * Len(pages')
                      /\ Len(pages') >= 1 => Counts(sells)
                      /\ Len(pages') >= 3 => Counts(buys)
    BY DEF Gathered, Counts, Limit, rows
  <2> HIDE DEF sells, buys, n
  <2> QED
    BY <1>8, <2>1, <2>2, <2>3
<1>14. Len(pages') \in 1..4
  <2> HIDE DEF n
  <2> QED
    BY <1>8
<1> QED
  BY <1>8, <1>11, <1>13, <1>14

\* A response for a good answer, unless there are more requests to make.
LEMMA GoodStep ==
    ASSUME PacedInv, Sound, GoodAnswersSuffice, Next, failures' < 3 /\ AllGood'
    PROVE  result' # Error
<1>1. Typed /\ Paced
  BY DEF PacedInv
<1>2. CASE AttemptFails
  <2>1. PacedInv'
    BY <1>1, <1>2, FailStep
  <2>2. tries' \in 0..3 /\ failures' \in Nat /\ tries' <= failures'
    BY <2>1 DEF PacedInv, Typed, Paced
  <2>3. tries' < 3
    <3> DEFINE t == tries'
    <3> DEFINE f == failures'
    <3>1. t \in 0..3 /\ f \in Nat /\ t <= f /\ f < 3
      BY <2>2
    <3> HIDE DEF t, f
    <3>2. t < 3
      BY <3>1
    <3> QED
      BY <3>2 DEF t
  <2> QED
    BY <1>2, <2>3, ErrorAssumption DEF AttemptFails, maxAttempts
<1>3. CASE BcvAnswers
  BY <1>3 DEF BcvAnswers
<1>4. CASE DolarAnswers
  <2>1. PICK list \in DolarLists : AttemptReturns(list) /\ result' = dolarPrices(list)
    BY <1>4 DEF DolarAnswers
  <2>2. provider = "DolarAPI" /\ provider' = provider /\ pages' = Append(pages, list)
    BY <1>4, <2>1 DEF DolarAnswers, AttemptReturns
  <2>3. GoodAnswer(list)
    BY <1>1, <2>2, GoodBefore DEF Typed
  <2> QED
    BY <2>1, <2>2, <2>3, GoodList
<1>5. CASE BinanceAnswers
  <2>1. /\ Gathered' /\ Len(pages') \in 1..4
        /\ result' = IF Len(pages') < 4 THEN Nil ELSE binancePrices(collected')
    BY <1>5, GatherStep
  <2>2. CASE Len(pages') < 4
    BY <2>1, <2>2, ErrorAssumption
  <2>3. CASE ~(Len(pages') < 4)
    <3>1. Typed'
      BY <1>1, <1>5, BinanceStep DEF PacedInv
    <3> DEFINE all == collected'
    <3> DEFINE n == Len(pages')
    <3>2. /\ all \in [{"SELL", "BUY"} -> Seq(Prices)]
          /\ all.SELL \in Seq(0..Limit) /\ all.BUY \in Seq(0..Limit)
          /\ Len(all.SELL) + Len(all.BUY) <= rows * n
          /\ n >= 1 => Counts(all.SELL)
          /\ n >= 3 => Counts(all.BUY)
      BY <2>1, <3>1 DEF Typed, Gathered, Counts, Limit, rows
    <3>3. n = 4 /\ n >= 1 /\ n >= 3 /\ rows * n = 4 * rows
      <4>1. n \in 1..4 /\ ~(n < 4)
        BY <2>1, <2>3
      <4> HIDE DEF n
      <4> QED
        BY <4>1 DEF rows
    <3> HIDE DEF all
    <3>4. binancePrices(all) # Error
      BY <3>2, <3>3, GoodPrices
    <3> QED
      BY <2>1, <2>3, <3>4 DEF all
  <2> QED
    BY <2>2, <2>3
<1> QED
  BY <1>2, <1>3, <1>4, <1>5 DEF Next

LEMMA SoundStep ==
    ASSUME PacedInv, Sound, Next
    PROVE  Sound'
<1> SUFFICES ASSUME provider' = "USDT", result' = Nil, AllGood' PROVE Gathered'
  BY DEF Sound
<1>1. CASE AttemptFails
  <2>1. result = Nil /\ provider' = provider /\ pages' = pages /\ collected' = collected
    BY <1>1 DEF AttemptFails
  <2>2. AllGood
    BY <2>1 DEF AllGood, GoodAnswer
  <2>3. Gathered
    BY <2>1, <2>2 DEF Sound
  <2> QED
    BY <2>1, <2>3 DEF Gathered, Counts
<1>2. CASE BcvAnswers
  BY <1>2 DEF BcvAnswers, AttemptReturns
<1>3. CASE DolarAnswers
  BY <1>3 DEF DolarAnswers, AttemptReturns
<1>4. CASE BinanceAnswers
  BY <1>4, GatherStep
<1> QED
  BY <1>1, <1>2, <1>3, <1>4 DEF Next

\* Fewer than three failed attempts never make GetPrices fail, wherever they fall among
\* its requests, as long as every answer holds what it should.
THEOREM GoodAnswersAlwaysSuffice == Spec => []GoodAnswersSuffice
<1>1. Init => GoodInv
  <2> SUFFICES ASSUME Init PROVE GoodInv
    OBVIOUS
  <2>1. PacedInv
    BY PacedInitially
  <2>2. collected = [SELL |-> <<>>, BUY |-> <<>>] /\ result = Nil /\ pages = <<>>
    BY DEF Init
  <2>3. Gathered
    <3>1. collected.SELL = <<>> /\ collected.BUY = <<>> /\ Len(pages) = 0
      BY <2>2
    <3>2. Len(collected.SELL) + Len(collected.BUY) <= rows * Len(pages)
      BY <3>1 DEF rows
    <3>3. ~(Len(pages) >= 1) /\ ~(Len(pages) >= 3)
      BY <3>1
    <3> QED
      BY <3>1, <3>2, <3>3 DEF Gathered
  <2> QED
    BY <2>1, <2>2, <2>3, ErrorAssumption DEF GoodInv, Sound, GoodAnswersSuffice
<1>2. GoodInv /\ [Next]_vars => GoodInv'
  <2> SUFFICES ASSUME GoodInv, [Next]_vars PROVE GoodInv'
    OBVIOUS
  <2>1. PacedInv /\ Sound /\ GoodAnswersSuffice
    BY DEF GoodInv
  <2>2. PacedInv'
    BY <2>1, PacedStep
  <2>3. CASE Next
    <3>1. Sound'
      BY <2>1, <2>3, SoundStep
    <3>2. GoodAnswersSuffice'
      BY <2>1, <2>3, GoodStep DEF GoodAnswersSuffice, AllGood
    <3> QED
      BY <2>2, <3>1, <3>2 DEF GoodInv
  <2>4. CASE UNCHANGED vars
    <3>1. /\ provider' = provider /\ collected' = collected /\ result' = result
          /\ failures' = failures /\ pages' = pages
      BY <2>4 DEF vars
    <3>2. AllGood' <=> AllGood
      BY <3>1 DEF AllGood, GoodAnswer
    <3>3. Gathered' <=> Gathered
      BY <3>1 DEF Gathered, Counts
    <3>4. Sound'
      BY <2>1, <3>1, <3>2, <3>3 DEF Sound
    <3>5. GoodAnswersSuffice'
      BY <2>1, <3>1, <3>2 DEF GoodAnswersSuffice, AllGood
    <3> QED
      BY <2>2, <3>4, <3>5 DEF GoodInv
  <2> QED
    BY <2>3, <2>4
<1>3. GoodInv => GoodAnswersSuffice
  BY DEF GoodInv
<1> QED
  BY <1>1, <1>2, <1>3, PTL DEF Spec

--------------------------------------------------------------------------------
(* Every offer counts.                                                     *)

\* A price that counts, and the offers with such a price on the answered pages of some
\* trade types.
Valid(price) == price \notin {Unparsable, NonFinite} /\ price > 0

Counted(answers, types) ==
    {o \in UNION {{i} \X DOMAIN answers[i].data : i \in DOMAIN answers} :
        answers[o[1]].type \in types /\ Valid(answers[o[1]].data[o[2]])}

\* The offers that the n-th page adds, and what each offer asks.
Added(n, data) == {o \in {n} \X DOMAIN data : Valid(data[o[2]])}

PriceOf(answers, S) == [o \in S |-> answers[o[1]].data[o[2]]]

\* averageValid finds in some prices the sum and the count of a set of offers.
Tallies(prices, answers, S) ==
    /\ IsFiniteSet(S) /\ PriceOf(answers, S) \in [S -> Int]
    /\ totalValid(prices) = <<SumOf(PriceOf(answers, S)), Cardinality(S)>>

LEMMA CountedOffer ==
    ASSUME NEW answers, NEW types, NEW o
    PROVE  o \in Counted(answers, types) <=>
             \E i \in DOMAIN answers : \E j \in DOMAIN answers[i].data :
                o = <<i, j>> /\ answers[i].type \in types /\ Valid(answers[i].data[j])
<1>1. o \in Counted(answers, types) <=>
        /\ \E i \in DOMAIN answers : o \in {i} \X DOMAIN answers[i].data
        /\ answers[o[1]].type \in types /\ Valid(answers[o[1]].data[o[2]])
  BY DEF Counted
<1>2. ASSUME NEW i PROVE o \in {i} \X DOMAIN answers[i].data <=> \E j \in DOMAIN answers[i].data : o = <<i, j>>
  OBVIOUS
<1>3. \A i, j : o = <<i, j>> => o[1] = i /\ o[2] = j
  OBVIOUS
<1> QED
  BY <1>1, <1>2, <1>3

\* One more price, one more round of averageValid's loop.
LEMMA TotalAppend ==
    ASSUME NEW prices \in Seq(Prices), NEW price \in Prices
    PROVE  totalValid(Append(prices, price)) = addPrice(totalValid(prices), price)
<1> DEFINE all == Append(prices, price)
<1> DEFINE N == Len(prices)
<1>1. /\ all \in Seq(Prices) /\ Len(all) = N + 1 /\ N \in Nat
      /\ all[N + 1] = price /\ \A i \in 1..N : all[i] = prices[i]
  OBVIOUS
<1>2. PICK f \in [0..N -> Nat \X Nat] :
             /\ f[0] = <<0, 0>>
             /\ \A i \in 1..N : f[i] = addPrice(f[i - 1], prices[i])
             /\ totalValid(prices) = f[N]
  BY TotalsLoop
<1>3. PICK g \in [0..(N + 1) -> Nat \X Nat] :
             /\ g[0] = <<0, 0>>
             /\ \A i \in 1..(N + 1) : g[i] = addPrice(g[i - 1], all[i])
             /\ totalValid(all) = g[N + 1]
  <2> HIDE DEF all, N
  <2>1. PICK g \in [0..Len(all) -> Nat \X Nat] :
             /\ g[0] = <<0, 0>>
             /\ \A i \in 1..Len(all) : g[i] = addPrice(g[i - 1], all[i])
             /\ totalValid(all) = g[Len(all)]
    BY <1>1, TotalsLoop
  <2> QED
    BY <1>1, <2>1
<1> HIDE DEF all, N
<1> DEFINE Good == {i \in 0..N : f[i] = g[i]}
<1>4. N \in Good
  <2>1. 0 \in Good
    <3>1. f[0] = g[0] /\ 0 \in 0..N
      BY <1>1, <1>2, <1>3
    <3> QED
      BY <3>1
  <2>2. \A i \in 1..N : i - 1 \in Good => i \in Good
    BY <1>1, <1>2, <1>3
  <2>3. N \in 0..N
    BY <1>1
  <2> HIDE DEF Good
  <2>4. 0..N \subseteq Good
    BY <1>1, <2>1, <2>2, Induction
  <2> QED
    BY <2>3, <2>4
<1>5. N + 1 \in 1..(N + 1) /\ (N + 1) - 1 = N
  BY <1>1
<1>6. g[N + 1] = addPrice(g[N], price)
  BY <1>1, <1>3, <1>5
<1> QED
  BY <1>2, <1>3, <1>4, <1>6 DEF all

\* Before the first answer there are no prices and no offers.
LEMMA TalliesNothing ==
    ASSUME NEW answers
    PROVE  Tallies(<<>>, answers, {})
<1> DEFINE none == <<>>
<1>1. none \in Seq(Prices) /\ Len(none) = 0
  OBVIOUS
<1>2. totalValid(none) = <<0, 0>>
  <2> HIDE DEF none
  <2>1. PICK f : f[0] = <<0, 0>> /\ totalValid(none) = f[Len(none)]
    BY <1>1, TotalsLoop
  <2> QED
    BY <1>1, <2>1
<1> DEFINE f == PriceOf(answers, {})
<1>3. f \in [{} -> Int]
  BY DEF PriceOf
<1> HIDE DEF f
<1>4. SumOf(f) = 0
  BY <1>3, SumEmpty
<1> QED
  BY <1>2, <1>3, <1>4, FS_EmptySet DEF Tallies, f

\* One more price that counts is one more offer.
LEMMA TalliesOneMore ==
    ASSUME NEW prices, NEW answers, NEW S, NEW o, NEW price,
           prices \in Seq(Prices), price \in Prices, Valid(price),
           Tallies(prices, answers, S), o \notin S, answers[o[1]].data[o[2]] = price
    PROVE  Tallies(Append(prices, price), answers, S \union {o})
<1> DEFINE all == S \union {o}
<1> DEFINE f == PriceOf(answers, S)
<1> DEFINE g == PriceOf(answers, all)
<1>1. IsFiniteSet(S) /\ f \in [S -> Int] /\ totalValid(prices) = <<SumOf(f), Cardinality(S)>>
  BY DEF Tallies
<1>2. price \in Int /\ price > 0 /\ price # NonFinite
  BY DEF Valid, Prices
<1>3. IsFiniteSet(all) /\ Cardinality(all) = Cardinality(S) + 1
  BY <1>1, FS_AddElement
<1>4. g[o] = price /\ \A x \in S : g[x] = f[x]
  BY DEF PriceOf
<1>5. g \in [all -> Int]
  <2>1. \A x \in S : f[x] = answers[x[1]].data[x[2]] /\ f[x] \in Int
    BY <1>1 DEF PriceOf
  <2>2. \A x \in all : answers[x[1]].data[x[2]] \in Int
    BY <1>2, <2>1
  <2> QED
    BY <2>2 DEF PriceOf
<1>6. SumOf(g) = SumOf(f) + g[o]
  <2>1. all = S \union {o} /\ o \notin S
    OBVIOUS
  <2>2. IsFiniteSet(S) /\ f \in [S -> Int] /\ \A x \in S : g[x] = f[x]
    BY <1>1, <1>4
  <2> HIDE DEF f, g, all
  <2> QED
    BY ONLY <1>5, <2>1, <2>2, SumAdd
<1>7. totalValid(Append(prices, price)) = addPrice(totalValid(prices), price)
  BY TotalAppend
<1> HIDE DEF f, g
<1>8. addPrice(totalValid(prices), price) = <<SumOf(f) + price, Cardinality(S) + 1>>
  BY <1>1, <1>2 DEF addPrice
<1> QED
  BY <1>3, <1>4, <1>5, <1>6, <1>7, <1>8 DEF Tallies, g

\* One more price that does not count is none.
LEMMA TalliesSame ==
    ASSUME NEW prices, NEW answers, NEW S, NEW price,
           prices \in Seq(Prices), price \in Prices, ~ Valid(price), Tallies(prices, answers, S)
    PROVE  Tallies(Append(prices, price), answers, S)
<1>1. price # Unparsable
  BY AnswersAssumption
<1>2. totalValid(Append(prices, price)) = addPrice(totalValid(prices), price)
  BY TotalAppend
<1>3. addPrice(totalValid(prices), price) = totalValid(prices)
  BY <1>1 DEF addPrice, Valid
<1> QED
  BY <1>2, <1>3 DEF Tallies

\* The prices of one more page, in the order of getOrders, are the offers it adds.
LEMMA TalliesPage ==
    ASSUME NEW s, NEW answers, NEW S, NEW n, NEW answer,
           s \in Seq(Prices), answer.data \in Seq(Prices \union {Unparsable}),
           orders(answer) # Error, answers[n].data = answer.data,
           \A o \in S : o[1] # n, Tallies(s, answers, S)
    PROVE  /\ orders(answer) \in Seq(Prices)
           /\ Tallies(s \o orders(answer), answers, S \union Added(n, answer.data))
<1> DEFINE data == answer.data
<1> DEFINE N == Len(data)
<1> DEFINE Prefix(i) == S \union {o \in {n} \X (1..i) : Valid(data[o[2]])}
<1>1. N \in Nat /\ DOMAIN data = 1..N /\ \A i \in 1..N : data[i] \in Prices \union {Unparsable}
  OBVIOUS
<1>2. PICK response \in [0..N -> Seq(Prices)] :
             /\ response[0] = <<>>
             /\ \A i \in 1..N : response[i] = appendPrice(response[i - 1], data[i])
             /\ orders(answer) = IF ~ answer.success \/ response[N] = <<>>
                                 THEN Error ELSE response[N]
  BY OrdersLoop
<1>3. orders(answer) = response[N]
  BY <1>2
<1> HIDE DEF data, N
<1> DEFINE Good == {i \in 0..N : Tallies(s \o response[i], answers, Prefix(i))}
<1>4. 0 \in Good
  <2>1. s \o response[0] = s
    BY <1>2
  <2>2. Prefix(0) = S
    OBVIOUS
  <2>3. Tallies(s \o response[0], answers, Prefix(0))
    <3> HIDE DEF Prefix
    <3> QED
      BY <2>1, <2>2
  <2>4. 0 \in 0..N
    BY <1>1
  <2> HIDE DEF Prefix
  <2> QED
    BY <2>3, <2>4
<1>5. ASSUME NEW i \in 1..N, i - 1 \in Good PROVE i \in Good
  <2> DEFINE r == response[i - 1]
  <2> DEFINE price == data[i]
  <2> DEFINE o == <<n, i>>
  <2>1. i \in 0..N /\ i - 1 \in 0..N /\ price \in Prices \union {Unparsable}
    BY <1>1
  <2>2. r \in Seq(Prices) /\ response[i] = appendPrice(r, price)
    BY <1>2, <2>1
  <2>3. Tallies(s \o r, answers, Prefix(i - 1)) /\ s \o r \in Seq(Prices)
    BY <1>5, <2>2
  <2>4. ~ Valid(price) => Prefix(i) = Prefix(i - 1)
    BY <1>1, <2>1
  <2>5. Valid(price) => Prefix(i) = Prefix(i - 1) \union {o} /\ o \notin Prefix(i - 1)
    BY <1>1, <2>1
  <2>6. price \in Prices => s \o response[i] = Append(s \o r, price)
    <3> SUFFICES ASSUME price \in Prices PROVE s \o response[i] = Append(s \o r, price)
      OBVIOUS
    <3>1. response[i] = Append(r, price)
      BY <2>2, AnswersAssumption DEF appendPrice
    <3> HIDE DEF r, price
    <3>2. s \o Append(r, price) = Append(s \o r, price)
      BY <2>2
    <3> QED
      BY <3>1, <3>2
  <2>7. answers[o[1]].data[o[2]] = price
    BY DEF data
  <2> HIDE DEF Prefix, r, price, o
  <2>8. CASE price \notin Prices
    <3>1. price = Unparsable /\ ~ Valid(price)
      BY <2>1, <2>8 DEF Valid
    <3>2. response[i] = r
      BY <2>2, <3>1 DEF appendPrice
    <3> QED
      BY <2>1, <2>3, <2>4, <3>1, <3>2
  <2>9. CASE price \in Prices /\ Valid(price)
    <3> DEFINE before == s \o r
    <3>1. before \in Seq(Prices) /\ Tallies(before, answers, Prefix(i - 1))
      BY <2>3
    <3> HIDE DEF before
    <3>2. Tallies(Append(before, price), answers, Prefix(i - 1) \union {o})
      BY <2>5, <2>7, <2>9, <3>1, TalliesOneMore
    <3> QED
      BY <2>1, <2>5, <2>6, <2>9, <3>2 DEF before
  <2>10. CASE price \in Prices /\ ~ Valid(price)
    <3> DEFINE before == s \o r
    <3>1. before \in Seq(Prices) /\ Tallies(before, answers, Prefix(i - 1))
      BY <2>3
    <3> HIDE DEF before
    <3>2. Tallies(Append(before, price), answers, Prefix(i - 1))
      BY <2>10, <3>1, TalliesSame
    <3> QED
      BY <2>1, <2>4, <2>6, <2>10, <3>2 DEF before
  <2> QED
    BY <2>8, <2>9, <2>10
<1>6. N \in Good
  <2>1. \A i \in 1..N : i - 1 \in Good => i \in Good
    BY <1>5
  <2>2. N \in 0..N
    BY <1>1
  <2> HIDE DEF Good
  <2>3. 0..N \subseteq Good
    BY <1>1, <1>4, <2>1, Induction
  <2> QED
    BY <2>2, <2>3
<1>7. Prefix(N) = S \union Added(n, data)
  BY <1>1 DEF Added
<1>8. response[N] \in Seq(Prices)
  BY <1>1, <1>2
<1> QED
  BY <1>3, <1>6, <1>7, <1>8 DEF data

\* The next answer changes the prices collected for some trade types and their offers
\* alike.
LEMMA TalliesStep ==
    ASSUME NEW s, NEW answers, NEW types, NEW answer, NEW page,
           s \in Seq(Prices), answers \in Seq(Answers("USDT")),
           answer.data \in Seq(Prices \union {Unparsable}), orders(answer) # Error,
           page.data = answer.data, Tallies(s, answers, Counted(answers, types))
    PROVE  Tallies(IF page.type \in types THEN s \o orders(answer) ELSE s,
                   Append(answers, page), Counted(Append(answers, page), types))
<1> DEFINE n == Len(answers) + 1
<1> DEFINE all == Append(answers, page)
<1> DEFINE S == Counted(answers, types)
<1> DEFINE more == Added(n, page.data)
<1>1. /\ Len(answers) \in Nat /\ DOMAIN answers = 1..Len(answers) /\ DOMAIN all = 1..n
      /\ all[n] = page /\ (\A i \in DOMAIN answers : all[i] = answers[i] /\ i # n)
  OBVIOUS
<1>2. \A o \in S : o[1] \in DOMAIN answers
  BY DEF Counted
<1> HIDE DEF n, all
<1>3. Tallies(s, all, S)
  <2>1. PriceOf(all, S) = PriceOf(answers, S)
    <3>1. \A o \in S : all[o[1]].data[o[2]] = answers[o[1]].data[o[2]]
      BY <1>1, <1>2
    <3> QED
      BY <3>1 DEF PriceOf
  <2> QED
    BY <2>1 DEF Tallies
<1>4. Counted(all, types) = IF page.type \in types THEN S \union more ELSE S
  <2>1. DOMAIN all = DOMAIN answers \union {n}
    BY <1>1 DEF n
  <2>2. ASSUME NEW o PROVE o \in Counted(all, types) <=> o \in S \/ (page.type \in types /\ o \in more)
    <3>1. o \in Counted(all, types) <=>
            \E i \in DOMAIN all : \E j \in DOMAIN all[i].data :
               o = <<i, j>> /\ all[i].type \in types /\ Valid(all[i].data[j])
      BY CountedOffer
    <3>2. o \in S <=>
            \E i \in DOMAIN answers : \E j \in DOMAIN answers[i].data :
               o = <<i, j>> /\ answers[i].type \in types /\ Valid(answers[i].data[j])
      BY CountedOffer
    <3>3. o \in more <=> \E j \in DOMAIN page.data : o = <<n, j>> /\ Valid(page.data[j])
      BY DEF Added
    <3> HIDE DEF S, more
    <3> QED
      BY <1>1, <2>1, <3>1, <3>2, <3>3
  <2> HIDE DEF S, more
  <2> QED
    BY <2>2
<1>5. CASE page.type \in types
  <2>1. all[n].data = answer.data /\ more = Added(n, answer.data) /\ \A o \in S : o[1] # n
    BY <1>1, <1>2
  <2> HIDE DEF S, more
  <2>2. Tallies(s \o orders(answer), all, S \union more)
    BY <1>3, <2>1, TalliesPage
  <2> QED
    BY <1>4, <1>5, <2>2 DEF all
<1>6. CASE page.type \notin types
  BY <1>3, <1>4, <1>6 DEF all
<1> QED
  BY <1>5, <1>6

\* The pages answered so far are the first ones asked for, and the prices collected from
\* them, for each trade type and for both, are the offers on them that count.
Tallied ==
    /\ \A i \in 1..Len(pages) : <<pages[i].type, pages[i].page>> = p2pRequests[i]
    /\ Len(pages) <= 2 => collected.BUY = <<>>
    /\ Tallies(collected.SELL, pages, Counted(pages, {"SELL"}))
    /\ Tallies(collected.BUY, pages, Counted(pages, {"BUY"}))
    /\ Tallies(collected.SELL \o collected.BUY, pages, Counted(pages, {"SELL", "BUY"}))

\* A response is made of nothing but the prices collected from all four pages.
Averaged ==
    (provider = "USDT" /\ result # Error) =>
        /\ Tallied
        /\ result # Nil => Len(pages) = 4 /\ result = binancePrices(collected)

\* SELL pages come before BUY pages, so the prices of both are those of one after the
\* other whichever page was the last.
LEMMA TalliedStep ==
    ASSUME Typed, Paced, Tallied, BinanceAnswers, result' # Error
    PROVE  /\ Tallied'
           /\ result' # Nil => Len(pages') = 4 /\ result' = binancePrices(collected')
<1>1. PICK answer \in P2PAnswers, type \in {"SELL", "BUY"}, number \in {1, 2} :
             LET page == [type |-> type, page |-> number,
                          success |-> answer.success, data |-> answer.data]
             IN  /\ AttemptReturns(page) /\ page \in Answers(provider)
                 /\ type = (IF Len(pages) < 2 THEN "SELL" ELSE "BUY")
                 /\ <<type, number>> = p2pRequests[Len(pages) + 1]
                 /\ \/ orders(answer) = Error /\ result' = Error /\ collected' = collected
                    \/ /\ orders(answer) # Error
                       /\ collected' = [collected EXCEPT ![type] = @ \o orders(answer)]
                       /\ result' = IF Len(pages) + 1 < 4 THEN Nil ELSE binancePrices(collected')
  BY BinanceAnswer
<1> DEFINE page == [type |-> type, page |-> number, success |-> answer.success, data |-> answer.data]
<1> DEFINE n == Len(pages)
<1> DEFINE more == orders(answer)
<1> DEFINE sell == collected.SELL
<1> DEFINE buy == collected.BUY
<1> DEFINE all == Append(pages, page)
<1>2. /\ AttemptReturns(page) /\ page.type = type /\ page.page = number /\ page.data = answer.data
  BY <1>1
<1> HIDE DEF page
<1>3. provider = "USDT" /\ result = Nil /\ pages' = all
  BY <1>2 DEF BinanceAnswers, AttemptReturns
<1>4. /\ pages \in Seq(Answers("USDT")) /\ answer.data \in Seq(Prices \union {Unparsable})
      /\ collected \in [{"SELL", "BUY"} -> Seq(Prices)]
  BY <1>3, AnswersAssumption DEF Typed
<1>5. more # Error
  BY <1>1
<1>6. more \in Seq(Prices)
  BY <1>4, <1>5, OrdersTyped
<1>7. n \in 0..3 /\ Len(all) = n + 1 /\ all[n + 1] = page /\ \A i \in 1..n : all[i] = pages[i]
  <2>1. n + 1 <= 4
    BY <1>3 DEF Paced, Requests
  <2>2. n \in Nat /\ Len(all) = n + 1 /\ all[n + 1] = page /\ \A i \in 1..n : all[i] = pages[i]
    BY <1>4
  <2> HIDE DEF n, all
  <2> QED
    BY <2>1, <2>2
<1>8. sell \in Seq(Prices) /\ buy \in Seq(Prices)
  BY <1>4
<1>9. type = (IF n < 2 THEN "SELL" ELSE "BUY") /\ <<type, number>> = p2pRequests[n + 1]
  BY <1>1
<1>10. \/ type = "SELL" /\ n < 2 /\ collected'.SELL = sell \o more /\ collected'.BUY = buy
       \/ type = "BUY" /\ ~(n < 2) /\ collected'.SELL = sell /\ collected'.BUY = buy \o more
  <2>1. collected' = [collected EXCEPT ![type] = collected[type] \o more]
    BY <1>1, <1>5
  <2> QED
    BY <1>4, <1>9, <2>1
<1>11. result' = (IF n + 1 < 4 THEN Nil ELSE binancePrices(collected'))
  BY <1>1, <1>5
<1>12. /\ n <= 2 => buy = <<>>
       /\ Tallies(sell, pages, Counted(pages, {"SELL"}))
       /\ Tallies(buy, pages, Counted(pages, {"BUY"}))
       /\ Tallies(sell \o buy, pages, Counted(pages, {"SELL", "BUY"}))
       /\ \A i \in 1..n : <<pages[i].type, pages[i].page>> = p2pRequests[i]
  BY DEF Tallied
<1> DEFINE sells == collected'.SELL
<1> DEFINE buys == collected'.BUY
<1> HIDE DEF n, sell, buy, more, all, sells, buys
<1>13. ASSUME NEW s, NEW types, s \in Seq(Prices), Tallies(s, pages, Counted(pages, types))
       PROVE  Tallies(IF type \in types THEN s \o more ELSE s, all, Counted(all, types))
  BY <1>2, <1>4, <1>5, <1>13, TalliesStep DEF more, all
<1>14. Tallies(sells, all, Counted(all, {"SELL"}))
  <2>1. Tallies(IF type \in {"SELL"} THEN sell \o more ELSE sell, all, Counted(all, {"SELL"}))
    BY <1>8, <1>12, <1>13
  <2> QED
    BY <1>10, <2>1 DEF sells
<1>15. Tallies(buys, all, Counted(all, {"BUY"}))
  <2>1. Tallies(IF type \in {"BUY"} THEN buy \o more ELSE buy, all, Counted(all, {"BUY"}))
    BY <1>8, <1>12, <1>13
  <2> QED
    BY <1>10, <2>1 DEF buys
<1>16. Tallies(sells \o buys, all, Counted(all, {"SELL", "BUY"}))
  <2> DEFINE both == sell \o buy
  <2>1. both \in Seq(Prices)
    BY <1>8
  <2>2. Tallies(both, pages, Counted(pages, {"SELL", "BUY"}))
    BY <1>12
  <2> HIDE DEF both
  <2>3. Tallies(IF type \in {"SELL", "BUY"} THEN both \o more ELSE both,
                all, Counted(all, {"SELL", "BUY"}))
    BY <1>13, <2>1, <2>2
  <2>4. CASE type = "SELL" /\ n < 2 /\ collected'.SELL = sell \o more /\ collected'.BUY = buy
    <3>1. buy = <<>>
      BY <1>7, <1>12, <2>4
    <3>2. both \o more = sells \o buys
      BY <1>6, <1>8, <2>4, <3>1 DEF both, sells, buys
    <3> QED
      BY <2>3, <2>4, <3>2
  <2>5. CASE type = "BUY" /\ ~(n < 2) /\ collected'.SELL = sell /\ collected'.BUY = buy \o more
    <3>1. (sell \o buy) \o more = sell \o (buy \o more)
      BY <1>6, <1>8
    <3>2. both \o more = sells \o buys
      BY <2>5, <3>1 DEF both, sells, buys
    <3> QED
      BY <2>3, <2>5, <3>2
  <2> QED
    BY <1>10, <2>4, <2>5
<1>17. n + 1 <= 2 => buys = <<>>
  BY <1>7, <1>10, <1>12 DEF buys
<1>18. \A i \in 1..(n + 1) : <<all[i].type, all[i].page>> = p2pRequests[i]
  <2> SUFFICES ASSUME NEW i \in 1..(n + 1) PROVE <<all[i].type, all[i].page>> = p2pRequests[i]
    OBVIOUS
  <2>1. CASE i = n + 1
    BY <1>2, <1>7, <1>9, <2>1
  <2>2. CASE i # n + 1
    <3>1. i \in 1..n
      BY <1>7, <2>2
    <3> QED
      BY <1>7, <1>12, <3>1
  <2> QED
    BY <2>1, <2>2
<1>19. Tallied'
  <2>1. Tallied' <=>
          /\ \A i \in 1..Len(pages') : <<pages'[i].type, pages'[i].page>> = p2pRequests[i]
          /\ Len(pages') <= 2 => collected'.BUY = <<>>
          /\ Tallies(collected'.SELL, pages', Counted(pages', {"SELL"}))
          /\ Tallies(collected'.BUY, pages', Counted(pages', {"BUY"}))
          /\ Tallies(collected'.SELL \o collected'.BUY, pages', Counted(pages', {"SELL", "BUY"}))
    BY DEF Tallied, p2pRequests
  <2>2. Len(pages') = n + 1
    BY <1>3, <1>7
  <2> QED
    BY <1>3, <1>14, <1>15, <1>16, <1>17, <1>18, <2>1, <2>2 DEF sells, buys
<1>20. result' # Nil => Len(pages') = 4 /\ result' = binancePrices(collected')
  <2>1. Len(pages') = n + 1
    BY <1>3, <1>7
  <2> QED
    BY <1>7, <1>11, <2>1
<1> QED
  BY <1>19, <1>20

LEMMA OffersCounted ==
    ASSUME NEW types
    PROVE  Offers(types) = Counted(pages, types)
BY DEF Offers, Counted, Valid

\* The average that EveryOfferCounts states, as the sum of a function.
LEMMA AverageAsSum ==
    ASSUME NEW types, NEW S, NEW f,
           S = Offers(types), IsFiniteSet(S), f = PriceOf(pages, S), f \in [S -> Int]
    PROVE  Average(types) = <<SumOf(f), Cardinality(S)>>
<1> DEFINE Weight(o) == pages[o[1]].data[o[2]]
<1> DEFINE Body(sum, s) ==
             IF s = {} THEN 0
             ELSE Weight(CHOOSE x \in s : TRUE) + sum[s \ {CHOOSE x \in s : TRUE}]
<1> DEFINE sum == CHOOSE iter : iter = [s \in SUBSET S |-> Body(iter, s)]
<1>1. Average(types) = <<sum[S], Cardinality(S)>>
  BY DEF Average, MapThenSumSet, MapThenFoldSet
<1>2. ASSUME NEW o \in S PROVE Weight(o) = f[o]
  BY DEF PriceOf
<1> HIDE DEF Weight
<1>4. ASSUME NEW iter PROVE [s \in SUBSET S |-> Body(iter, s)]
         = [s \in SUBSET S |-> IF s = {} THEN 0 ELSE f[First(s)] + iter[s \ {First(s)}]]
  <2>1. ASSUME NEW s \in SUBSET S
        PROVE Body(iter, s) = IF s = {} THEN 0 ELSE f[First(s)] + iter[s \ {First(s)}]
    <3>1. s # {} => First(s) \in S
      BY DEF First
    <3>2. Body(iter, s) = IF s = {} THEN 0 ELSE Weight(First(s)) + iter[s \ {First(s)}]
      BY DEF First
    <3> QED
      BY <1>2, <3>1, <3>2
  <2> HIDE DEF Body
  <2> QED
    BY <2>1
<1>5. \E iter : iter = [s \in SUBSET S |-> Body(iter, s)]
  <2>1. PICK iter : Adds(iter, f, S)
    BY AddsExists
  <2>2. iter = [s \in SUBSET S |-> IF s = {} THEN 0 ELSE f[First(s)] + iter[s \ {First(s)}]]
    BY ONLY <2>1 DEF Adds
  <2>3. [s \in SUBSET S |-> Body(iter, s)]
           = [s \in SUBSET S |-> IF s = {} THEN 0 ELSE f[First(s)] + iter[s \ {First(s)}]]
    BY <1>4
  <2>4. iter = [s \in SUBSET S |-> Body(iter, s)]
    <3> HIDE DEF Body
    <3> QED
      BY ONLY <2>2, <2>3
  <2> QED
    BY <2>4
<1>6. Adds(sum, f, S)
  <2>1. sum = [s \in SUBSET S |-> Body(sum, s)]
    <3> HIDE DEF Body
    <3> QED
      BY <1>5
  <2> HIDE DEF sum
  <2> QED
    BY <1>4, <2>1 DEF Adds
<1>7. sum[S] = SumOf(f)
  <2> HIDE DEF sum
  <2> QED
    BY <1>6, SumUnique
<1> QED
  BY <1>1, <1>7

\* Prices that are the offers of some trade types have their average.
LEMMA TalliedAverage ==
    ASSUME NEW types, NEW s, Tallies(s, pages, Counted(pages, types)), averageValid(s) # Error
    PROVE  averageValid(s) = Average(types)
<1> DEFINE S == Counted(pages, types)
<1> DEFINE f == PriceOf(pages, S)
<1>1. averageValid(s) = totalValid(s)
  BY DEF averageValid
<1>2. IsFiniteSet(S) /\ f \in [S -> Int] /\ totalValid(s) = <<SumOf(f), Cardinality(S)>>
  BY DEF Tallies
<1>3. S = Offers(types)
  BY OffersCounted
<1>4. f = PriceOf(pages, S)
  OBVIOUS
<1> HIDE DEF S, f
<1>5. Average(types) = <<SumOf(f), Cardinality(S)>>
  BY ONLY <1>2, <1>3, <1>4, AverageAsSum
<1> QED
  BY <1>1, <1>2, <1>5

LEMMA AveragedStep ==
    ASSUME PacedInv, Averaged, [Next]_vars
    PROVE  Averaged'
<1>1. Typed /\ Paced
  BY DEF PacedInv
<1> SUFFICES ASSUME provider' = "USDT", result' # Error
             PROVE  /\ Tallied'
                    /\ result' # Nil => Len(pages') = 4 /\ result' = binancePrices(collected')
  BY DEF Averaged
<1>2. CASE AttemptFails
  <2>1. /\ result = Nil /\ provider' = provider /\ pages' = pages /\ collected' = collected
        /\ result' \in {Nil, Error}
    BY <1>2 DEF AttemptFails
  <2>2. Tallied
    BY <2>1, ErrorAssumption DEF Averaged
  <2>3. Tallied'
    BY <2>1, <2>2 DEF Tallied
  <2> QED
    BY <2>1, <2>3
<1>3. CASE BcvAnswers
  BY <1>3 DEF BcvAnswers, AttemptReturns
<1>4. CASE DolarAnswers
  BY <1>4 DEF DolarAnswers, AttemptReturns
<1>5. CASE BinanceAnswers
  <2>1. provider = "USDT" /\ result = Nil
    BY <1>5 DEF BinanceAnswers, AttemptReturns
  <2>2. Tallied
    BY <2>1, ErrorAssumption DEF Averaged
  <2> QED
    BY <1>1, <1>5, <2>2, TalliedStep
<1>6. CASE UNCHANGED vars
  <2>1. /\ provider' = provider /\ pages' = pages /\ collected' = collected /\ result' = result
    BY <1>6 DEF vars
  <2>2. Tallied /\ (result # Nil => Len(pages) = 4 /\ result = binancePrices(collected))
    BY <2>1 DEF Averaged
  <2>3. Tallied'
    BY <2>1, <2>2 DEF Tallied
  <2> QED
    BY <2>1, <2>2, <2>3
<1> QED
  BY <1>2, <1>3, <1>4, <1>5, <1>6 DEF Next

\* Four answers are one for each page of each trade type.
LEMMA AllPages ==
    ASSUME Tallied, pages \in Seq(Answers("USDT")), Len(pages) = 4
    PROVE  {<<p.type, p.page>> : p \in ToSet(pages)} = {"SELL", "BUY"} \X {1, 2}
<1>1. /\ <<pages[1].type, pages[1].page>> = <<"SELL", 1>>
      /\ <<pages[2].type, pages[2].page>> = <<"SELL", 2>>
      /\ <<pages[3].type, pages[3].page>> = <<"BUY", 1>>
      /\ <<pages[4].type, pages[4].page>> = <<"BUY", 2>>
  <2>1. \A i \in 1..4 : <<pages[i].type, pages[i].page>> = p2pRequests[i]
    BY DEF Tallied
  <2>2. /\ p2pRequests[1] = <<"SELL", 1>> /\ p2pRequests[2] = <<"SELL", 2>>
        /\ p2pRequests[3] = <<"BUY", 1>> /\ p2pRequests[4] = <<"BUY", 2>>
    BY DEF p2pRequests
  <2> QED
    BY <2>1, <2>2
<1>2. {"SELL", "BUY"} \X {1, 2} = {<<"SELL", 1>>, <<"SELL", 2>>, <<"BUY", 1>>, <<"BUY", 2>>}
  OBVIOUS
<1>3. DOMAIN pages = 1..4
  OBVIOUS
<1> QED
  BY <1>1, <1>2, <1>3 DEF ToSet

\* A Binance rate is the average of all valid offers on all the pages it stands for, each
\* counted once, however many offers a page has and wherever attempts failed.
THEOREM OffersAlwaysCount == Spec => []EveryOfferCounts
<1>1. Init => Averaged
  <2> SUFFICES ASSUME Init PROVE Tallied /\ result = Nil
    BY DEF Averaged
  <2>1. collected = [SELL |-> <<>>, BUY |-> <<>>] /\ result = Nil /\ pages = <<>>
    BY DEF Init
  <2>2. collected.SELL = <<>> /\ collected.BUY = <<>> /\ collected.SELL \o collected.BUY = <<>>
        /\ Len(pages) = 0
    BY <2>1
  <2>3. ASSUME NEW types PROVE Tallies(<<>>, pages, Counted(pages, types))
    <3>1. Counted(pages, types) = {}
      BY <2>1 DEF Counted
    <3> QED
      BY <3>1, TalliesNothing
  <2> QED
    BY <2>1, <2>2, <2>3 DEF Tallied
<1>2. PacedInv /\ Averaged /\ [Next]_vars => Averaged'
  BY AveragedStep
<1>3. PacedInv /\ Averaged => EveryOfferCounts
  <2> SUFFICES ASSUME PacedInv, Averaged, provider = "USDT", Accepted
               PROVE  /\ {<<p.type, p.page>> : p \in ToSet(pages)} = {"SELL", "BUY"} \X {1, 2}
                      /\ result.values["USDT"] = Average({"SELL", "BUY"})
                      /\ result.values["USDT_BINANCE_SELL"] = Average({"BUY"})
                      /\ result.values["USDT_BINANCE_BUY"] = Average({"SELL"})
    BY DEF EveryOfferCounts
  <2>1. /\ Tallied /\ Len(pages) = 4 /\ result = binancePrices(collected)
        /\ result # Error /\ pages \in Seq(Answers("USDT"))
    BY DEF Averaged, Accepted, PacedInv, Typed
  <2> DEFINE both == averageValid(collected.SELL \o collected.BUY)
  <2> DEFINE sell == averageValid(collected.SELL)
  <2> DEFINE buy == averageValid(collected.BUY)
  <2>2. /\ both # Error /\ sell # Error /\ buy # Error
        /\ result = [values |-> [USDT |-> both, USDT_BINANCE_SELL |-> buy,
                                 USDT_BINANCE_BUY |-> sell],
                     date |-> Nil]
    BY <2>1 DEF binancePrices
  <2>3. both = Average({"SELL", "BUY"})
    BY <2>1, <2>2, TalliedAverage DEF Tallied
  <2>4. buy = Average({"BUY"})
    BY <2>1, <2>2, TalliedAverage DEF Tallied
  <2>5. sell = Average({"SELL"})
    BY <2>1, <2>2, TalliedAverage DEF Tallied
  <2> HIDE DEF both, sell, buy
  <2> QED
    BY <2>1, <2>2, <2>3, <2>4, <2>5, AllPages
<1> QED
  BY <1>1, <1>2, <1>3, AlwaysPaced, PTL DEF Spec

--------------------------------------------------------------------------------
(* What the bank writes.                                                   *)

\* The BCV's response is what its one page holds.
PageRead ==
    (provider = "BCV" /\ Accepted) =>
        /\ Len(pages) = 1 /\ pages[1] \in BcvPages
        /\ parseBCVRates(pages[1]) # Error /\ result = parseBCVRates(pages[1])

LEMMA PageReadStep ==
    ASSUME PacedInv, PageRead, [Next]_vars
    PROVE  PageRead'
<1>1. Typed /\ Paced
  BY DEF PacedInv
<1> SUFFICES ASSUME provider' = "BCV", result' \notin {Nil, Error}
             PROVE  /\ Len(pages') = 1 /\ pages'[1] \in BcvPages
                    /\ parseBCVRates(pages'[1]) # Error /\ result' = parseBCVRates(pages'[1])
  BY DEF PageRead, Accepted
<1>2. CASE AttemptFails
  BY <1>2 DEF AttemptFails
<1>3. CASE BcvAnswers
  <2>1. PICK page \in BcvPages : /\ parseBCVRates(page) # Error /\ AttemptReturns(page)
                                 /\ result' = parseBCVRates(page)
    BY <1>3 DEF BcvAnswers
  <2>2. provider = "BCV" /\ result = Nil /\ pages' = Append(pages, page)
    BY <1>3, <2>1 DEF BcvAnswers, AttemptReturns
  <2>3. pages \in Seq(Answers(provider)) /\ Len(pages) + 1 <= 1
    BY <1>1, <2>2 DEF Typed, Paced, Requests
  <2> DEFINE n == Len(pages)
  <2>4. n \in Nat /\ n + 1 <= 1 /\ Len(pages') = n + 1 /\ pages'[n + 1] = page
    BY <2>2, <2>3
  <2> HIDE DEF n
  <2>5. n = 0
    BY <2>4
  <2> QED
    BY <2>1, <2>4, <2>5
<1>4. CASE DolarAnswers
  BY <1>4 DEF DolarAnswers, AttemptReturns
<1>5. CASE BinanceAnswers
  BY <1>5 DEF BinanceAnswers, AttemptReturns
<1>6. CASE UNCHANGED vars
  BY <1>6 DEF vars, PageRead, Accepted
<1> QED
  BY <1>2, <1>3, <1>4, <1>5, <1>6 DEF Next

\* An amount in the bank's own format is read as the nearest float64, or not at all.
LEMMA ReadFromText ==
    ASSUME NEW container \in Containers \union {Nil}, rateText(container) # Error,
           parseLocalizedNumber(rateText(container)) # Error, BankFormat(rateText(container))
    PROVE  NearestTo(parseLocalizedNumber(rateText(container)), Written(rateText(container)))
<1> DEFINE raw == rateText(container)
<1>1. raw \in Seq(Characters)
  BY DEF rateText, Containers
<1> HIDE DEF raw
<1>2. BankFormat(raw) /\ parseLocalizedNumber(raw) # Error
  BY DEF raw
<1>3. amount(raw) = Written(raw)
  BY <1>1, <1>2, WrittenRead
<1>4. parseLocalizedNumber(raw) = nearestFloat(amount(raw)) /\ nearestFloat(amount(raw)) # Error
  BY <1>2 DEF parseLocalizedNumber
<1>5. NearestTo(nearestFloat(amount(raw)), amount(raw))
  BY <1>1, <1>4, AmountRead
<1> QED
  BY <1>3, <1>4, <1>5 DEF raw

\* What the bank writes in its own format, a text of any length, is what the service
\* stores, to half a unit in the last place of a float64 of any precision and range; an
\* amount that is out of range or rounds to zero is an error instead.
THEOREM AlwaysReadAsWritten == Spec => []ReadAsWritten
<1>1. Init => PageRead
  BY DEF Init, PageRead, Accepted
<1>2. PacedInv /\ PageRead /\ [Next]_vars => PageRead'
  BY PageReadStep
<1>3. PageRead => ReadAsWritten
  <2> SUFFICES ASSUME PageRead, provider = "BCV", Accepted PROVE ReadAsWritten
    BY DEF ReadAsWritten
  <2> DEFINE page == pages[1]
  <2>1. page \in BcvPages /\ parseBCVRates(page) # Error /\ result = parseBCVRates(page)
    BY DEF PageRead
  <2>2. {page.dolar, page.euro} \subseteq Containers \union {Nil}
    BY <2>1, AnswersAssumption
  <2> DEFINE dolar == parseLocalizedNumber(rateText(page.dolar))
  <2> DEFINE euro == parseLocalizedNumber(rateText(page.euro))
  <2>3. /\ rateText(page.dolar) # Error /\ rateText(page.euro) # Error
        /\ dolar # Error /\ euro # Error
        /\ result.values = [USD_BCV |-> dolar, EUR_BCV |-> euro]
    BY <2>1 DEF parseBCVRates
  <2>4. BankFormat(rateText(page.dolar)) => NearestTo(dolar, Written(rateText(page.dolar)))
    BY <2>2, <2>3, ReadFromText
  <2>5. BankFormat(rateText(page.euro)) => NearestTo(euro, Written(rateText(page.euro)))
    BY <2>2, <2>3, ReadFromText
  <2>6. result.values["USD_BCV"] = dolar /\ result.values["EUR_BCV"] = euro
    <3> HIDE DEF dolar, euro
    <3> QED
      BY <2>3
  <2> QED
    BY <2>4, <2>5, <2>6 DEF ReadAsWritten
<1> QED
  BY <1>1, <1>2, <1>3, AlwaysPaced, PTL DEF Spec
================================================================================
