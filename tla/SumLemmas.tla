----------------------------- MODULE SumLemmas -----------------------------
(***************************************************************************)
(* Lemmas about the sums of module Sums, and the induction and recursion   *)
(* over the naturals that they rest on, stated over sets and functions:    *)
(* the library's own theorems take an operator as a parameter.             *)
(***************************************************************************)
EXTENDS Sums, Integers, WellFoundedInduction, TLAPS

\* A nonempty set of naturals has a least element.
LEMMA LeastElement ==
  ASSUME NEW T \in SUBSET Nat, T # {}
  PROVE  \E m \in T : \A n \in T : m <= n
<1> DEFINE R == {ss \in Nat \X Nat : ss[1] < ss[2]}
<1>1. IsWellFoundedOn(R, Nat)
  BY NatLessThanWellFounded, Zenon DEF OpToRel
<1>2. PICK m \in T : \A n \in T : ~ (<<n, m>> \in R)
  <2> HIDE DEF R
  <2> QED BY <1>1, WFMin, T \subseteq Nat, Zenon
<1>3. \A n \in T : ~(n < m)
  BY <1>2
<1> QED BY <1>3

\* Induction over the naturals, for a set instead of a predicate.
LEMMA SetInduction ==
  ASSUME NEW T, 0 \in T, \A n \in Nat : n \in T => n + 1 \in T
  PROVE  Nat \subseteq T
<1> SUFFICES ASSUME Nat \ T # {} PROVE FALSE
  OBVIOUS
<1>1. PICK m \in Nat \ T : \A n \in Nat \ T : m <= n
  BY LeastElement
<1>2. m - 1 \in Nat /\ m - 1 \in T
  BY <1>1
<1> QED BY <1>1, <1>2

\* g is the sequence that starts at base and follows step up to n.
Follows(g, n, base, step) ==
  /\ g[0] = base
  /\ \A i \in 1..n : g[i] = step[i - 1][g[i - 1]]

\* A function given by its first value and a step function exists.
LEMMA RecursionExists ==
  ASSUME NEW N \in Nat, NEW S, NEW base \in S,
         NEW step \in [0..(N-1) -> [S -> S]]
  PROVE  \E g \in [0..N -> S] : Follows(g, N, base, step)
<1> DEFINE T == {n \in Nat : n <= N => \E g \in [0..n -> S] : Follows(g, n, base, step)}
<1>1. 0 \in T
  <2>1. [i \in 0..0 |-> base] \in [0..0 -> S]
    OBVIOUS
  <2>2. Follows([i \in 0..0 |-> base], 0, base, step)
    BY DEF Follows
  <2> QED BY <2>1, <2>2
<1>2. ASSUME NEW n \in Nat, n \in T PROVE n + 1 \in T
  <2> SUFFICES ASSUME n + 1 <= N
               PROVE  \E g \in [0..(n+1) -> S] : Follows(g, n + 1, base, step)
    OBVIOUS
  <2>1. PICK g \in [0..n -> S] : Follows(g, n, base, step)
    BY <1>2
  <2>2. step[n][g[n]] \in S
    <3>1. n \in 0..(N-1) /\ n \in 0..n
      OBVIOUS
    <3>2. step[n] \in [S -> S] /\ g[n] \in S
      BY <3>1, <2>1
    <3> QED BY <3>2
  <2> DEFINE h == [i \in 0..(n+1) |-> IF i = n + 1 THEN step[n][g[n]] ELSE g[i]]
  <2>3. h \in [0..(n+1) -> S]
    BY <2>1, <2>2
  <2>4. h[0] = base
    BY <2>1 DEF Follows
  <2>5. ASSUME NEW i \in 1..(n+1) PROVE h[i] = step[i - 1][h[i - 1]]
    <3>1. CASE i = n + 1
      BY <3>1
    <3>2. CASE i # n + 1
      <4>1. i \in 1..n /\ i \in 0..(n+1) /\ i - 1 \in 0..(n+1) /\ i - 1 # n + 1
        BY <3>2
      <4>2. g[i] = step[i - 1][g[i - 1]]
        BY <4>1, <2>1 DEF Follows
      <4>3. h[i] = g[i] /\ h[i - 1] = g[i - 1]
        BY <4>1, <3>2
      <4> QED BY <4>2, <4>3
    <3> QED BY <3>1, <3>2
  <2>6. Follows(h, n + 1, base, step)
    <3> HIDE DEF h
    <3> QED BY <2>4, <2>5 DEF Follows
  <2> QED BY <2>3, <2>6
<1>3. Nat \subseteq T
  <2> HIDE DEF T
  <2> QED BY <1>1, <1>2, SetInduction
<1>4. N \in T
  BY <1>3
<1> QED BY <1>4

----------------------------------------------------------------------------
\* The partial sums of f are what their recursive definition says.
LEMMA PartialSumFollows ==
  ASSUME NEW N \in Nat, NEW f \in [0..(N - 1) -> Int]
  PROVE  /\ PartialSums(f, N) \in [0..N -> Int]
         /\ PartialSums(f, N)[0] = 0
         /\ \A i \in 1..N :
               PartialSums(f, N)[i] = PartialSums(f, N)[i - 1] + f[i - 1]
<1> DEFINE D(h) == [i \in 0..N |-> IF i = 0 THEN 0 ELSE h[i - 1] + f[i - 1]]
           add  == [i \in 0..(N - 1) |-> [x \in Int |-> x + f[i]]]
<1>1. PICK g \in [0..N -> Int] : Follows(g, N, 0, add)
  <2>1. add \in [0..(N - 1) -> [Int -> Int]]
    OBVIOUS
  <2>2. N \in Nat /\ 0 \in Int
    OBVIOUS
  <2> HIDE DEF add
  <2>3. \A S : \A base \in S : \A step \in [0..(N - 1) -> [S -> S]] :
          \E g \in [0..N -> S] : Follows(g, N, base, step)
    BY <2>2, RecursionExists, Zenon
  <2> QED BY <2>1, <2>2, <2>3, Zenon
<1>2. g = D(g)
  <2>1. ASSUME NEW i \in 0..N
        PROVE  g[i] = IF i = 0 THEN 0 ELSE g[i - 1] + f[i - 1]
    <3>1. CASE i = 0
      BY <1>1, <3>1 DEF Follows
    <3>2. CASE i # 0
      <4>1. i \in 1..N /\ i - 1 \in 0..(N - 1) /\ i - 1 \in 0..N
        BY <3>2
      <4>2. g[i] = add[i - 1][g[i - 1]]
        <5> HIDE DEF add
        <5>1. \A k \in 1..N : g[k] = add[k - 1][g[k - 1]]
          BY <1>1, Zenon DEF Follows
        <5> QED BY <4>1, <5>1, Zenon
      <4>3. g[i - 1] \in Int
        BY <4>1, <1>1
      <4> QED BY <4>1, <4>2, <4>3, <3>2
    <3> QED BY <3>1, <3>2
  <2> QED BY <2>1
<1>3. PartialSums(f, N) = D(PartialSums(f, N))
  BY <1>2, Zenon DEF PartialSums
<1> DEFINE s == PartialSums(f, N)
<1> HIDE DEF s
<1>4. /\ s[0] = 0
      /\ \A i \in 1..N : s[i] = s[i - 1] + f[i - 1]
      /\ s = [i \in 0..N |-> s[i]]
  <2>1. s = D(s)
    BY <1>3 DEF s
  <2>2. ASSUME NEW i \in 0..N
        PROVE  s[i] = IF i = 0 THEN 0 ELSE s[i - 1] + f[i - 1]
    BY <2>1
  <2>3. s = [i \in 0..N |-> s[i]]
    BY <2>1
  <2>4. s[0] = 0
    BY <2>2
  <2>5. \A i \in 1..N : s[i] = s[i - 1] + f[i - 1]
    BY <2>2
  <2> QED BY <2>3, <2>4, <2>5
<1> DEFINE T == {k \in Nat : k <= N => s[k] \in Int}
<1>5. Nat \subseteq T
  <2>1. 0 \in T
    BY <1>4
  <2>2. ASSUME NEW k \in Nat, k \in T PROVE k + 1 \in T
    <3> SUFFICES ASSUME k + 1 <= N PROVE s[k + 1] \in Int
      OBVIOUS
    <3>1. s[k] \in Int /\ f[k] \in Int /\ k + 1 \in 1..N
      BY <2>2
    <3>2. s[k + 1] = s[(k + 1) - 1] + f[(k + 1) - 1]
      BY <3>1, <1>4
    <3> QED BY <3>1, <3>2
  <2> HIDE DEF T
  <2> QED BY <2>1, <2>2, SetInduction
<1>6. s \in [0..N -> Int]
  <2>1. \A k \in 0..N : s[k] \in Int
    BY <1>5
  <2> QED BY <2>1, <1>4
<1>7. /\ s \in [0..N -> Int]
      /\ s[0] = 0
      /\ \A i \in 1..N : s[i] = s[i - 1] + f[i - 1]
  BY <1>4, <1>6, Zenon
<1> QED BY <1>7, Zenon DEF s

\* A sum of naturals is a natural.
LEMMA SumType ==
  ASSUME NEW N \in Nat, NEW f \in [0..(N - 1) -> Nat]
  PROVE  SumTo(f, N) \in Nat
<1> DEFINE s == PartialSums(f, N)
           T == {k \in Nat : k <= N => s[k] \in Nat}
<1>1. /\ s \in [0..N -> Int]
      /\ s[0] = 0
      /\ \A i \in 1..N : s[i] = s[i - 1] + f[i - 1]
  BY PartialSumFollows, f \in [0..(N - 1) -> Int]
<1> HIDE DEF s
<1>2. 0 \in T
  BY <1>1
<1>3. ASSUME NEW k \in Nat, k \in T PROVE k + 1 \in T
  <2> SUFFICES ASSUME k + 1 <= N PROVE s[k + 1] \in Nat
    OBVIOUS
  <2>1. s[k] \in Nat /\ f[k] \in Nat /\ k + 1 \in 1..N
    BY <1>3
  <2>2. s[k + 1] = s[(k + 1) - 1] + f[(k + 1) - 1]
    BY <2>1, <1>1
  <2> QED BY <2>1, <2>2
<1>4. Nat \subseteq T
  <2> HIDE DEF T
  <2> QED BY <1>2, <1>3, SetInduction
<1>5. N \in T
  BY <1>4
<1> QED BY <1>5 DEF SumTo, s

\* d is the running difference between g and f.
RunningDifference(d, f, g, N) ==
  /\ d[0] = 0
  /\ \A i \in 0..(N - 1) : g[i] = f[i] + d[i + 1] - d[i]

\* Sums of functions that differ by delta: the difference of the partial sums
\* is the partial sum of delta.
LEMMA SumOfDifference ==
  ASSUME NEW N \in Nat, NEW f \in [0..(N - 1) -> Int], NEW g \in [0..(N - 1) -> Int],
         NEW d \in [0..N -> Int], RunningDifference(d, f, g, N)
  PROVE  SumTo(g, N) = SumTo(f, N) + d[N]
<1> DEFINE s == PartialSums(f, N)
           t == PartialSums(g, N)
           T == {k \in Nat : k <= N => t[k] = s[k] + d[k]}
<1>1. /\ s \in [0..N -> Int]
      /\ s[0] = 0
      /\ \A i \in 1..N : s[i] = s[i - 1] + f[i - 1]
  BY PartialSumFollows
<1>2. /\ t \in [0..N -> Int]
      /\ t[0] = 0
      /\ \A i \in 1..N : t[i] = t[i - 1] + g[i - 1]
  BY PartialSumFollows
<1> HIDE DEF s, t
<1>3. 0 \in T
  BY <1>1, <1>2 DEF RunningDifference
<1>4. ASSUME NEW k \in Nat, k \in T PROVE k + 1 \in T
  <2> SUFFICES ASSUME k + 1 <= N PROVE t[k + 1] = s[k + 1] + d[k + 1]
    OBVIOUS
  <2>1. /\ k \in 0..(N - 1) /\ k + 1 \in 1..N
        /\ k \in 0..N /\ k + 1 \in 0..N
        /\ (k + 1) - 1 = k
    OBVIOUS
  <2>2. /\ s[k + 1] = s[k] + f[k] /\ t[k + 1] = t[k] + g[k]
        /\ g[k] = f[k] + d[k + 1] - d[k]
    BY <2>1, <1>1, <1>2 DEF RunningDifference
  <2>3. /\ s[k] \in Int /\ t[k] \in Int /\ f[k] \in Int /\ g[k] \in Int
        /\ d[k] \in Int /\ d[k + 1] \in Int
        /\ s[k + 1] \in Int /\ t[k + 1] \in Int
    BY <2>1, <1>1, <1>2
  <2>4. t[k] = s[k] + d[k]
    BY <1>4, <2>1
  <2> HIDE DEF T
  <2>5. t[k + 1] = t[k] + (f[k] + (d[k + 1] - d[k]))
    BY <2>2, Zenon
  <2>6. t[k + 1] = (s[k] + d[k]) + (f[k] + (d[k + 1] - d[k]))
    BY <2>4, <2>5, Zenon
  <2>7. t[k + 1] = (s[k] + f[k]) + d[k + 1]
    BY <2>3, <2>6
  <2> QED BY <2>2, <2>7, Zenon
<1>5. Nat \subseteq T
  <2> HIDE DEF T
  <2> QED BY <1>3, <1>4, SetInduction
<1>6. N \in T
  BY <1>5
<1> QED BY <1>6 DEF SumTo, s, t

\* One summand changed by x changes the sum by x.
LEMMA SumBump ==
  ASSUME NEW N \in Nat, NEW f \in [0..(N - 1) -> Int], NEW g \in [0..(N - 1) -> Int],
         NEW k \in 0..(N - 1), NEW x \in Int,
         g[k] = f[k] + x, \A i \in 0..(N - 1) : i # k => g[i] = f[i]
  PROVE  SumTo(g, N) = SumTo(f, N) + x
<1> DEFINE d == [i \in 0..N |-> IF i <= k THEN 0 ELSE x]
<1>1. d \in [0..N -> Int] /\ d[N] = x
  OBVIOUS
<1>2. RunningDifference(d, f, g, N)
  <2>1. ASSUME NEW i \in 0..(N - 1) PROVE g[i] = f[i] + d[i + 1] - d[i]
    <3>1. i \in 0..N /\ i + 1 \in 0..N
      OBVIOUS
    <3>2. CASE i = k
      BY <3>1, <3>2
    <3>3. CASE i # k
      BY <3>1, <3>3
    <3> QED BY <3>2, <3>3
  <2>2. d[0] = 0
    OBVIOUS
  <2> HIDE DEF d
  <2> QED BY <2>1, <2>2 DEF RunningDifference
<1> HIDE DEF d
<1> QED BY <1>1, <1>2, SumOfDifference

\* One more summand.
LEMMA SumExtend ==
  ASSUME NEW N \in Nat, NEW f \in [0..(N - 1) -> Int], NEW g \in [0..N -> Int],
         \A i \in 0..(N - 1) : g[i] = f[i]
  PROVE  SumTo(g, N + 1) = SumTo(f, N) + g[N]
<1> DEFINE s == PartialSums(f, N)
           t == PartialSums(g, N + 1)
           T == {k \in Nat : k <= N => t[k] = s[k]}
<1>1. /\ s \in [0..N -> Int]
      /\ s[0] = 0
      /\ \A i \in 1..N : s[i] = s[i - 1] + f[i - 1]
  BY PartialSumFollows
<1>2. /\ t \in [0..(N + 1) -> Int]
      /\ t[0] = 0
      /\ \A i \in 1..(N + 1) : t[i] = t[i - 1] + g[i - 1]
  <2>1. N + 1 \in Nat /\ g \in [0..((N + 1) - 1) -> Int]
    OBVIOUS
  <2> QED BY <2>1, PartialSumFollows
<1> HIDE DEF s, t
<1>3. 0 \in T
  BY <1>1, <1>2
<1>4. ASSUME NEW k \in Nat, k \in T PROVE k + 1 \in T
  <2> SUFFICES ASSUME k + 1 <= N PROVE t[k + 1] = s[k + 1]
    OBVIOUS
  <2>1. /\ k \in 0..(N - 1) /\ k + 1 \in 1..N /\ k + 1 \in 1..(N + 1)
        /\ (k + 1) - 1 = k
    OBVIOUS
  <2>2. s[k + 1] = s[k] + f[k] /\ t[k + 1] = t[k] + g[k] /\ g[k] = f[k]
    BY <2>1, <1>1, <1>2
  <2>3. t[k] = s[k]
    BY <1>4, <2>1
  <2> QED BY <2>2, <2>3
<1>5. Nat \subseteq T
  <2> HIDE DEF T
  <2> QED BY <1>3, <1>4, SetInduction
<1>6. t[N] = s[N]
  BY <1>5
<1>7. t[N + 1] = t[N] + g[N]
  BY <1>2
<1> QED BY <1>6, <1>7 DEF SumTo, s, t

\* The sum of nothing is nothing.
LEMMA SumZero ==
  ASSUME NEW N \in Nat, NEW f \in [0..(N - 1) -> Int], \A i \in 0..(N - 1) : f[i] = 0
  PROVE  SumTo(f, N) = 0
<1> DEFINE s == PartialSums(f, N)
           T == {k \in Nat : k <= N => s[k] = 0}
<1>1. /\ s \in [0..N -> Int]
      /\ s[0] = 0
      /\ \A i \in 1..N : s[i] = s[i - 1] + f[i - 1]
  BY PartialSumFollows
<1> HIDE DEF s
<1>2. 0 \in T
  BY <1>1
<1>3. ASSUME NEW k \in Nat, k \in T PROVE k + 1 \in T
  BY <1>1, <1>3
<1>4. Nat \subseteq T
  <2> HIDE DEF T
  <2> QED BY <1>2, <1>3, SetInduction
<1>5. N \in T
  BY <1>4
<1> QED BY <1>5 DEF SumTo, s

\* Summands in order give sums in order.
LEMMA SumBelow ==
  ASSUME NEW N \in Nat, NEW f \in [0..(N - 1) -> Int], NEW g \in [0..(N - 1) -> Int],
         \A i \in 0..(N - 1) : f[i] <= g[i]
  PROVE  SumTo(f, N) <= SumTo(g, N)
<1> DEFINE s == PartialSums(f, N)
           t == PartialSums(g, N)
           T == {k \in Nat : k <= N => s[k] <= t[k]}
<1>1. /\ s \in [0..N -> Int] /\ s[0] = 0
      /\ \A i \in 1..N : s[i] = s[i - 1] + f[i - 1]
  BY PartialSumFollows
<1>2. /\ t \in [0..N -> Int] /\ t[0] = 0
      /\ \A i \in 1..N : t[i] = t[i - 1] + g[i - 1]
  BY PartialSumFollows
<1> HIDE DEF s, t
<1>3. 0 \in T
  BY <1>1, <1>2
<1>4. ASSUME NEW k \in Nat, k \in T PROVE k + 1 \in T
  <2> SUFFICES ASSUME k + 1 <= N PROVE s[k + 1] <= t[k + 1]
    OBVIOUS
  <2>1. k \in 0..(N - 1) /\ k + 1 \in 1..N /\ k \in 0..N /\ (k + 1) - 1 = k
    OBVIOUS
  <2>2. s[k + 1] = s[k] + f[k] /\ t[k + 1] = t[k] + g[k]
    BY <2>1, <1>1, <1>2
  <2>3. /\ s[k] \in Int /\ t[k] \in Int /\ f[k] \in Int /\ g[k] \in Int
        /\ f[k] <= g[k] /\ s[k] <= t[k]
    BY <2>1, <1>1, <1>2, <1>4
  <2> HIDE DEF T
  <2>4. s[k] + f[k] <= t[k] + g[k]
    BY <2>3
  <2> QED BY <2>2, <2>4, Zenon
<1>5. Nat \subseteq T
  <2> HIDE DEF T
  <2> QED BY <1>3, <1>4, SetInduction
<1>6. N \in T
  BY <1>5
<1> QED BY <1>6 DEF SumTo, s, t

\* A multiple of b added to f adds that multiple of its sum.
LEMMA SumPlusMultiple ==
  ASSUME NEW N \in Nat, NEW f \in [0..(N - 1) -> Int], NEW b \in [0..(N - 1) -> Int],
         NEW g \in [0..(N - 1) -> Int], NEW c \in Int,
         \A i \in 0..(N - 1) : g[i] = f[i] + c * b[i]
  PROVE  SumTo(g, N) = SumTo(f, N) + c * SumTo(b, N)
<1> DEFINE s == PartialSums(f, N)
           t == PartialSums(g, N)
           u == PartialSums(b, N)
           T == {k \in Nat : k <= N => t[k] = s[k] + c * u[k]}
<1>1. /\ s \in [0..N -> Int] /\ s[0] = 0
      /\ \A i \in 1..N : s[i] = s[i - 1] + f[i - 1]
  BY PartialSumFollows
<1>2. /\ t \in [0..N -> Int] /\ t[0] = 0
      /\ \A i \in 1..N : t[i] = t[i - 1] + g[i - 1]
  BY PartialSumFollows
<1>3. /\ u \in [0..N -> Int] /\ u[0] = 0
      /\ \A i \in 1..N : u[i] = u[i - 1] + b[i - 1]
  BY PartialSumFollows
<1> HIDE DEF s, t, u
<1>4. 0 \in T
  BY <1>1, <1>2, <1>3
<1>5. ASSUME NEW k \in Nat, k \in T PROVE k + 1 \in T
  <2> SUFFICES ASSUME k + 1 <= N PROVE t[k + 1] = s[k + 1] + c * u[k + 1]
    OBVIOUS
  <2>1. k \in 0..(N - 1) /\ k + 1 \in 1..N /\ k \in 0..N /\ (k + 1) - 1 = k
    OBVIOUS
  <2>2. s[k + 1] = s[k] + f[k] /\ t[k + 1] = t[k] + g[k] /\ u[k + 1] = u[k] + b[k]
    BY <2>1, <1>1, <1>2, <1>3
  <2>3. /\ s[k] \in Int /\ t[k] \in Int /\ u[k] \in Int
        /\ f[k] \in Int /\ g[k] \in Int /\ b[k] \in Int
        /\ g[k] = f[k] + c * b[k] /\ t[k] = s[k] + c * u[k]
    BY <2>1, <1>1, <1>2, <1>3, <1>5
  <2> HIDE DEF T
  <2>4. c * (u[k] + b[k]) = c * u[k] + c * b[k]
    BY <2>3
  <2>5. c * u[k] \in Int /\ c * b[k] \in Int
    BY <2>3
  <2>6. t[k + 1] = (s[k] + c * u[k]) + (f[k] + c * b[k])
    BY <2>2, <2>3, Zenon
  <2>7. (s[k] + c * u[k]) + (f[k] + c * b[k]) = (s[k] + f[k]) + (c * u[k] + c * b[k])
    <3> DEFINE x == c * u[k]
               y == c * b[k]
    <3>1. s[k] \in Int /\ f[k] \in Int /\ x \in Int /\ y \in Int
      BY <2>3, <2>5
    <3> HIDE DEF x, y
    <3>2. (s[k] + x) + (f[k] + y) = (s[k] + f[k]) + (x + y)
      BY <3>1
    <3> QED BY <3>2, Zenon DEF x, y
  <2> QED BY <2>2, <2>4, <2>6, <2>7, Zenon
<1>6. Nat \subseteq T
  <2> HIDE DEF T
  <2> QED BY <1>4, <1>5, SetInduction
<1>7. N \in T
  BY <1>6
<1> QED BY <1>7 DEF SumTo, s, t, u
=============================================================================
