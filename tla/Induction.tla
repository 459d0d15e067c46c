------------------------------ MODULE Induction ------------------------------
(***************************************************************************)
(* Induction over the natural numbers for a set instead of an operator,    *)
(* and what it gives for the recursive functions of the models that add up *)
(* a number bit by bit: they exist, and each value is the one before plus  *)
(* its term.                                                               *)
(***************************************************************************)
EXTENDS Integers, WellFoundedInduction, TLAPS

\* The order of the natural numbers, as a relation.
LEMMA LessIsWellFounded ==
  \E R : /\ IsWellFoundedOn(R, Nat)
         /\ \A a, b \in Nat : <<a, b>> \in R <=> a < b
<1>1. \A a, b \in Nat : <<a, b>> \in OpToRel(<, Nat) <=> a < b
  BY DEF OpToRel
<1> QED BY <1>1, NatLessThanWellFounded

\* Every set of natural numbers but the empty one has a least element.
LEMMA LeastElement ==
  ASSUME NEW S, S \subseteq Nat, S # {}
  PROVE  \E x \in S : \A y \in S : x <= y
<1>1. PICK R : /\ IsWellFoundedOn(R, Nat)
               /\ \A a, b \in Nat : <<a, b>> \in R <=> a < b
  BY LessIsWellFounded
<1>2. IsWellFoundedOn(R, Nat)
  BY <1>1
<1>3. \E x \in S : \A y \in S : ~ (<<y, x>> \in R)
  BY ONLY <1>2, S \subseteq Nat, S # {}, WFMin, Zenon
<1>4. PICK x \in S : \A y \in S : ~ (<<y, x>> \in R)
  BY <1>3
<1>5. \A y \in S : ~ (y < x)
  BY <1>1, <1>4
<1> QED BY <1>4, <1>5

\* A set with 0 and the successor of each of its members is all of Nat.
LEMMA SetInduction ==
  ASSUME NEW T \in SUBSET Nat, 0 \in T, \A n \in T : n + 1 \in T
  PROVE  T = Nat
<1> SUFFICES ASSUME Nat \ T # {} PROVE FALSE
  OBVIOUS
<1> DEFINE S == Nat \ T
<1>1. S \subseteq Nat /\ S # {}
  OBVIOUS
<1>2. \E x \in S : \A y \in S : x <= y
  <2> HIDE DEF S
  <2> QED BY <1>1, LeastElement
<1>3. PICK x \in S : \A y \in S : x <= y
  BY <1>2
<1>4. x # 0 /\ x - 1 \in Nat /\ x - 1 < x /\ (x - 1) + 1 = x
  BY <1>3
<1> QED BY <1>3, <1>4

\* A finite list of integers, not empty, has a member that no other exceeds.
LEMMA Attained ==
  ASSUME NEW N \in Nat, NEW f, \A j \in 1 .. N : f[j] \in Int,
         NEW L, L \subseteq 1 .. N, L # {}
  PROVE  \E m \in L : \A j \in L : f[j] <= f[m]
<1> DEFINE Ok(n) == \A M : M \subseteq L /\ M \subseteq 1 .. n /\ M # {} =>
                           \E m \in M : \A j \in M : f[j] <= f[m]
           T == {n \in Nat : Ok(n)}
<1>1. 0 \in T
  <2>1. 1 .. 0 = {}
    OBVIOUS
  <2> QED BY <2>1
<1>2. ASSUME NEW n \in T PROVE n + 1 \in T
  <2> SUFFICES ASSUME NEW M, M \subseteq L, M \subseteq 1 .. n + 1, M # {}
               PROVE  \E m \in M : \A j \in M : f[j] <= f[m]
    OBVIOUS
  <2> DEFINE K == M \ {n + 1}
  <2>1. K \subseteq 1 .. n /\ K \subseteq L /\ K \subseteq M
    OBVIOUS
  <2>2. \A j \in M : f[j] \in Int
    OBVIOUS
  <2>3. Ok(n)
    OBVIOUS
  <2>4. \A j \in M : j \in K \/ j = n + 1
    OBVIOUS
  <2>5. CASE K = {}
    <3>1. \A j \in M : j = n + 1
      <4> HIDE DEF K
      <4> QED BY <2>4, <2>5
    <3>2. n + 1 \in M
      BY <3>1
    <3>3. f[n + 1] \in Int
      BY <3>2, <2>2
    <3>4. \A j \in M : f[j] <= f[n + 1]
      BY <3>1, <3>3
    <3> QED BY <3>2, <3>4
  <2>6. CASE K # {}
    <3>1. \E k \in K : \A j \in K : f[j] <= f[k]
      <4> HIDE DEF K
      <4> QED BY ONLY <2>1, <2>3, <2>6
    <3>2. PICK k \in K : \A j \in K : f[j] <= f[k]
      BY <3>1
    <3>3. k \in M /\ f[k] \in Int
      BY <2>1, <2>2
    <3> HIDE DEF K
    <3>4. CASE n + 1 \in M /\ f[k] <= f[n + 1]
      <4>1. f[n + 1] \in Int
        BY <3>4, <2>2
      <4>2. \A j \in M : f[j] <= f[n + 1]
        BY <2>2, <2>4, <3>2, <3>3, <3>4, <4>1
      <4> QED BY <3>4, <4>2
    <3>5. CASE n + 1 \in M /\ ~ (f[k] <= f[n + 1])
      <4>1. f[n + 1] \in Int
        BY <3>5, <2>2
      <4>2. \A j \in M : f[j] <= f[k]
        BY <2>2, <2>4, <3>2, <3>3, <3>5, <4>1
      <4> QED BY <3>3, <4>2
    <3>6. CASE n + 1 \notin M
      BY <2>4, <3>2, <3>3, <3>6
    <3> QED BY <3>4, <3>5, <3>6
  <2> QED BY <2>5, <2>6
<1>3. T = Nat
  <2> T \in SUBSET Nat
    OBVIOUS
  <2> HIDE DEF T
  <2> QED BY <1>1, <1>2, SetInduction
<1>4. Ok(N)
  BY <1>3
<1> QED BY <1>4

\* Up to a bound.
LEMMA RangeInduction ==
  ASSUME NEW N \in Nat, NEW T, 0 \in T,
         \A n \in 0 .. N - 1 : n \in T => n + 1 \in T
  PROVE  \A n \in 0 .. N : n \in T
<1> DEFINE U == {n \in Nat : n <= N => n \in T}
<1>1. ASSUME NEW n \in U PROVE n + 1 \in U
  <2> SUFFICES ASSUME n + 1 <= N PROVE n + 1 \in T
    OBVIOUS
  <2>1. n \in 0 .. N - 1 /\ n \in T
    OBVIOUS
  <2> QED BY <2>1
<1>2. U = Nat
  <2> U \in SUBSET Nat /\ 0 \in U
    OBVIOUS
  <2> HIDE DEF U
  <2> QED BY <1>1, SetInduction
<1>3. ASSUME NEW n \in 0 .. N PROVE n \in T
  <2>1. n \in U /\ n <= N
    BY <1>2
  <2> QED BY <2>1
<1> QED BY <1>3

\* v starts with a, and each further value is what a step G makes of the one
\* before.
IsRecursion(v, a, G, N) ==
  v[0] = a /\ \A k \in 1 .. N : v[k] = G[k][v[k - 1]]

\* A step that leads from S to S can be taken N times from a member of S.
LEMMA RecursionExists ==
  ASSUME NEW N \in Nat, NEW S, NEW a \in S,
         NEW G \in [1 .. N -> [S -> S]]
  PROVE  \E v : v \in [0 .. N -> S] /\ IsRecursion(v, a, G, N)
<1> DEFINE Is(v, n) == /\ v \in [0 .. n -> S]
                       /\ v[0] = a
                       /\ \A k \in 1 .. n : v[k] = G[k][v[k - 1]]
           T == {n \in 0 .. N : \E v : Is(v, n)}
<1>1. 0 \in T
  <2> DEFINE z == [k \in 0 .. 0 |-> a]
  <2>1. Is(z, 0) /\ 0 \in 0 .. N
    OBVIOUS
  <2> HIDE DEF Is, z
  <2> QED BY <2>1
<1>2. ASSUME NEW n \in 0 .. N - 1, n \in T PROVE n + 1 \in T
  <2>1. PICK v : Is(v, n)
    BY <1>2
  <2> DEFINE s == G[n + 1][v[n]]
             u == [k \in 0 .. n + 1 |-> IF k <= n THEN v[k] ELSE s]
  <2>2. v[n] \in S /\ s \in S
    <3>1. n \in 0 .. n /\ n + 1 \in 1 .. N
      OBVIOUS
    <3>2. v[n] \in S
      BY <2>1, <3>1
    <3> QED BY <3>1, <3>2
  <2>3. u \in [0 .. n + 1 -> S] /\ u[0] = a
    <3>1. \A k \in 0 .. n : v[k] \in S
      BY <2>1
    <3> HIDE DEF s
    <3>2. u[0] = v[0]
      OBVIOUS
    <3> QED BY <2>1, <2>2, <3>1, <3>2
  <2>4. ASSUME NEW k \in 1 .. n + 1 PROVE u[k] = G[k][u[k - 1]]
    <3>1. CASE k <= n
      <4>1. k \in 1 .. n /\ k \in 0 .. n + 1 /\ k - 1 \in 0 .. n + 1 /\ k - 1 <= n
        BY <3>1
      <4>2. u[k] = v[k] /\ u[k - 1] = v[k - 1]
        BY <3>1, <4>1
      <4> HIDE DEF u
      <4> QED BY <2>1, <4>1, <4>2
    <3>2. CASE ~ (k <= n)
      <4>1. k = n + 1 /\ k - 1 = n /\ n \in 0 .. n + 1 /\ k \in 0 .. n + 1 /\ n <= n
        BY <3>2
      <4>2. u[k] = s /\ u[n] = v[n]
        BY <3>2, <4>1
      <4> HIDE DEF u
      <4> QED BY <4>1, <4>2
    <3> QED BY <3>1, <3>2
  <2>5. Is(u, n + 1)
    <3> HIDE DEF u
    <3> QED BY <2>3, <2>4
  <2> HIDE DEF Is
  <2> QED BY <2>5
<1>3. \A n \in 0 .. N : n \in T
  <2> HIDE DEF T
  <2> QED BY <1>1, <1>2, RangeInduction
<1>4. \E v : Is(v, N)
  BY <1>3
<1> QED BY <1>4 DEF IsRecursion

-----------------------------------------------------------------------------
\* v holds the partial sums c[1] + ... + c[k] for k up to n.
IsSum(v, c, n) ==
  v = [k \in 0 .. n |-> IF k = 0 THEN 0 ELSE v[k - 1] + c[k]]

\* Its equations, one for each k.
LEMMA SumEquations ==
  ASSUME NEW v, NEW c, NEW n \in Nat, IsSum(v, c, n)
  PROVE  /\ v[0] = 0
         /\ \A k \in 0 .. n - 1 : v[k + 1] = v[k] + c[k + 1]
<1>1. v[0] = 0
  BY DEF IsSum
<1>2. ASSUME NEW k \in 0 .. n - 1 PROVE v[k + 1] = v[k] + c[k + 1]
  <2>1. k + 1 \in 0 .. n /\ k + 1 # 0 /\ (k + 1) - 1 = k
    OBVIOUS
  <2> QED BY <2>1 DEF IsSum
<1> QED BY <1>1, <1>2

\* There are such sums, whatever the terms are.
LEMMA SumExists ==
  ASSUME NEW c, NEW n \in Nat
  PROVE  \E v : IsSum(v, c, n)
<1> DEFINE T == {m \in Nat : \E v : IsSum(v, c, m)}
<1>1. 0 \in T
  <2> DEFINE z == [k \in 0 .. 0 |-> 0]
  <2>1. \A k \in 0 .. 0 : k = 0
    OBVIOUS
  <2> QED BY <2>1 DEF IsSum
<1>2. ASSUME NEW m \in T PROVE m + 1 \in T
  <2>1. PICK v : IsSum(v, c, m)
    OBVIOUS
  <2> DEFINE u == [k \in 0 .. m + 1 |-> IF k <= m THEN v[k]
                                        ELSE v[m] + c[m + 1]]
  <2>2. ASSUME NEW k \in 0 .. m + 1
        PROVE  u[k] = IF k = 0 THEN 0 ELSE u[k - 1] + c[k]
    <3>1. CASE k = 0
      BY <3>1, <2>1 DEF IsSum
    <3>2. CASE k \in 1 .. m
      <4>1. /\ k \in 0 .. m /\ k # 0 /\ k <= m
            /\ k - 1 <= m /\ k - 1 \in 0 .. m + 1
        BY <3>2
      <4>2. u[k] = v[k] /\ u[k - 1] = v[k - 1]
        BY <4>1
      <4> HIDE DEF u
      <4>3. v[k] = v[k - 1] + c[k]
        BY <2>1, <4>1 DEF IsSum
      <4> QED BY <4>1, <4>2, <4>3
    <3>3. CASE k = m + 1
      <4>1. k # 0 /\ k - 1 = m /\ ~ (k <= m) /\ m \in 0 .. m + 1
        BY <3>3
      <4>2. u[k] = v[m] + c[m + 1] /\ u[m] = v[m]
        BY <4>1
      <4> HIDE DEF u
      <4> QED BY <3>3, <4>1, <4>2
    <3> QED BY <3>1, <3>2, <3>3
  <2>3. u = [k \in 0 .. m + 1 |-> u[k]]
    OBVIOUS
  <2>4. IsSum(u, c, m + 1)
    <3> HIDE DEF u
    <3> QED BY <2>2, <2>3 DEF IsSum
  <2> QED BY <2>4
<1>3. T = Nat
  <2> T \in SUBSET Nat
    OBVIOUS
  <2> HIDE DEF T
  <2> QED BY <1>1, <1>2, SetInduction
<1> QED BY <1>3

\* Longer sums begin with the shorter ones.
LEMMA SumUnique ==
  ASSUME NEW m \in Nat, NEW n \in Nat, NEW c, NEW d,
         m <= n, \A k \in 1 .. m : c[k] = d[k],
         NEW u, NEW v, IsSum(u, c, m), IsSum(v, d, n)
  PROVE  \A k \in 0 .. m : u[k] = v[k]
<1> DEFINE T == {k \in Nat : k <= m => u[k] = v[k]}
<1>1. /\ u[0] = 0
      /\ \A k \in 0 .. m - 1 : u[k + 1] = u[k] + c[k + 1]
  BY SumEquations
<1>2. /\ v[0] = 0
      /\ \A k \in 0 .. n - 1 : v[k + 1] = v[k] + d[k + 1]
  BY SumEquations
<1>3. ASSUME NEW k \in T PROVE k + 1 \in T
  <2> SUFFICES ASSUME k + 1 <= m PROVE u[k + 1] = v[k + 1]
    OBVIOUS
  <2>1. k \in 0 .. m - 1 /\ k \in 0 .. n - 1 /\ k + 1 \in 1 .. m /\ k <= m
    OBVIOUS
  <2>2. u[k] = v[k]
    BY <2>1
  <2> HIDE DEF T
  <2> QED BY <1>1, <1>2, <2>1, <2>2
<1>4. T = Nat
  <2> T \in SUBSET Nat /\ 0 \in T
    BY <1>1, <1>2
  <2> HIDE DEF T
  <2> QED BY <1>3, SetInduction
<1> QED BY <1>4

\* Sums of integers are integers.
LEMMA SumInt ==
  ASSUME NEW n \in Nat, NEW c, \A k \in 1 .. n : c[k] \in Int,
         NEW v, IsSum(v, c, n)
  PROVE  \A k \in 0 .. n : v[k] \in Int
<1> DEFINE T == {k \in Nat : k <= n => v[k] \in Int}
<1>1. /\ v[0] = 0
      /\ \A k \in 0 .. n - 1 : v[k + 1] = v[k] + c[k + 1]
  BY SumEquations
<1>2. ASSUME NEW k \in T PROVE k + 1 \in T
  <2> SUFFICES ASSUME k + 1 <= n PROVE v[k + 1] \in Int
    OBVIOUS
  <2>1. k \in 0 .. n - 1 /\ k + 1 \in 1 .. n /\ k <= n /\ v[k] \in Int
    OBVIOUS
  <2> HIDE DEF T
  <2> QED BY <1>1, <2>1
<1>3. T = Nat
  <2> T \in SUBSET Nat /\ 0 \in T
    BY <1>1
  <2> HIDE DEF T
  <2> QED BY <1>2, SetInduction
<1> QED BY <1>3
==============================================================================
