------------------------------ MODULE AluProofs ------------------------------
(***************************************************************************)
(* Proofs about the handlers, for every width of an int, every start and   *)
(* every cell of memory: each one leaves the registers, the pc, the CSRs   *)
(* and the memory the ISA says, but for the cases the properties of Alu    *)
(* name; every result fits its register; and the multiply-high             *)
(* instructions are exact.                                                 *)
(*                                                                         *)
(* RvArith computes bit by bit, cpu.c with the operators of C. The first   *)
(* half of the module shows the one equal to the other: powers of two,     *)
(* division with remainder, the bits of a number, casts, words, products,  *)
(* quotients, memory and CSRs. The second takes one action after the       *)
(* other.                                                                  *)
(***************************************************************************)
EXTENDS Alu, Induction, TLAPS

-----------------------------------------------------------------------------
(***************************************************************************)
(* Powers of two.                                                          *)
(***************************************************************************)
\* f doubles up to n, from 1.
Doubles(f, n) ==
  f \in [0 .. n -> Nat] /\ f[0] = 1 /\ \A k \in 1 .. n : f[k] = 2 * f[k - 1]

\* For each n there is such a function.
LEMMA DoublesExists ==
  ASSUME NEW n \in Nat
  PROVE  \E f : Doubles(f, n)
<1> DEFINE G == [k \in 1 .. n |-> [m \in Nat |-> 2 * m]]
<1>1. PICK a \in Nat : a = 1
  OBVIOUS
<1>2. G \in [1 .. n -> [Nat -> Nat]]
  OBVIOUS
<1>3. \A k \in 1 .. n : \A m \in Nat : G[k][m] = 2 * m
  OBVIOUS
<1> HIDE DEF G
<1>4. PICK f : f \in [0 .. n -> Nat] /\ IsRecursion(f, a, G, n)
  BY <1>2, RecursionExists
<1>5. \A k \in 1 .. n : f[k - 1] \in Nat
  BY <1>4
<1>6. f[0] = 1 /\ \A k \in 1 .. n : f[k] = G[k][f[k - 1]]
  BY <1>1, <1>4 DEF IsRecursion
<1>7. \A k \in 1 .. n : f[k] = 2 * f[k - 1]
  BY <1>3, <1>5, <1>6
<1> QED BY <1>4, <1>6, <1>7 DEF Doubles

\* Two of them agree as far as both go.
LEMMA DoublesAgree ==
  ASSUME NEW m \in Nat, NEW n \in Nat, m <= n,
         NEW f, Doubles(f, m), NEW g, Doubles(g, n)
  PROVE  \A k \in 0 .. m : f[k] = g[k]
<1> DEFINE T == {k \in 0 .. m : f[k] = g[k]}
<1>1. 0 \in T
  BY DEF Doubles
<1>2. ASSUME NEW k \in 0 .. m - 1, k \in T PROVE k + 1 \in T
  <2>1. k + 1 \in 1 .. m /\ k + 1 \in 1 .. n /\ (k + 1) - 1 = k
    OBVIOUS
  <2> QED BY <1>2, <2>1 DEF Doubles
<1> HIDE DEF T
<1>3. \A k \in 0 .. m : k \in T
  BY <1>1, <1>2, RangeInduction
<1> QED BY <1>3 DEF T

\* The equations of TwoTo, and its type.
LEMMA TwoToEquations ==
  /\ TwoTo[0] = 1
  /\ \A n \in Nat : TwoTo[n + 1] = 2 * TwoTo[n]
  /\ \A n \in Nat : TwoTo[n] \in Nat
<1> DEFINE v(n) == CHOOSE f : Doubles(f, n)
           g == [n \in Nat |-> v(n)[n]]
           B(f) == [n \in Nat |-> IF n = 0 THEN 1 ELSE 2 * f[n - 1]]
<1>1. \A n \in Nat : Doubles(v(n), n)
  BY DoublesExists
<1> HIDE DEF v
<1>2. g[0] = 1 /\ \A n \in Nat : g[n] \in Nat
  BY <1>1 DEF Doubles
<1>3. ASSUME NEW n \in Nat PROVE g[n + 1] = 2 * g[n]
  <2>1. n + 1 \in Nat /\ n + 1 \in 1 .. n + 1 /\ (n + 1) - 1 = n /\ n <= n + 1
    OBVIOUS
  <2>2. v(n + 1)[n + 1] = 2 * v(n + 1)[n]
    BY <1>1, <2>1 DEF Doubles
  <2>3. v(n)[n] = v(n + 1)[n]
    <3>1. Doubles(v(n), n) /\ Doubles(v(n + 1), n + 1) /\ n \in 0 .. n
      BY <1>1, <2>1
    <3> QED BY <2>1, <3>1, DoublesAgree
  <2> QED BY <2>1, <2>2, <2>3
<1>4. g = B(g)
  <2>1. ASSUME NEW n \in Nat
        PROVE  g[n] = IF n = 0 THEN 1 ELSE 2 * g[n - 1]
    <3>1. CASE n # 0
      <4>1. n - 1 \in Nat /\ (n - 1) + 1 = n
        BY <3>1
      <4> HIDE DEF g
      <4> QED BY <3>1, <4>1, <1>3
    <3> QED BY <3>1, <1>2
  <2> QED BY <2>1
<1>5. TwoTo = CHOOSE f : f = B(f)
  BY DEF TwoTo
<1>6. TwoTo = B(TwoTo)
  <2> HIDE DEF B, g
  <2> QED BY <1>4, <1>5
<1>7. \A n \in Nat : TwoTo[n] = IF n = 0 THEN 1 ELSE 2 * TwoTo[n - 1]
  <2>1. \A n \in Nat : B(TwoTo)[n] = IF n = 0 THEN 1 ELSE 2 * TwoTo[n - 1]
    OBVIOUS
  <2> HIDE DEF B
  <2> QED BY <1>6, <2>1
<1>8. \A n \in Nat : n + 1 \in Nat /\ n + 1 # 0 /\ (n + 1) - 1 = n
  OBVIOUS
<1>9. TwoTo[0] = 1 /\ \A n \in Nat : TwoTo[n + 1] = 2 * TwoTo[n]
  BY <1>7, <1>8
<1>10. \A n \in Nat : TwoTo[n] \in Nat
  <2> DEFINE T == {n \in Nat : TwoTo[n] \in Nat}
  <2>1. 0 \in T /\ \A n \in T : n + 1 \in T
    BY <1>9
  <2>2. T \in SUBSET Nat
    OBVIOUS
  <2> HIDE DEF T
  <2>3. T = Nat
    BY <2>1, <2>2, SetInduction
  <2> QED BY <2>3 DEF T
<1> QED BY <1>9, <1>10

\* Powers of two are positive.
LEMMA TwoToPos ==
  ASSUME NEW n \in Nat
  PROVE  TwoTo[n] \in Nat /\ TwoTo[n] > 0
<1> DEFINE T == {k \in Nat : TwoTo[k] > 0}
<1>1. 0 \in T /\ \A k \in T : k + 1 \in T
  BY TwoToEquations
<1>2. T \in SUBSET Nat
  OBVIOUS
<1> HIDE DEF T
<1>3. T = Nat
  BY <1>1, <1>2, SetInduction
<1> QED BY <1>3, TwoToEquations DEF T

\* The power of a sum is the product of the powers.
LEMMA TwoToSum ==
  ASSUME NEW m \in Nat, NEW n \in Nat
  PROVE  TwoTo[m + n] = TwoTo[m] * TwoTo[n]
<1> DEFINE T == {k \in Nat : TwoTo[m + k] = TwoTo[m] * TwoTo[k]}
<1>1. 0 \in T
  <2>1. m + 0 = m /\ TwoTo[m] * 1 = TwoTo[m]
    BY TwoToPos
  <2> QED BY <2>1, TwoToEquations
<1>2. ASSUME NEW k \in T PROVE k + 1 \in T
  <2>1. m + (k + 1) = (m + k) + 1 /\ m + k \in Nat /\ k \in Nat
    OBVIOUS
  <2>2. TwoTo[m + (k + 1)] = 2 * (TwoTo[m] * TwoTo[k])
    BY <2>1, TwoToEquations
  <2>3. TwoTo[k + 1] = 2 * TwoTo[k]
    BY <2>1, TwoToEquations
  <2>4. TwoTo[m] \in Nat /\ TwoTo[k] \in Nat
    BY <2>1, TwoToPos
  <2>5. TwoTo[m] * (2 * TwoTo[k]) = 2 * (TwoTo[m] * TwoTo[k])
    BY <2>4
  <2> QED BY <2>2, <2>3, <2>5
<1>3. T \in SUBSET Nat
  OBVIOUS
<1> HIDE DEF T
<1>4. T = Nat
  BY <1>1, <1>2, <1>3, SetInduction
<1> QED BY <1>4 DEF T

-----------------------------------------------------------------------------
(***************************************************************************)
(* Division with remainder.                                                *)
(***************************************************************************)
\* Quotient and remainder, as the casts and shifts of cpu.c split a number.
LEMMA DivMod ==
  ASSUME NEW a \in Int, NEW b \in Nat, b > 0
  PROVE  /\ a \div b \in Int /\ a % b \in 0 .. b - 1
         /\ a = b * (a \div b) + (a % b)
OBVIOUS

\* A multiple of b is as far from zero as b, or zero.
LEMMA SmallMultiple ==
  ASSUME NEW d \in Int, NEW b \in Nat, b > 0, -b < b * d, b * d < b
  PROVE  d = 0
<1>1. CASE d >= 1
  <2>1. b * d >= b
    BY <1>1
  <2> QED BY <2>1
<1>2. CASE d <= -1
  <2>1. b * d <= -b
    BY <1>2
  <2> QED BY <2>1
<1> QED BY <1>1, <1>2

\* Quotient and remainder are the only ones.
LEMMA DivModUnique ==
  ASSUME NEW a \in Int, NEW b \in Nat, b > 0,
         NEW q \in Int, NEW r \in 0 .. b - 1, a = b * q + r
  PROVE  a \div b = q /\ a % b = r
<1> DEFINE p == a \div b
           s == a % b
<1>1. p \in Int /\ s \in 0 .. b - 1 /\ a = b * p + s
  BY DivMod
<1> HIDE DEF p, s
<1>2. b * (p - q) = b * p - b * q
  BY <1>1
<1>3. b * (p - q) = r - s
  BY <1>1, <1>2
<1>4. p - q \in Int /\ -b < b * (p - q) /\ b * (p - q) < b
  BY <1>1, <1>3
<1>5. p - q = 0
  BY <1>4, SmallMultiple
<1>6. p = q
  BY <1>1, <1>5
<1>7. s = r
  BY <1>1, <1>6
<1> QED BY <1>6, <1>7 DEF p, s

\* A number below m times b has a quotient below m.
LEMMA QuotientBound ==
  ASSUME NEW a \in Int, NEW b \in Nat, b > 0, NEW m \in Nat,
         NEW q \in Int, NEW r \in 0 .. b - 1, a = b * q + r,
         a >= 0, a < b * m
  PROVE  q \in 0 .. m - 1
<1>1. CASE q < 0
  <2>1. b * q <= -b
    BY <1>1
  <2> QED BY <2>1
<1>2. CASE q >= m
  <2>1. b * q >= b * m
    BY <1>2
  <2> QED BY <2>1
<1> QED BY <1>1, <1>2

\* A multiple added moves the quotient and leaves the remainder.
LEMMA AddMultiple ==
  ASSUME NEW a \in Int, NEW b \in Nat, b > 0, NEW n \in Int
  PROVE  (a + b * n) \div b = a \div b + n /\ (a + b * n) % b = a % b
<1> DEFINE q == a \div b
           r == a % b
<1>1. q \in Int /\ r \in 0 .. b - 1 /\ a = b * q + r
  BY DivMod
<1> HIDE DEF q, r
<1>2. b * (q + n) = b * q + b * n
  BY <1>1
<1>3. a + b * n \in Int /\ q + n \in Int
  BY <1>1
<1>4. a + b * n = b * (q + n) + r
  BY <1>1, <1>2
<1>5. (a + b * n) \div b = q + n /\ (a + b * n) % b = r
  BY <1>1, <1>3, <1>4, DivModUnique
<1> QED BY <1>5 DEF q, r

\* Dividing in two steps.
LEMMA DivDiv ==
  ASSUME NEW n \in Int, NEW a \in Nat, a > 0, NEW b \in Nat, b > 0
  PROVE  /\ n \div (a * b) = (n \div a) \div b
         /\ n % (a * b) = (n % a) + a * ((n \div a) % b)
<1> DEFINE q == n \div a   r == n % a
           p == q \div b   s == q % b
<1>1. q \in Int /\ r \in 0 .. a - 1 /\ n = a * q + r
  BY DivMod
<1>2. p \in Int /\ s \in 0 .. b - 1 /\ q = b * p + s
  <2> HIDE DEF q
  <2> QED BY <1>1, DivMod
<1> HIDE DEF q, r, p, s
<1>3. a * (b * p + s) = (a * b) * p + a * s
  BY <1>2
<1> DEFINE d == a * b
           t == a * s + r
<1>4. d \in Nat /\ d > 0 /\ t \in Int
  <2>1. a * b >= b
    OBVIOUS
  <2> QED BY <1>1, <1>2, <2>1
<1>5. t \in 0 .. d - 1
  <2>1. a * s >= 0
    BY <1>2
  <2>2. a * s <= a * (b - 1)
    BY <1>2
  <2>3. a * (b - 1) = a * b - a
    OBVIOUS
  <2> QED BY <1>1, <1>2, <1>4, <2>1, <2>2, <2>3
<1>6. n = d * p + t
  BY <1>1, <1>2, <1>3
<1> HIDE DEF d, t
<1>7. n \div d = p /\ n % d = t
  BY <1>2, <1>4, <1>5, <1>6, DivModUnique
<1> QED BY <1>7 DEF d, t, p, s, q, r

-----------------------------------------------------------------------------
(***************************************************************************)
(* Numbers and their bits.                                                 *)
(***************************************************************************)
\* A bit is 0 or 1.
LEMMA BitOfType ==
  ASSUME NEW n \in Int, NEW b \in Nat
  PROVE  BitOf(n, b) \in {0, 1} /\ n \div TwoTo[b] \in Int
<1>1. n \div TwoTo[b] \in Int
  BY TwoToPos, DivMod
<1> DEFINE q == n \div TwoTo[b]
<1> HIDE DEF q
<1>2. q \in Int => q % 2 \in {0, 1}
  OBVIOUS
<1> QED BY <1>1, <1>2 DEF BitOf, q

\* One bit more of a number.
LEMMA NextBit ==
  ASSUME NEW n \in Int, NEW b \in Nat
  PROVE  n % TwoTo[b + 1] = (n % TwoTo[b]) + TwoTo[b] * BitOf(n, b)
<1> DEFINE a == TwoTo[b]
           two == 2
<1>1. a \in Nat /\ a > 0 /\ two \in Nat /\ two > 0
  BY TwoToPos
<1>2. TwoTo[b + 1] = a * two
  BY <1>1, TwoToEquations
<1> HIDE DEF a
<1>3. n % (a * two) = (n % a) + a * ((n \div a) % two)
  <2> HIDE DEF two
  <2> QED BY <1>1, DivDiv
<1> QED BY <1>2, <1>3 DEF a, BitOf

\* OfBits is a sum of weighted bits.
LEMMA OfBitsEquations ==
  ASSUME NEW f, NEW w \in Nat
  PROVE  \E v : /\ v[0] = 0 /\ OfBits(f, w) = v[w]
                /\ \A k \in 0 .. w - 1 : v[k + 1] = v[k] + TwoTo[k] * f[k]
<1> DEFINE B(v) == [k \in 0 .. w |->
                      IF k = 0 THEN 0 ELSE v[k - 1] + TwoTo[k - 1] * f[k - 1]]
           c == CHOOSE v : v = B(v)
           d == [k \in 1 .. w |-> TwoTo[k - 1] * f[k - 1]]
<1>1. ASSUME NEW v PROVE IsSum(v, d, w) <=> v = B(v)
  <2>1. \A k \in 0 .. w : k = 0 \/ k \in 1 .. w
    OBVIOUS
  <2>2. \A k \in 1 .. w : d[k] = TwoTo[k - 1] * f[k - 1]
    OBVIOUS
  <2> HIDE DEF d
  <2>3. B(v) = [k \in 0 .. w |-> IF k = 0 THEN 0 ELSE v[k - 1] + d[k]]
    BY <2>1, <2>2
  <2> QED BY <2>3 DEF IsSum
<1>2. \E v : v = B(v)
  BY <1>1, SumExists
<1>3. c = B(c)
  <2> HIDE DEF B
  <2> QED BY <1>2
<1>4. OfBits(f, w) = c[w]
  BY DEF OfBits
<1> HIDE DEF B, c
<1>5. IsSum(c, d, w)
  BY <1>1, <1>3
<1>6. \A k \in 0 .. w - 1 : d[k + 1] = TwoTo[k] * f[k]
  <2> TAKE k \in 0 .. w - 1
  <2>1. k + 1 \in 1 .. w /\ (k + 1) - 1 = k
    OBVIOUS
  <2> QED BY <2>1
<1> HIDE DEF d
<1>7. c[0] = 0 /\ \A k \in 0 .. w - 1 : c[k + 1] = c[k] + TwoTo[k] * f[k]
  BY <1>5, <1>6, SumEquations
<1> QED BY <1>4, <1>7

\* The low bits of a number make up its remainder.
LEMMA OfBitsOf ==
  ASSUME NEW n \in Int, NEW w \in Nat, NEW f,
         \A b \in 0 .. w - 1 : f[b] = BitOf(n, b)
  PROVE  OfBits(f, w) = n % TwoTo[w]
<1>1. PICK v : /\ v[0] = 0 /\ OfBits(f, w) = v[w]
               /\ \A k \in 0 .. w - 1 : v[k + 1] = v[k] + TwoTo[k] * f[k]
  BY OfBitsEquations
<1> DEFINE T == {k \in 0 .. w : v[k] = n % TwoTo[k]}
<1>2. 0 \in T
  <2>1. n % 1 = 0
    OBVIOUS
  <2> QED BY <1>1, <2>1, TwoToEquations
<1>3. ASSUME NEW k \in 0 .. w - 1, k \in T PROVE k + 1 \in T
  <2>1. k \in Nat /\ k + 1 \in 0 .. w
    OBVIOUS
  <2> QED BY <1>1, <1>3, <2>1, NextBit
<1> HIDE DEF T
<1>4. w \in T
  <2>1. \A k \in 0 .. w : k \in T
    BY <1>2, <1>3, RangeInduction
  <2> QED BY <2>1
<1> QED BY <1>1, <1>4 DEF T

\* A multiple of a higher power leaves a bit alone.
LEMMA BitAddMultiple ==
  ASSUME NEW m \in Int, NEW c \in Int, NEW b \in Nat, NEW k \in Nat, b < k
  PROVE  BitOf(m + TwoTo[k] * c, b) = BitOf(m, b)
<1> DEFINE j == k - b - 1
           a == TwoTo[b]
           e == TwoTo[j] * c
           q == m \div a
           d == 2 * e
<1>1. j \in Nat /\ k = b + (j + 1)
  OBVIOUS
<1>2. a \in Nat /\ a > 0 /\ e \in Int /\ q \in Int /\ d \in Int
  BY <1>1, TwoToPos, DivMod
<1>3. TwoTo[k] * c = a * d
  <2>1. TwoTo[k] = a * (2 * TwoTo[j])
    BY <1>1, TwoToSum, TwoToEquations
  <2>2. TwoTo[j] \in Int
    BY <1>1, TwoToPos
  <2> HIDE DEF a, j
  <2> QED BY <1>2, <2>1, <2>2
<1>4. (m + a * d) \div a = q + d
  <2> HIDE DEF a, d
  <2> QED BY <1>2, AddMultiple DEF q
<1>5. (q + 2 * e) % 2 = q % 2
  <2> HIDE DEF q, e
  <2> QED BY <1>2
<1> HIDE DEF e
<1> QED BY <1>3, <1>4, <1>5 DEF BitOf

\* The number made of bits, and its bits.
LEMMA OfBitsBits ==
  ASSUME NEW w \in Nat, NEW f, \A b \in 0 .. w - 1 : f[b] \in {0, 1}
  PROVE  /\ OfBits(f, w) \in 0 .. TwoTo[w] - 1
         /\ \A b \in 0 .. w - 1 : BitOf(OfBits(f, w), b) = f[b]
<1>1. PICK v : /\ v[0] = 0 /\ OfBits(f, w) = v[w]
               /\ \A k \in 0 .. w - 1 : v[k + 1] = v[k] + TwoTo[k] * f[k]
  BY OfBitsEquations
<1> DEFINE T == {k \in 0 .. w : /\ v[k] \in 0 .. TwoTo[k] - 1
                                /\ \A b \in 0 .. k - 1 : BitOf(v[k], b) = f[b]}
<1>2. 0 \in T
  BY <1>1, TwoToEquations
<1>3. ASSUME NEW k \in 0 .. w - 1, k \in T PROVE k + 1 \in T
  <2>1. k \in Nat /\ k + 1 \in 0 .. w /\ f[k] \in {0, 1}
    OBVIOUS
  <2>2. /\ v[k + 1] = v[k] + TwoTo[k] * f[k]
        /\ v[k] \in 0 .. TwoTo[k] - 1 /\ TwoTo[k] \in Nat /\ TwoTo[k] > 0
        /\ TwoTo[k + 1] = 2 * TwoTo[k]
    BY <1>1, <1>3, <2>1, TwoToPos, TwoToEquations
  <2>3. v[k + 1] \in 0 .. TwoTo[k + 1] - 1
    BY <2>1, <2>2
  <2>4. ASSUME NEW b \in 0 .. k PROVE BitOf(v[k + 1], b) = f[b]
    <3>1. CASE b = k
      <4> DEFINE a == TwoTo[k]
      <4>1. v[k] \in Int /\ v[k] = a * 0 + v[k]
        BY <2>2
      <4>2. v[k] \div a = 0
        <5> HIDE DEF a
        <5> QED BY <4>1, <2>2, DivModUnique DEF a
      <4>3. (v[k] + a * f[k]) \div a = 0 + f[k]
        <5>1. v[k] \in Int /\ f[k] \in Int /\ a \in Nat /\ a > 0
          BY <2>1, <2>2
        <5> HIDE DEF a
        <5> QED BY <4>2, <5>1, AddMultiple
      <4> HIDE DEF a
      <4>4. (0 + f[k]) % 2 = f[k]
        BY <2>1
      <4> QED BY <3>1, <2>2, <4>3, <4>4 DEF BitOf, a
    <3>2. CASE b < k
      <4>1. b \in Nat /\ b \in 0 .. k - 1 /\ f[k] \in Int /\ v[k] \in Int
        BY <3>2, <2>1, <2>2
      <4>2. BitOf(v[k], b) = f[b]
        BY <1>3, <4>1
      <4>3. BitOf(v[k] + TwoTo[k] * f[k], b) = BitOf(v[k], b)
        BY <2>1, <3>2, <4>1, BitAddMultiple
      <4> QED BY <2>2, <4>2, <4>3
    <3> QED BY <3>1, <3>2
  <2>5. (k + 1) - 1 = k
    OBVIOUS
  <2> QED BY <2>1, <2>3, <2>4, <2>5
<1> HIDE DEF T
<1>4. w \in T
  <2>1. \A k \in 0 .. w : k \in T
    BY <1>2, <1>3, RangeInduction
  <2> QED BY <2>1
<1> QED BY <1>1, <1>4 DEF T

\* Two numbers with the same low bits have the same remainder, and the other
\* way round.
LEMMA SameBits ==
  ASSUME NEW m \in Int, NEW n \in Int, NEW w \in Nat
  PROVE  /\ (\A b \in 0 .. w - 1 : BitOf(m, b) = BitOf(n, b))
              => m % TwoTo[w] = n % TwoTo[w]
         /\ m % TwoTo[w] = n % TwoTo[w]
              => \A b \in 0 .. w - 1 : BitOf(m, b) = BitOf(n, b)
<1> DEFINE f == [b \in 0 .. w - 1 |-> BitOf(m, b)]
<1>1. OfBits(f, w) = m % TwoTo[w]
  <2>1. \A b \in 0 .. w - 1 : f[b] = BitOf(m, b)
    OBVIOUS
  <2> HIDE DEF f
  <2> QED BY <2>1, OfBitsOf
<1>2. ASSUME \A b \in 0 .. w - 1 : BitOf(m, b) = BitOf(n, b)
      PROVE  m % TwoTo[w] = n % TwoTo[w]
  <2>1. \A b \in 0 .. w - 1 : f[b] = BitOf(n, b)
    BY <1>2
  <2> HIDE DEF f
  <2> QED BY <1>1, <2>1, OfBitsOf
<1>3. ASSUME m % TwoTo[w] = n % TwoTo[w], NEW b \in 0 .. w - 1
      PROVE  BitOf(m, b) = BitOf(n, b)
  <2> DEFINE a == TwoTo[w]
             p == m \div a
             q == n \div a
             r == m % a
  <2>1. /\ a \in Nat /\ a > 0 /\ p \in Int /\ q \in Int /\ r \in Int
        /\ m = r + a * p /\ n = r + a * q
    <3>1. a \in Nat /\ a > 0
      BY TwoToPos
    <3>2. p \in Int /\ r \in 0 .. a - 1 /\ m = a * p + r
      <4> HIDE DEF a
      <4> QED BY <3>1, DivMod
    <3>3. q \in Int /\ n % a \in 0 .. a - 1 /\ n = a * q + (n % a)
      <4> HIDE DEF a
      <4> QED BY <3>1, DivMod
    <3>4. n % a = r
      BY <1>3
    <3> HIDE DEF a, p, q, r
    <3> QED BY <3>1, <3>2, <3>3, <3>4
  <2> HIDE DEF p, q, r
  <2>2. b \in Nat /\ b < w
    OBVIOUS
  <2>3. BitOf(r + a * p, b) = BitOf(r, b) /\ BitOf(r + a * q, b) = BitOf(r, b)
    BY <2>1, <2>2, BitAddMultiple
  <2> QED BY <2>1, <2>3
<1> QED BY <1>2, <1>3

\* A remainder keeps the low bits.
LEMMA BitOfMod ==
  ASSUME NEW n \in Int, NEW w \in Nat, NEW b \in 0 .. w - 1
  PROVE  BitOf(n % TwoTo[w], b) = BitOf(n, b)
<1> DEFINE a == TwoTo[w]
           r == n % a
<1>1. a \in Nat /\ a > 0
  BY TwoToPos
<1>2. r \in Int /\ r % a = r
  <2> HIDE DEF a
  <2>1. r \in 0 .. a - 1
    BY <1>1, DivMod
  <2> HIDE DEF r
  <2>2. r = a * 0 + r
    BY <1>1, <2>1
  <2> QED BY <1>1, <2>1, <2>2, DivModUnique
<1> HIDE DEF r
<1>3. r % TwoTo[w] = n % TwoTo[w]
  BY <1>2 DEF r
<1>4. BitOf(r, b) = BitOf(n, b)
  BY <1>2, <1>3, SameBits
<1> QED BY <1>4 DEF r

\* A shift to the right.
LEMMA BitOfQuotient ==
  ASSUME NEW n \in Int, NEW s \in Nat, NEW b \in Nat
  PROVE  BitOf(n \div TwoTo[s], b) = BitOf(n, b + s)
<1> DEFINE a == TwoTo[s]   e == TwoTo[b]
<1>1. a \in Nat /\ a > 0 /\ e \in Nat /\ e > 0
  BY TwoToPos
<1>2. TwoTo[b + s] = a * e
  <2>1. TwoTo[b + s] = e * a
    BY TwoToSum
  <2> HIDE DEF a, e
  <2> QED BY <1>1, <2>1
<1>3. n \div (a * e) = (n \div a) \div e
  <2> HIDE DEF a, e
  <2> QED BY <1>1, DivDiv
<1> QED BY <1>2, <1>3 DEF BitOf

\* A shift to the left.
LEMMA BitOfProduct ==
  ASSUME NEW n \in Int, NEW s \in Nat, NEW b \in Nat
  PROVE  BitOf(n * TwoTo[s], b) = IF b < s THEN 0 ELSE BitOf(n, b - s)
<1> DEFINE a == TwoTo[s]
<1>1. a \in Nat /\ a > 0
  BY TwoToPos
<1>2. n * a = 0 + a * n
  <2> HIDE DEF a
  <2> QED BY <1>1
<1>3. CASE b < s
  <2>1. BitOf(0 + TwoTo[s] * n, b) = BitOf(0, b)
    BY <1>3, BitAddMultiple
  <2>2. BitOf(0, b) = 0
    <3> DEFINE e == TwoTo[b]
    <3>1. e \in Nat /\ e > 0
      BY TwoToPos
    <3> HIDE DEF e
    <3>2. 0 \div e = 0
      BY <3>1
    <3> QED BY <3>2 DEF BitOf, e
  <2> QED BY <1>2, <1>3, <2>1, <2>2
<1>4. CASE b >= s
  <2> DEFINE e == TwoTo[b - s]
  <2>1. b - s \in Nat /\ s + (b - s) = b
    BY <1>4
  <2>2. e \in Nat /\ e > 0 /\ TwoTo[b] = a * e
    BY <2>1, TwoToPos, TwoToSum
  <2> HIDE DEF a, e
  <2>3. (n * a) \div (a * e) = ((n * a) \div a) \div e
    <3>1. n * a \in Int
      BY <1>1
    <3> QED BY <1>1, <2>2, <3>1, DivDiv
  <2>4. (n * a) \div a = n
    <3>1. n * a \in Int /\ n * a = a * n + 0 /\ 0 \in 0 .. a - 1
      BY <1>1
    <3> QED BY <1>1, <3>1, DivModUnique
  <2>5. BitOf(n * a, b) = BitOf(n, b - s)
    BY <2>2, <2>3, <2>4 DEF BitOf, e
  <2> QED BY <1>4, <2>5 DEF a
<1> QED BY <1>3, <1>4

\* Higher powers are higher.
LEMMA TwoToGrows ==
  ASSUME NEW m \in Nat, NEW n \in Nat, m <= n
  PROVE  TwoTo[m] <= TwoTo[n]
<1> DEFINE a == TwoTo[m]   e == TwoTo[n - m]
<1>1. n - m \in Nat /\ m + (n - m) = n
  OBVIOUS
<1>2. a \in Nat /\ e \in Nat /\ e > 0 /\ TwoTo[n] = a * e
  <2>1. TwoTo[m + (n - m)] = a * e
    BY <1>1, TwoToSum
  <2> QED BY <1>1, <2>1, TwoToPos
<1> HIDE DEF a, e
<1>3. a * e >= a
  BY <1>2
<1> QED BY <1>2, <1>3 DEF a

\* The bits above the top: those of its sign.
LEMMA BitAbove ==
  ASSUME NEW w \in Nat, NEW b \in Nat, b >= w,
         NEW n \in -TwoTo[w] .. TwoTo[w] - 1
  PROVE  BitOf(n, b) = IF n < 0 THEN 1 ELSE 0
<1> DEFINE a == TwoTo[b]
<1>1. a \in Nat /\ a > 0 /\ TwoTo[w] <= a /\ TwoTo[w] \in Nat
  BY TwoToPos, TwoToGrows
<1>2. n \in Int /\ -a <= n /\ n < a
  BY <1>1
<1> HIDE DEF a
<1>3. CASE n < 0
  <2>1. n = a * (-1) + (n + a) /\ n + a \in 0 .. a - 1 /\ -1 \in Int
    BY <1>1, <1>2, <1>3
  <2>2. n \div a = -1
    BY <1>1, <1>2, <2>1, DivModUnique
  <2> QED BY <1>3, <2>2 DEF BitOf, a
<1>4. CASE n >= 0
  <2>1. n = a * 0 + n /\ n \in 0 .. a - 1
    BY <1>1, <1>2, <1>4
  <2>2. n \div a = 0
    BY <1>1, <1>2, <2>1, DivModUnique
  <2> QED BY <1>2, <1>4, <2>2 DEF BitOf, a
<1> QED BY <1>2, <1>3, <1>4

\* The sign bit is set in the upper half of the numbers.
LEMMA SignBit ==
  ASSUME NEW n \in Int, NEW w \in Nat, w >= 1
  PROVE  /\ BitOf(n, w - 1) = 1 <=> 2 * (n % TwoTo[w]) >= TwoTo[w]
         /\ n % TwoTo[w] \in 0 .. TwoTo[w] - 1
<1> DEFINE a == TwoTo[w - 1]   r == n % a   c == BitOf(n, w - 1)
<1>1. w - 1 \in Nat /\ (w - 1) + 1 = w
  OBVIOUS
<1>2. a \in Nat /\ a > 0 /\ TwoTo[w] = 2 * a
  BY <1>1, TwoToPos, TwoToEquations
<1>3. n % TwoTo[w] = r + a * c
  BY <1>1, NextBit
<1>4. r \in 0 .. a - 1
  <2> HIDE DEF a
  <2> QED BY <1>2, DivMod
<1>5. c \in {0, 1}
  BY <1>1, BitOfType
<1> HIDE DEF a, r, c
<1>6. r + a * c \in 0 .. 2 * a - 1 /\ (c = 1 <=> 2 * (r + a * c) >= 2 * a)
  BY <1>2, <1>4, <1>5
<1> QED BY <1>2, <1>3, <1>6 DEF c

-----------------------------------------------------------------------------
(***************************************************************************)
(* Casts.                                                                  *)
(***************************************************************************)
\* A remainder is its own remainder.
LEMMA ModMod ==
  ASSUME NEW n \in Int, NEW m \in Nat, m > 0
  PROVE  n % m \in 0 .. m - 1 /\ (n % m) % m = n % m
<1> DEFINE r == n % m
<1>1. r \in 0 .. m - 1
  BY DivMod
<1> HIDE DEF r
<1>2. r = m * 0 + r
  BY <1>1
<1>3. r % m = r
  BY <1>1, <1>2, DivModUnique
<1> QED BY <1>1, <1>3 DEF r

\* A number in range is its own remainder.
LEMMA ModSmall ==
  ASSUME NEW m \in Nat, m > 0, NEW n \in 0 .. m - 1
  PROVE  n % m = n
<1>1. n = m * 0 + n
  OBVIOUS
<1> QED BY <1>1, DivModUnique

\* What has the same remainder differs by a multiple.
LEMMA Congruent ==
  ASSUME NEW a \in Int, NEW c \in Int, NEW m \in Nat, m > 0
  PROVE  a % m = c % m <=> \E k \in Int : a = c + m * k
<1> DEFINE p == a \div m   q == c \div m   r == a % m   s == c % m
<1>1. /\ p \in Int /\ r \in 0 .. m - 1 /\ a = m * p + r
      /\ q \in Int /\ s \in 0 .. m - 1 /\ c = m * q + s
  BY DivMod
<1>2. ASSUME r = s PROVE \E k \in Int : a = c + m * k
  <2> HIDE DEF p, q, r, s
  <2>1. p - q \in Int /\ m * (p - q) = m * p - m * q
    BY <1>1
  <2> DEFINE d == p - q
  <2>2. d \in Int /\ a = c + m * d
    BY <1>1, <1>2, <2>1
  <2> HIDE DEF d
  <2> QED BY <2>2
<1>3. ASSUME NEW k \in Int, a = c + m * k PROVE r = s
  <2>1. (c + m * k) % m = c % m
    BY AddMultiple
  <2> QED BY <1>3, <2>1
<1> QED BY <1>2, <1>3

\* a and c are the same but for multiples of m.
Same(a, c, m) == a % m = c % m

\* Sums, differences and products may be taken of remainders.
LEMMA ModCong ==
  ASSUME NEW a \in Int, NEW b \in Int, NEW c \in Int, NEW d \in Int,
         NEW m \in Nat, m > 0, Same(a, c, m), Same(b, d, m)
  PROVE  /\ Same(a + b, c + d, m)
         /\ Same(a - b, c - d, m)
         /\ Same(a * b, c * d, m)
<1>1. PICK i \in Int : a = c + m * i
  BY Congruent DEF Same
<1>2. PICK j \in Int : b = d + m * j
  BY Congruent DEF Same
<1>3. ASSUME NEW e \in Int, NEW f \in Int, NEW k \in Int, e = f + m * k
      PROVE  Same(e, f, m)
  BY <1>3, Congruent DEF Same
<1>4. Same(a + b, c + d, m)
  <2> DEFINE e == a + b   f == c + d   k == i + j
  <2>1. e \in Int /\ f \in Int /\ k \in Int /\ e = f + m * k
    BY <1>1, <1>2
  <2> HIDE DEF e, f, k
  <2>2. Same(e, f, m)
    BY <1>3, <2>1
  <2> QED BY <2>2 DEF e, f
<1>5. Same(a - b, c - d, m)
  <2> DEFINE e == a - b   f == c - d   k == i - j
  <2>1. e \in Int /\ f \in Int /\ k \in Int /\ e = f + m * k
    BY <1>1, <1>2
  <2> HIDE DEF e, f, k
  <2>2. Same(e, f, m)
    BY <1>3, <2>1
  <2> QED BY <2>2 DEF e, f
<1>6. Same(a * b, c * d, m)
  <2> DEFINE e == a * b   f == c * d   k == c * j + i * d + i * (m * j)
  <2>1. e \in Int /\ f \in Int /\ k \in Int /\ e = f + m * k
    BY <1>1, <1>2
  <2> HIDE DEF e, f, k
  <2>2. Same(e, f, m)
    BY <1>3, <2>1
  <2> QED BY <2>2 DEF e, f
<1> QED BY <1>4, <1>5, <1>6

\* A remainder of a multiple of m tells the remainder of m.
LEMMA ModOfMultiple ==
  ASSUME NEW n \in Int, NEW m \in Nat, m > 0,
         NEW p \in Nat, p > 0, p % m = 0
  PROVE  (n % p) % m = n % m
<1> DEFINE k == p \div m
<1>1. k \in Int /\ p = m * k
  <2>1. k \in Int /\ p = m * k + (p % m)
    BY DivMod
  <2> HIDE DEF k
  <2> QED BY <2>1
<1> HIDE DEF k
<1>2. k \in Nat /\ k > 0
  <2>1. ASSUME k <= 0 PROVE FALSE
    <3>1. m * k <= 0
      BY <2>1, <1>1
    <3> QED BY <3>1, <1>1
  <2> QED BY <2>1, <1>1
<1> DEFINE q == n \div m   c == q % k   r == n % m
<1>3. n % (m * k) = r + m * c
  BY <1>2, DivDiv
<1>4. r \in Int /\ c \in Int
  <2>1. q \in Int /\ r \in Int
    BY DivMod
  <2> HIDE DEF q
  <2> QED BY <1>2, <2>1, DivMod
<1> HIDE DEF c, r
<1>5. (r + m * c) % m = r % m
  BY <1>4, AddMultiple
<1>6. r % m = r
  BY ModMod DEF r
<1> QED BY <1>1, <1>3, <1>5, <1>6 DEF r

\* A cast to a signed type.
LEMMA SignedCast ==
  ASSUME NEW n \in Int, NEW m \in Nat, m > 0
  PROVE  /\ Signed(n, m) \in Int
         /\ Signed(n, m) % m = n % m
         /\ Signed(n, m) \in -m .. m - 1
         /\ Signed(n, m) = IF 2 * (n % m) >= m THEN (n % m) - m ELSE n % m
         /\ Signed(n, m) < 0 <=> 2 * (n % m) >= m
         /\ -m <= 2 * Signed(n, m) /\ 2 * Signed(n, m) < m
<1> DEFINE r == n % m
<1>1. r \in 0 .. m - 1 /\ r % m = r
  BY ModMod
<1>2. Signed(n, m) = IF 2 * r >= m THEN r - m ELSE r
  BY DEF Signed
<1> HIDE DEF r
<1>3. Signed(n, m) % m = r
  <2>1. (r + m * (-1)) % m = r % m
    <3>1. -1 \in Int /\ r \in Int
      BY <1>1
    <3> QED BY <3>1, AddMultiple
  <2>2. r - m = r + m * (-1)
    BY <1>1
  <2> QED BY <1>1, <1>2, <2>1, <2>2
<1> QED BY <1>1, <1>2, <1>3 DEF r

\* Signed by its sign bit, and by comparison.
LEMMA SignedOfIsSigned ==
  ASSUME NEW n \in Int, NEW w \in Nat, w >= 1
  PROVE  SignedOf(n, w) = Signed(n, TwoTo[w])
BY SignBit DEF SignedOf, Signed

\* The bits of a number cast to a signed type.
LEMMA BitOfSigned ==
  ASSUME NEW n \in Int, NEW w \in Nat, w >= 1, NEW b \in Nat
  PROVE  BitOf(Signed(n, TwoTo[w]), b) = BitOf(n, IF b < w THEN b ELSE w - 1)
<1> DEFINE a == TwoTo[w]
           s == Signed(n, a)
<1>1. a \in Nat /\ a > 0
  BY TwoToPos
<1>2. /\ s \in Int /\ s \in -a .. a - 1 /\ s % a = n % a
      /\ s < 0 <=> 2 * (n % a) >= a
  <2> HIDE DEF a
  <2> QED BY <1>1, SignedCast
<1> HIDE DEF s
<1>3. CASE b < w
  <2>1. b \in 0 .. w - 1
    BY <1>3
  <2> QED BY <1>2, <1>3, <2>1, SameBits DEF s
<1>4. CASE b >= w
  <2>1. BitOf(s, b) = IF s < 0 THEN 1 ELSE 0
    BY <1>2, <1>4, BitAbove
  <2>2. BitOf(n, w - 1) = 1 <=> s < 0
    BY <1>2, SignBit
  <2>3. BitOf(n, w - 1) \in {0, 1}
    <3>1. w - 1 \in Nat
      OBVIOUS
    <3> QED BY <3>1, BitOfType
  <2> QED BY <1>4, <2>1, <2>2, <2>3 DEF s
<1> QED BY <1>3, <1>4

\* Sign extension bit by bit is the cast to the signed type.
LEMMA WidenIsSigned ==
  ASSUME NEW n \in Int, NEW v \in Nat, NEW w \in Nat, v >= 1
  PROVE  Widen(n, v, w) = Signed(n, TwoTo[v]) % TwoTo[w]
<1> DEFINE f == [b \in 0 .. w - 1 |-> BitOf(n, IF b < v THEN b ELSE v - 1)]
           s == Signed(n, TwoTo[v])
<1>1. s \in Int
  BY TwoToPos, SignedCast
<1>2. \A b \in 0 .. w - 1 : f[b] = BitOf(s, b)
  BY BitOfSigned
<1>3. Widen(n, v, w) = OfBits(f, w)
  BY DEF Widen
<1> HIDE DEF f, s
<1>4. OfBits(f, w) = s % TwoTo[w]
  BY <1>1, <1>2, OfBitsOf
<1> QED BY <1>3, <1>4 DEF s

\* Shifts bit by bit are the shifts of C.
LEMMA ShiftLeftIs ==
  ASSUME NEW n \in Int, NEW s \in Nat, NEW w \in Nat
  PROVE  ShiftLeft(n, s, w) = Shl(n, s) % TwoTo[w]
<1> DEFINE f == [b \in 0 .. w - 1 |-> IF b < s THEN 0 ELSE BitOf(n, b - s)]
           p == n * TwoTo[s]
<1>1. p \in Int
  BY TwoToPos
<1>2. \A b \in 0 .. w - 1 : f[b] = BitOf(p, b)
  BY BitOfProduct
<1>3. ShiftLeft(n, s, w) = OfBits(f, w)
  BY DEF ShiftLeft
<1> HIDE DEF f, p
<1>4. OfBits(f, w) = p % TwoTo[w]
  BY <1>1, <1>2, OfBitsOf
<1> QED BY <1>3, <1>4 DEF p, Shl

\* A logical shift to the right brings in zeros.
LEMMA ShiftRightIs ==
  ASSUME NEW w \in Nat, NEW n \in 0 .. TwoTo[w] - 1, NEW s \in Nat
  PROVE  ShiftRight(n, s, w, 0) = Shr(n, s) % TwoTo[w]
<1> DEFINE f == [b \in 0 .. w - 1 |-> IF b + s < w THEN BitOf(n, b + s) ELSE 0]
           q == n \div TwoTo[s]
<1>1. q \in Int /\ n \in Int /\ n >= 0 /\ n \in -TwoTo[w] .. TwoTo[w] - 1
  BY TwoToPos, DivMod
<1>2. ASSUME NEW b \in 0 .. w - 1 PROVE f[b] = BitOf(q, b)
  <2>1. b \in Nat /\ b + s \in Nat
    OBVIOUS
  <2>2. BitOf(q, b) = BitOf(n, b + s)
    BY <1>1, <2>1, BitOfQuotient
  <2>3. b + s >= w => BitOf(n, b + s) = 0
    BY <1>1, <2>1, BitAbove
  <2> QED BY <2>1, <2>2, <2>3
<1>3. ShiftRight(n, s, w, 0) = OfBits(f, w)
  BY DEF ShiftRight
<1> HIDE DEF f, q
<1>4. OfBits(f, w) = q % TwoTo[w]
  BY <1>1, <1>2, OfBitsOf
<1> QED BY <1>3, <1>4 DEF q, Shr

\* An arithmetic one is a shift of the signed number.
LEMMA ShiftRightSignedIs ==
  ASSUME NEW w \in Nat, w >= 1, NEW n \in Int, NEW s \in Nat
  PROVE  ShiftRight(n, s, w, BitOf(n, w - 1))
           = Shr(Signed(n, TwoTo[w]), s) % TwoTo[w]
<1> DEFINE f == [b \in 0 .. w - 1 |-> IF b + s < w THEN BitOf(n, b + s)
                                       ELSE BitOf(n, w - 1)]
           a == Signed(n, TwoTo[w])
           q == a \div TwoTo[s]
<1>1. a \in Int
  BY TwoToPos, SignedCast
<1>2. q \in Int
  <2> HIDE DEF a
  <2> QED BY <1>1, TwoToPos, DivMod
<1>3. ASSUME NEW b \in 0 .. w - 1 PROVE f[b] = BitOf(q, b)
  <2>1. b \in Nat /\ b + s \in Nat
    OBVIOUS
  <2>2. BitOf(q, b) = BitOf(a, b + s)
    <3> HIDE DEF a
    <3> QED BY <1>1, <2>1, BitOfQuotient
  <2>3. BitOf(a, b + s) = BitOf(n, IF b + s < w THEN b + s ELSE w - 1)
    BY <2>1, BitOfSigned
  <2> QED BY <2>1, <2>2, <2>3
<1>4. ShiftRight(n, s, w, BitOf(n, w - 1)) = OfBits(f, w)
  BY DEF ShiftRight
<1> HIDE DEF f, q
<1>5. OfBits(f, w) = q % TwoTo[w]
  BY <1>2, <1>3, OfBitsOf
<1> QED BY <1>4, <1>5 DEF q, Shr

\* What the logic operations make, and its bits.
LEMMA LogicBits ==
  ASSUME NEW m \in Int, NEW n \in Int, NEW w \in Nat
  PROVE  /\ Both(m, n, w) \in 0 .. TwoTo[w] - 1
         /\ Either(m, n, w) \in 0 .. TwoTo[w] - 1
         /\ Differ(m, n, w) \in 0 .. TwoTo[w] - 1
         /\ \A b \in 0 .. w - 1 :
              /\ BitOf(Both(m, n, w), b) = BitOf(m, b) * BitOf(n, b)
              /\ BitOf(Either(m, n, w), b)
                   = IF BitOf(m, b) = BitOf(n, b) THEN BitOf(m, b) ELSE 1
              /\ BitOf(Differ(m, n, w), b)
                   = IF BitOf(m, b) = BitOf(n, b) THEN 0 ELSE 1
<1>1. \A b \in 0 .. w - 1 : BitOf(m, b) \in {0, 1} /\ BitOf(n, b) \in {0, 1}
  BY BitOfType
<1>2. /\ Both(m, n, w) \in 0 .. TwoTo[w] - 1
      /\ \A b \in 0 .. w - 1 : BitOf(Both(m, n, w), b) = BitOf(m, b) * BitOf(n, b)
  <2> DEFINE f == [b \in 0 .. w - 1 |-> BitOf(m, b) * BitOf(n, b)]
  <2>1. \A b \in 0 .. w - 1 :
          f[b] = BitOf(m, b) * BitOf(n, b) /\ f[b] \in {0, 1}
    BY <1>1
  <2>2. Both(m, n, w) = OfBits(f, w)
    BY DEF Both
  <2> HIDE DEF f
  <2> QED BY <2>1, <2>2, OfBitsBits
<1>3. /\ Either(m, n, w) \in 0 .. TwoTo[w] - 1
      /\ \A b \in 0 .. w - 1 :
           BitOf(Either(m, n, w), b)
             = IF BitOf(m, b) = BitOf(n, b) THEN BitOf(m, b) ELSE 1
  <2> DEFINE f == [b \in 0 .. w - 1 |-> IF BitOf(m, b) = BitOf(n, b)
                                         THEN BitOf(m, b) ELSE 1]
  <2>1. \A b \in 0 .. w - 1 :
          /\ f[b] = IF BitOf(m, b) = BitOf(n, b) THEN BitOf(m, b) ELSE 1
          /\ f[b] \in {0, 1}
    BY <1>1
  <2>2. Either(m, n, w) = OfBits(f, w)
    BY DEF Either
  <2> HIDE DEF f
  <2> QED BY <2>1, <2>2, OfBitsBits
<1>4. /\ Differ(m, n, w) \in 0 .. TwoTo[w] - 1
      /\ \A b \in 0 .. w - 1 :
           BitOf(Differ(m, n, w), b)
             = IF BitOf(m, b) = BitOf(n, b) THEN 0 ELSE 1
  <2> DEFINE f == [b \in 0 .. w - 1 |-> IF BitOf(m, b) = BitOf(n, b)
                                         THEN 0 ELSE 1]
  <2>1. \A b \in 0 .. w - 1 :
          /\ f[b] = IF BitOf(m, b) = BitOf(n, b) THEN 0 ELSE 1
          /\ f[b] \in {0, 1}
    OBVIOUS
  <2>2. Differ(m, n, w) = OfBits(f, w)
    BY DEF Differ
  <2> HIDE DEF f
  <2> QED BY <2>1, <2>2, OfBitsBits
<1> QED BY <1>2, <1>3, <1>4

\* What the sizes of Alu give.
LEMMA BaseFacts ==
  /\ Half \in Nat /\ Half >= 16
  /\ Base \in Nat /\ Base > 0 /\ Base >= 3 * Half /\ Base = Half * Half
  /\ Base >= 256
<1>1. Half \in Nat /\ Half >= 16
  BY WidthAssumption
<1>2. Half * Half >= 3 * Half /\ Half * Half >= 16 * Half
  BY <1>1
<1> QED BY <1>1, <1>2 DEF Base

\* The sizes of Alu as powers of two.
LEMMA WidthFacts ==
  /\ IntBits \in Nat /\ IntBits >= 4 /\ LongBits \in Nat /\ LongBits >= 1
  /\ LongBits = IntBits + IntBits
  /\ Half = TwoTo[IntBits] /\ Base = TwoTo[LongBits]
  /\ ByteBits \in Nat /\ ByteBits >= 1 /\ IntBits = 4 * ByteBits
  /\ Byte = TwoTo[ByteBits] /\ Byte \in Nat /\ Byte > 0
<1>1. IntBits \in Nat /\ IntBits > 0 /\ IntBits % 4 = 0
  BY WidthAssumption
<1>2. IntBits >= 4 /\ ByteBits \in Nat /\ ByteBits >= 1 /\ IntBits = 4 * ByteBits
  BY <1>1 DEF ByteBits
<1>3. LongBits \in Nat /\ LongBits = IntBits + IntBits /\ LongBits >= 1
  BY <1>2 DEF LongBits
<1>4. Half = TwoTo[IntBits]
  BY WidthAssumption
<1>5. Base = TwoTo[LongBits]
  <2>1. TwoTo[IntBits + IntBits] = TwoTo[IntBits] * TwoTo[IntBits]
    BY <1>1, TwoToSum
  <2> QED BY <1>3, <1>4, <2>1 DEF Base
<1>6. Byte \in Nat /\ Byte > 0
  BY <1>2, TwoToPos DEF Byte
<1> QED BY <1>1, <1>2, <1>3, <1>4, <1>5, <1>6 DEF Byte

\* Casts of the program, and the registers.
LEMMA LongFacts ==
  ASSUME NEW n \in Int
  PROVE  /\ target_ulong(n) \in Long /\ target_ulong(target_ulong(n)) = target_ulong(n)
         /\ uint32(n) \in 0 .. Half - 1
         /\ target_long(n) \in Int /\ int32(n) \in Int
         /\ target_ulong(target_long(n)) = target_ulong(n)
         /\ SignedOf(n, LongBits) = target_long(n)
         /\ SignedOf(n, IntBits) = int32(n)
<1>1. /\ n % Base \in 0 .. Base - 1 /\ (n % Base) % Base = n % Base
      /\ n % Half \in 0 .. Half - 1
  BY BaseFacts, ModMod
<1>2. /\ Signed(n, Base) \in Int /\ Signed(n, Half) \in Int
      /\ Signed(n, Base) % Base = n % Base
  BY BaseFacts, SignedCast
<1>3. /\ SignedOf(n, LongBits) = Signed(n, Base)
      /\ SignedOf(n, IntBits) = Signed(n, Half)
  BY WidthFacts, SignedOfIsSigned
<1> QED BY <1>1, <1>2, <1>3
    DEF target_ulong, uint32, target_long, int32, Long

\* A cast that comes first does not change a sum, a difference or a product.
LEMMA Wrap ==
  ASSUME NEW a \in Int, NEW b \in Int, NEW c \in Int, NEW d \in Int,
         target_ulong(a) = target_ulong(c), target_ulong(b) = target_ulong(d)
  PROVE  /\ target_ulong(a + b) = target_ulong(c + d)
         /\ target_ulong(a - b) = target_ulong(c - d)
         /\ target_ulong(a * b) = target_ulong(c * d)
<1>1. Same(a, c, Base) /\ Same(b, d, Base)
  BY DEF target_ulong, Same
<1>2. /\ Same(a + b, c + d, Base) /\ Same(a - b, c - d, Base)
      /\ Same(a * b, c * d, Base)
  BY <1>1, BaseFacts, ModCong
<1> QED BY <1>2 DEF target_ulong, Same

\* A cast to int keeps the low bits.
LEMMA IntCast ==
  ASSUME NEW n \in Int
  PROVE  int32(n) \in Int /\ Same(int32(n), n, Half)
<1>1. Half \in Nat /\ Half > 0
  BY BaseFacts
<1>2. Signed(n, Half) \in Int /\ Signed(n, Half) % Half = n % Half
  BY <1>1, SignedCast
<1> QED BY <1>2 DEF int32, Same

\* The same for ints.
LEMMA WordWrap ==
  ASSUME NEW a \in Int, NEW b \in Int
  PROVE  /\ int32(a % Half) = int32(a)
         /\ int32((a % Half) + (b % Half)) = int32(a + b)
         /\ int32((a % Half) - (b % Half)) = int32(a - b)
         /\ int32(int32(a) * int32(b)) = int32(a * b)
<1> DEFINE r == a % Half   s == b % Half   i == int32(a)   j == int32(b)
<1>1. /\ r \in Int /\ Same(r, a, Half)
      /\ s \in Int /\ Same(s, b, Half)
  BY BaseFacts, ModMod DEF Same
<1>2. i \in Int /\ j \in Int /\ Same(i, a, Half) /\ Same(j, b, Half)
  BY IntCast
<1> HIDE DEF r, s, i, j
<1>3. Same(r + s, a + b, Half) /\ Same(r - s, a - b, Half)
  BY <1>1, BaseFacts, ModCong
<1>4. Same(i * j, a * b, Half)
  BY <1>2, BaseFacts, ModCong
<1>5. \A n, k : Same(n, k, Half) => int32(n) = int32(k)
  BY DEF Same, int32, Signed
<1> QED BY <1>1, <1>3, <1>4, <1>5 DEF r, s, i, j

-----------------------------------------------------------------------------
(***************************************************************************)
(* Words: sign extension, and the extension with zeros of some handlers.   *)
(***************************************************************************)
\* Sign extension of a word is the cast to int.
LEMMA WordWiden ==
  ASSUME NEW n \in Int
  PROVE  /\ Widen(n, IntBits, LongBits) = target_ulong(int32(n))
         /\ target_ulong(Widen(n, IntBits, LongBits)) = target_ulong(int32(n))
<1>1. Widen(n, IntBits, LongBits) = target_ulong(int32(n))
  BY WidthFacts, WidenIsSigned DEF target_ulong, int32
<1>2. int32(n) \in Int
  BY LongFacts
<1> QED BY <1>1, <1>2, LongFacts

\* A word extended with zeros is the one extended with its sign only when the
\* sign is not set.
LEMMA ZeroExtended ==
  ASSUME NEW r \in 0 .. Half - 1
  PROVE  /\ target_ulong(r) = r
         /\ target_ulong(r) = target_ulong(int32(r)) <=> ~(2 * r >= Half)
<1>1. r \in 0 .. Base - 1 /\ r \in Int /\ r \in 0 .. Half - 1
  BY BaseFacts
<1>2. r % Base = r /\ r % Half = r
  BY <1>1, BaseFacts, ModSmall
<1>3. int32(r) = IF 2 * r >= Half THEN r - Half ELSE r
  BY <1>2 DEF int32, Signed
<1>4. (r - Half) % Base = r - Half + Base
  <2> DEFINE t == r - Half + Base
  <2>1. t \in 0 .. Base - 1 /\ r - Half \in Int /\ r - Half = Base * (-1) + t
    BY <1>1, BaseFacts
  <2> HIDE DEF t
  <2>2. (r - Half) % Base = t
    <3>1. -1 \in Int
      OBVIOUS
    <3> QED BY <2>1, <3>1, BaseFacts, DivModUnique
  <2> QED BY <2>2 DEF t
<1> QED BY <1>1, <1>2, <1>3, <1>4, BaseFacts DEF target_ulong

\* The shift of a word is the same taken from the register or from its low half.
LEMMA WordShift ==
  ASSUME NEW n \in Int
  PROVE  (n % Half) % IntBits = n % IntBits /\ n % IntBits \in 0 .. IntBits - 1
<1>1. Half % IntBits = 0
  BY WidthAssumption
<1> QED BY <1>1, BaseFacts, WidthFacts, ModOfMultiple, DivMod

-----------------------------------------------------------------------------
(***************************************************************************)
(* Division.                                                               *)
(***************************************************************************)
\* Quot and Rem round towards zero.
LEMMA QuotRem ==
  ASSUME NEW a \in Int, NEW b \in Int, b # 0
  PROVE  /\ Quot(a, b) \in -Abs(a) .. Abs(a) /\ Rem(a, b) \in Int
         /\ a = Quot(a, b) * b + Rem(a, b)
         /\ Abs(Rem(a, b)) < Abs(b)
         /\ a >= 0 => Rem(a, b) >= 0
         /\ a <= 0 => Rem(a, b) <= 0
         /\ a >= 0 /\ b > 0 => Quot(a, b) >= 0
         /\ Abs(b) >= 2 => 2 * Abs(Quot(a, b)) <= Abs(a)
<1> DEFINE A == Abs(a)   B == Abs(b)   D == A \div B   M == A % B
<1>1. A \in Nat /\ B \in Nat /\ B > 0
  BY DEF Abs
<1>2. D \in Int /\ M \in 0 .. B - 1 /\ A = B * D + M
  <2> HIDE DEF A, B
  <2> QED BY <1>1, DivMod
<1>3. Quot(a, b) = IF (a < 0) = (b < 0) THEN D ELSE -D
  BY DEF Quot
<1> HIDE DEF D, M
<1>4. D >= 0
  <2> HIDE DEF A, B
  <2>1. CASE D <= -1
    <3>1. B * D <= -B
      BY <2>1, <1>1, <1>2
    <3> QED BY <3>1, <1>1, <1>2
  <2> QED BY <2>1, <1>2
<1>5. B * D >= D /\ (B >= 2 => B * D >= 2 * D)
  <2> HIDE DEF A, B
  <2> QED BY <1>1, <1>2, <1>4
<1>6. D <= A /\ (B >= 2 => 2 * D <= A)
  <2> HIDE DEF A, B
  <2> QED BY <1>1, <1>2, <1>5
<1>7. Rem(a, b) = IF a < 0 THEN -M ELSE M
  <2>1. CASE a >= 0 /\ b > 0
    BY <2>1, <1>2, <1>3 DEF Rem, Abs
  <2>2. CASE a >= 0 /\ b < 0
    <3>1. Quot(a, b) = -D /\ A = a /\ B = -b
      BY <2>2, <1>3 DEF Abs
    <3>2. a = (-b) * D + M
      BY <3>1, <1>2
    <3>3. b * (-D) = (-b) * D
      BY <1>2
    <3> QED BY <2>2, <3>1, <3>2, <3>3, <1>2 DEF Rem
  <2>3. CASE a < 0 /\ b > 0
    <3>1. Quot(a, b) = -D /\ A = -a /\ B = b
      BY <2>3, <1>3 DEF Abs
    <3>2. -a = b * D + M
      BY <3>1, <1>2
    <3>3. b * (-D) = -(b * D)
      BY <1>2
    <3> QED BY <2>3, <3>1, <3>2, <3>3, <1>2 DEF Rem
  <2>4. CASE a < 0 /\ b < 0
    <3>1. Quot(a, b) = D /\ A = -a /\ B = -b
      BY <2>4, <1>3 DEF Abs
    <3>2. -a = (-b) * D + M
      BY <3>1, <1>2
    <3>3. (-b) * D = -(b * D)
      BY <1>2
    <3> QED BY <2>4, <3>1, <3>2, <3>3, <1>2 DEF Rem
  <2> QED BY <2>1, <2>2, <2>3, <2>4
<1>8. /\ Quot(a, b) \in Int /\ Rem(a, b) \in Int
      /\ a = Quot(a, b) * b + Rem(a, b)
  <2> DEFINE q == Quot(a, b)
  <2>1. q \in Int
    BY <1>2, <1>3
  <2>2. Rem(a, b) = a - b * q
    BY DEF Rem
  <2> HIDE DEF q
  <2> QED BY <2>1, <2>2 DEF q
<1>9. Quot(a, b) \in -A .. A /\ (B >= 2 => 2 * Abs(Quot(a, b)) <= A)
  BY <1>1, <1>2, <1>3, <1>4, <1>6 DEF Abs
<1>10. Abs(Rem(a, b)) < B
  BY <1>1, <1>2, <1>7 DEF Abs
<1> QED BY <1>2, <1>3, <1>4, <1>7, <1>8, <1>9, <1>10

\* The manual's pair is unique.
LEMMA DividedIs ==
  ASSUME NEW a \in Int, NEW b \in Int, b # 0
  PROVE  Divided(a, b) = <<Quot(a, b), Rem(a, b)>>
<1> DEFINE
      S == (-Magnitude(a) .. Magnitude(a)) \X
             {r \in -Magnitude(b) .. Magnitude(b) : r * a >= 0}
      Is(p) == a = p[1] * b + p[2] /\ Magnitude(p[2]) < Magnitude(b)
      z == <<Quot(a, b), Rem(a, b)>>
<1>1. z \in S /\ Is(z)
  <2> DEFINE q == Quot(a, b)   r == Rem(a, b)
  <2>1. /\ q \in -Abs(a) .. Abs(a) /\ r \in Int /\ a = q * b + r
        /\ Abs(r) < Abs(b) /\ (a >= 0 => r >= 0) /\ (a <= 0 => r <= 0)
    BY QuotRem
  <2> HIDE DEF q, r
  <2>2. r * a >= 0
    <3>1. CASE a >= 0
      BY <2>1, <3>1
    <3>2. CASE a <= 0
      <4>1. r * a = (-r) * (-a)
        BY <2>1
      <4>2. -r >= 0 /\ -a >= 0 /\ -r \in Int /\ -a \in Int
        BY <2>1, <3>2
      <4> QED BY <4>1, <4>2
    <3> QED BY <3>1, <3>2
  <2>3. q \in -Magnitude(a) .. Magnitude(a) /\ r \in -Magnitude(b) .. Magnitude(b)
    BY <2>1 DEF Abs, Magnitude
  <2>4. Magnitude(r) < Magnitude(b)
    BY <2>1 DEF Abs, Magnitude
  <2>5. <<q, r>> \in S /\ Is(<<q, r>>)
    BY <2>1, <2>2, <2>3, <2>4
  <2> QED BY <2>5 DEF q, r
<1>2. ASSUME NEW p \in S, NEW t \in S, Is(p), Is(t) PROVE p = t
  <2> DEFINE d == p[1] - t[1]
  <2>1. /\ p[1] \in Int /\ p[2] \in Int /\ t[1] \in Int /\ t[2] \in Int
        /\ p[1] \in -Magnitude(a) .. Magnitude(a)
        /\ t[1] \in -Magnitude(a) .. Magnitude(a)
        /\ p[2] * a >= 0 /\ t[2] * a >= 0
        /\ p = <<p[1], p[2]>> /\ t = <<t[1], t[2]>>
    <3>1. Magnitude(a) \in Int /\ Magnitude(b) \in Int
      BY DEF Magnitude
    <3> QED BY <3>1
  <2>2. /\ a = p[1] * b + p[2] /\ Magnitude(p[2]) < Magnitude(b)
        /\ a = t[1] * b + t[2] /\ Magnitude(t[2]) < Magnitude(b)
    BY <1>2
  <2> HIDE DEF S, Is
  <2>3. CASE a = 0
    <3>1. p[1] = 0 /\ t[1] = 0
      BY <2>1, <2>3 DEF Magnitude
    <3>2. p[2] = 0 /\ t[2] = 0
      <4>1. 0 * b = 0
        OBVIOUS
      <4> QED BY <2>1, <2>2, <2>3, <3>1, <4>1
    <3> QED BY <2>1, <3>1, <3>2
  <2>4. CASE a # 0
    <3> DEFINE B == Magnitude(b)
    <3>1. B \in Nat /\ B > 0 /\ (B = b \/ B = -b)
      BY DEF Magnitude
    <3>2. \/ p[2] >= 0 /\ t[2] >= 0
          \/ p[2] <= 0 /\ t[2] <= 0
      <4>1. ASSUME NEW r \in Int, r * a >= 0
            PROVE  (a > 0 => r >= 0) /\ (a < 0 => r <= 0)
        <5>1. ASSUME a > 0, r < 0 PROVE FALSE
          <6>1. r * a <= -a
            BY <5>1
          <6> QED BY <4>1, <5>1, <6>1
        <5>2. ASSUME a < 0, r > 0 PROVE FALSE
          <6>1. r * a <= a
            BY <5>2
          <6> QED BY <4>1, <5>2, <6>1
        <5> QED BY <5>1, <5>2
      <4> QED BY <2>1, <2>4, <4>1
    <3>3. -B < t[2] - p[2] /\ t[2] - p[2] < B
      BY <2>1, <2>2, <3>1, <3>2 DEF Magnitude
    <3>4. b * d = t[2] - p[2] /\ d \in Int
      <4>1. b * d = p[1] * b - t[1] * b
        BY <2>1
      <4> QED BY <2>1, <2>2, <4>1
    <3> HIDE DEF B
    <3>5. d = 0
      <4> HIDE DEF d
      <4>1. CASE B = b
        BY <2>1, <3>1, <3>3, <3>4, <4>1, SmallMultiple
      <4>2. CASE B = -b
        <5> DEFINE e == -d
        <5>1. e \in Int /\ B * e = b * d
          BY <3>1, <3>4, <4>2
        <5> HIDE DEF e
        <5>2. e = 0
          BY <2>1, <3>1, <3>3, <3>4, <5>1, SmallMultiple
        <5> QED BY <5>2, <3>4 DEF e
      <4> QED BY <3>1, <4>1, <4>2
    <3>6. p[1] = t[1]
      BY <2>1, <3>5
    <3>7. p[2] = t[2]
      BY <2>1, <2>2, <3>6
    <3> QED BY <2>1, <3>6, <3>7
  <2> QED BY <2>3, <2>4
<1>3. Divided(a, b) = CHOOSE p \in S : Is(p)
  BY DEF Divided
<1> HIDE DEF S, Is, z
<1>4. (CHOOSE p \in S : Is(p)) = z
  BY <1>1, <1>2
<1> QED BY <1>3, <1>4 DEF z

-----------------------------------------------------------------------------
(***************************************************************************)
(* What the manual's operations are in the operators of C, for any width.  *)
(***************************************************************************)
\* Shifts are numbers.
LEMMA ShiftTypes ==
  ASSUME NEW n \in Int, NEW s \in Nat
  PROVE  Shl(n, s) \in Int /\ Shr(n, s) \in Int
<1>1. TwoTo[s] \in Nat /\ TwoTo[s] > 0
  BY TwoToPos
<1> QED BY <1>1, DivMod DEF Shl, Shr

\* Each operation of the manual, on registers of w bits.
LEMMA ComputesIs ==
  ASSUME NEW w \in Nat, w >= 1,
         NEW u \in 0 .. TwoTo[w] - 1, NEW v \in 0 .. TwoTo[w] - 1,
         NEW s, s = v % w,
         NEW a, a = Signed(u, TwoTo[w]), NEW b, b = Signed(v, TwoTo[w])
  PROVE  /\ Computes("add", u, v, w) = u + v
         /\ Computes("sub", u, v, w) = u - v
         /\ Computes("sll", u, v, w) = Shl(u, s) % TwoTo[w]
         /\ Computes("srl", u, v, w) = Shr(u, s) % TwoTo[w]
         /\ Computes("sra", u, v, w) = Shr(a, s) % TwoTo[w]
         /\ Computes("slt", u, v, w) = One(a < b)
         /\ Computes("sltu", u, v, w) = One(u < v)
         /\ Computes("xor", u, v, w) = Differ(u, v, w)
         /\ Computes("or", u, v, w) = Either(u, v, w)
         /\ Computes("and", u, v, w) = Both(u, v, w)
         /\ Computes("mul", u, v, w) = a * b
         /\ Computes("mulh", u, v, w) = (a * b) \div TwoTo[w]
         /\ Computes("mulhsu", u, v, w) = (a * v) \div TwoTo[w]
         /\ Computes("mulhu", u, v, w) = (u * v) \div TwoTo[w]
         /\ b # 0 => /\ Computes("div", u, v, w) = Quot(a, b)
                     /\ Computes("rem", u, v, w) = Rem(a, b)
         /\ v # 0 => /\ Computes("divu", u, v, w) = Quot(u, v)
                     /\ Computes("remu", u, v, w) = Rem(u, v)
<1>1. TwoTo[w] \in Nat /\ TwoTo[w] > 0
  BY TwoToPos
<1>2. u \in Int /\ v \in Int /\ a \in Int /\ b \in Int
  <2>1. u \in Int /\ v \in Int
    BY <1>1
  <2>2. Signed(u, TwoTo[w]) \in Int /\ Signed(v, TwoTo[w]) \in Int
    BY <1>1, <2>1, SignedCast
  <2> QED BY <2>1, <2>2
<1>3. s \in Nat
  BY <1>2, DivMod
<1>4. SignedOf(u, w) = a /\ SignedOf(v, w) = b
  BY <1>2, SignedOfIsSigned
<1>5. /\ Computes("add", u, v, w) = u + v
      /\ Computes("sub", u, v, w) = u - v
      /\ Computes("slt", u, v, w) = One(a < b)
      /\ Computes("sltu", u, v, w) = One(u < v)
      /\ Computes("xor", u, v, w) = Differ(u, v, w)
      /\ Computes("or", u, v, w) = Either(u, v, w)
      /\ Computes("and", u, v, w) = Both(u, v, w)
  BY <1>4 DEF Computes
<1>6. /\ Computes("mul", u, v, w) = a * b
      /\ Computes("mulh", u, v, w) = (a * b) \div TwoTo[w]
      /\ Computes("mulhsu", u, v, w) = (a * v) \div TwoTo[w]
      /\ Computes("mulhu", u, v, w) = (u * v) \div TwoTo[w]
  BY <1>4 DEF Computes
<1>7. Computes("sll", u, v, w) = Shl(u, s) % TwoTo[w]
  <2>1. Computes("sll", u, v, w) = ShiftLeft(u, s, w)
    BY DEF Computes
  <2> QED BY <1>2, <1>3, <2>1, ShiftLeftIs
<1>8. Computes("srl", u, v, w) = Shr(u, s) % TwoTo[w]
  <2>1. Computes("srl", u, v, w) = ShiftRight(u, s, w, 0)
    BY DEF Computes
  <2> QED BY <1>3, <2>1, ShiftRightIs
<1>9. Computes("sra", u, v, w) = Shr(a, s) % TwoTo[w]
  <2>1. Computes("sra", u, v, w) = ShiftRight(u, s, w, BitOf(u, w - 1))
    BY DEF Computes
  <2> QED BY <1>2, <1>3, <2>1, ShiftRightSignedIs
<1>10. ASSUME b # 0
       PROVE  /\ Computes("div", u, v, w) = Quot(a, b)
              /\ Computes("rem", u, v, w) = Rem(a, b)
  <2>1. /\ Computes("div", u, v, w) = Divided(a, b)[1]
        /\ Computes("rem", u, v, w) = Divided(a, b)[2]
    BY <1>4 DEF Computes
  <2>2. Divided(a, b) = <<Quot(a, b), Rem(a, b)>>
    BY <1>2, <1>10, DividedIs
  <2> QED BY <2>1, <2>2
<1>11. ASSUME v # 0
       PROVE  /\ Computes("divu", u, v, w) = Quot(u, v)
              /\ Computes("remu", u, v, w) = Rem(u, v)
  <2>1. /\ Computes("divu", u, v, w) = Divided(u, v)[1]
        /\ Computes("remu", u, v, w) = Divided(u, v)[2]
    BY DEF Computes
  <2>2. Divided(u, v) = <<Quot(u, v), Rem(u, v)>>
    BY <1>2, <1>11, DividedIs
  <2> QED BY <2>1, <2>2
<1> QED BY <1>5, <1>6, <1>7, <1>8, <1>9, <1>10, <1>11

-----------------------------------------------------------------------------
(***************************************************************************)
(* The state, and what each handler computes.                              *)
(***************************************************************************)
\* Before the handler x0 is zero, nothing was raised, and the cell is where
\* the instruction reaches; the translators of PcOps assigned the slot's pc.
Fresh ==
  at = "ready" =>
    /\ gpr[0] = 0 /\ exception = "none"
    /\ Reached([insn |-> insn, gpr |-> gpr]) \subseteq Bytes
    /\ insn.h \in PcOps => insn.pc = iaddr

AluInv == TypeOK /\ Fresh

\* The operands are numbers of a register.
LEMMA Operand ==
  ASSUME TypeOK
  PROVE  /\ x \in Long /\ y \in Long /\ imm \in Long /\ pc \in Long
         /\ x \in Int /\ y \in Int /\ imm \in Int /\ pc \in Int
         /\ insn.rd \in Gprs /\ insn.rs1 \in Gprs /\ insn.rs2 \in Gprs
         /\ insn.imm \in Int /\ insn.bytes \in {4, 8}
         /\ insn.csr \in KnownCsr \cup {"unknown"}
         /\ insn.pc \in Long /\ insn.pc \in Int /\ iaddr \in Int
         /\ gpr \in [Gprs -> Long]
<1>1. /\ insn.rd \in Gprs /\ insn.rs1 \in Gprs /\ insn.rs2 \in Gprs
      /\ insn.imm \in Int /\ insn.bytes \in {4, 8}
      /\ insn.csr \in KnownCsr \cup {"unknown"} /\ insn.pc \in Long
      /\ gpr \in [Gprs -> Long] /\ pc \in Long /\ iaddr \in Long
  BY DEF TypeOK, Insn
<1>2. x \in Long /\ y \in Long
  BY <1>1 DEF x, y
<1>3. imm \in Long
  BY <1>1, LongFacts DEF imm
<1>4. \A n \in Long : n \in Int
  BY DEF Long
<1> QED BY <1>1, <1>2, <1>3, <1>4

\* One is a number.
LEMMA OneType ==
  ASSUME NEW c
  PROVE  One(c) \in {0, 1}
BY DEF One

\* The bitwise operators stay in the register.
LEMMA BitOps ==
  ASSUME NEW m \in Int, NEW n \in Int
  PROVE  /\ BitAnd(m, n) \in Long /\ BitOr(m, n) \in Long
         /\ BitXor(m, n) \in Long
         /\ BitAnd(m, n) \in Int /\ BitOr(m, n) \in Int /\ BitXor(m, n) \in Int
<1>1. /\ Both(m, n, LongBits) \in 0 .. Base - 1
      /\ Either(m, n, LongBits) \in 0 .. Base - 1
      /\ Differ(m, n, LongBits) \in 0 .. Base - 1
  BY WidthFacts, LogicBits
<1> QED BY <1>1, BaseFacts DEF BitAnd, BitOr, BitXor, Long

\* The manual's operations on whole registers, in the operators of C.
LEMMA LongOps ==
  ASSUME NEW u \in Long, NEW v \in Long, NEW s, s = v % LongBits,
         NEW a, a = target_long(u), NEW b, b = target_long(v)
  PROVE  /\ target_ulong(Computes("add", u, v, LongBits)) = target_ulong(u + v)
         /\ target_ulong(Computes("sub", u, v, LongBits)) = target_ulong(u - v)
         /\ target_ulong(Computes("sll", u, v, LongBits)) = target_ulong(Shl(u, s))
         /\ target_ulong(Computes("srl", u, v, LongBits)) = target_ulong(Shr(u, s))
         /\ target_ulong(Computes("sra", u, v, LongBits)) = target_ulong(Shr(a, s))
         /\ Computes("slt", u, v, LongBits) = One(a < b)
         /\ Computes("sltu", u, v, LongBits) = One(u < v)
         /\ Computes("xor", u, v, LongBits) = BitXor(u, v)
         /\ Computes("or", u, v, LongBits) = BitOr(u, v)
         /\ Computes("and", u, v, LongBits) = BitAnd(u, v)
         /\ Shl(u, s) \in Int /\ Shr(u, s) \in Int /\ Shr(a, s) \in Int
         /\ u \in Int /\ v \in Int /\ a \in Int /\ b \in Int
         /\ BitXor(u, v) \in Int /\ BitOr(u, v) \in Int /\ BitAnd(u, v) \in Int
<1>1. u \in Int /\ v \in Int /\ u \in 0 .. Base - 1 /\ v \in 0 .. Base - 1
  BY DEF Long
<1>2. a \in Int /\ b \in Int
  BY <1>1, LongFacts
<1>3. s \in Nat
  BY <1>1, WidthFacts, DivMod
<1>4. /\ Shl(u, s) \in Int /\ Shr(u, s) \in Int /\ Shr(a, s) \in Int
  BY <1>1, <1>2, <1>3, ShiftTypes
<1>5. /\ Computes("add", u, v, LongBits) = u + v
      /\ Computes("sub", u, v, LongBits) = u - v
      /\ Computes("sll", u, v, LongBits) = Shl(u, s) % Base
      /\ Computes("srl", u, v, LongBits) = Shr(u, s) % Base
      /\ Computes("sra", u, v, LongBits) = Shr(a, s) % Base
      /\ Computes("slt", u, v, LongBits) = One(a < b)
      /\ Computes("sltu", u, v, LongBits) = One(u < v)
      /\ Computes("xor", u, v, LongBits) = BitXor(u, v)
      /\ Computes("or", u, v, LongBits) = BitOr(u, v)
      /\ Computes("and", u, v, LongBits) = BitAnd(u, v)
  <2>1. a = Signed(u, TwoTo[LongBits]) /\ b = Signed(v, TwoTo[LongBits])
    BY WidthFacts DEF target_long
  <2> QED BY <1>1, <2>1, WidthFacts, ComputesIs DEF BitXor, BitOr, BitAnd
<1>6. \A n \in Int : target_ulong(n % Base) = target_ulong(n)
  BY LongFacts DEF target_ulong
<1> QED BY <1>1, <1>2, <1>4, <1>5, <1>6, BitOps

\* do_add to do_and compute what the manual says.
LEMMA AluIs ==
  ASSUME TypeOK, NEW h \in AluOps
  PROVE  /\ AluResult(h) \in Int
         /\ target_ulong(AluResult(h)) = target_ulong(Computes(h, x, y, LongBits))
<1> DEFINE s == y % LongBits   a == target_long(x)   b == target_long(y)
<1>1. /\ AluResult("add") = x + y /\ AluResult("sub") = x - y
      /\ AluResult("sll") = Shl(x, s) /\ AluResult("srl") = Shr(x, s)
      /\ AluResult("sra") = Shr(a, s)
      /\ AluResult("slt") = One(a < b) /\ AluResult("sltu") = One(x < y)
      /\ AluResult("xor") = BitXor(x, y) /\ AluResult("or") = BitOr(x, y)
      /\ AluResult("and") = BitAnd(x, y)
  BY DEF AluResult
<1>2. x \in Long /\ y \in Long /\ s = y % LongBits
  BY Operand
<1>3. a = target_long(x) /\ b = target_long(y)
  OBVIOUS
<1> HIDE DEF a, b, s
<1> QED BY <1>1, <1>2, <1>3, LongOps, OneType DEF AluOps

\* do_addi to do_srai: the manual's operation with the immediate.
LEMMA ImmIs ==
  ASSUME TypeOK, NEW h \in ImmOps
  PROVE  /\ h \in DOMAIN ImmForm /\ ImmResult(h) \in Int
         /\ target_ulong(ImmResult(h))
              = target_ulong(Computes(ImmForm[h], x, imm, LongBits))
<1> DEFINE s == imm % LongBits   a == target_long(x)   b == target_long(imm)
<1>1. /\ ImmResult("addi") = x + imm
      /\ ImmResult("slli") = Shl(x, s) /\ ImmResult("srli") = Shr(x, s)
      /\ ImmResult("srai") = Shr(a, s)
      /\ ImmResult("slti") = One(a < b) /\ ImmResult("sltiu") = One(x < imm)
      /\ ImmResult("xori") = BitXor(x, imm) /\ ImmResult("ori") = BitOr(x, imm)
      /\ ImmResult("andi") = BitAnd(x, imm)
  BY DEF ImmResult
<1>2. x \in Long /\ imm \in Long /\ s = imm % LongBits
  BY Operand
<1>3. a = target_long(x) /\ b = target_long(imm)
  OBVIOUS
<1> HIDE DEF a, b, s
<1>4. /\ ImmForm["addi"] = "add" /\ ImmForm["slli"] = "sll"
      /\ ImmForm["srli"] = "srl" /\ ImmForm["srai"] = "sra"
      /\ ImmForm["slti"] = "slt" /\ ImmForm["sltiu"] = "sltu"
      /\ ImmForm["xori"] = "xor" /\ ImmForm["ori"] = "or"
      /\ ImmForm["andi"] = "and" /\ DOMAIN ImmForm = ImmOps
  BY DEF ImmForm, ImmOps
<1> QED BY <1>1, <1>2, <1>3, <1>4, LongOps, OneType DEF ImmOps

-----------------------------------------------------------------------------
(***************************************************************************)
(* Words.                                                                  *)
(***************************************************************************)
\* A shift to the right goes towards 0 or -1.
LEMMA ShrBounds ==
  ASSUME NEW n \in Int, NEW s \in Nat
  PROVE  /\ n >= 0 => Shr(n, s) \in 0 .. n
         /\ n < 0 => Shr(n, s) \in n .. -1
<1> DEFINE t == TwoTo[s]   q == n \div t   r == n % t
<1>1. t \in Nat /\ t > 0
  BY TwoToPos
<1>2. q \in Int /\ r \in 0 .. t - 1 /\ n = t * q + r
  <2> HIDE DEF t
  <2> QED BY <1>1, DivMod
<1> HIDE DEF t, q, r
<1>3. CASE q >= 0
  <2>1. t * q >= q
    BY <1>1, <1>2, <1>3
  <2> QED BY <1>1, <1>2, <1>3, <2>1 DEF Shr, t, q
<1>4. CASE q < 0
  <2>1. t * q <= -t
    BY <1>1, <1>2, <1>4
  <2>2. t * (q + 1) <= q + 1
    BY <1>1, <1>2, <1>4
  <2>3. t * (q + 1) = t * q + t
    BY <1>1, <1>2
  <2> QED BY <1>1, <1>2, <1>4, <2>1, <2>2, <2>3 DEF Shr, t, q
<1> QED BY <1>2, <1>3, <1>4

\* An int is its own cast.
LEMMA IntSmall ==
  ASSUME NEW n \in Int, -Half <= 2 * n, 2 * n < Half
  PROVE  int32(n) = n
<1>1. Half \in Nat /\ Half > 0
  BY BaseFacts
<1>2. CASE n >= 0
  <2>1. n \in 0 .. Half - 1
    BY <1>1, <1>2
  <2>2. n % Half = n
    BY <1>1, <2>1, ModSmall
  <2> QED BY <1>1, <1>2, <2>2 DEF int32, Signed
<1>3. CASE n < 0
  <2>1. n + Half \in 0 .. Half - 1 /\ n = Half * (-1) + (n + Half) /\ -1 \in Int
    BY <1>1, <1>3
  <2>2. n % Half = n + Half
    BY <1>1, <2>1, DivModUnique
  <2> QED BY <1>1, <1>3, <2>2 DEF int32, Signed
<1> QED BY <1>2, <1>3

\* The values an int has.
LEMMA IntRange ==
  ASSUME NEW n \in Int
  PROVE  -Half <= 2 * int32(n) /\ 2 * int32(n) < Half /\ int32(n) \in Int
<1>1. Half \in Nat /\ Half > 0
  BY BaseFacts
<1> QED BY <1>1, SignedCast DEF int32

\* The manual's operations on the words m and n are those of C on u and v.
WordsAre(u, v, m, n, s) ==
  /\ int32(Computes("add", m, n, IntBits)) = int32(u + v)
  /\ int32(Computes("sub", m, n, IntBits)) = int32(u - v)
  /\ int32(Computes("mul", m, n, IntBits)) = int32(u * v)
  /\ Computes("sll", m, n, IntBits) = uint32(Shl(uint32(u), s))
  /\ Computes("srl", m, n, IntBits) = Shr(uint32(u), s)
  /\ int32(Computes("sra", m, n, IntBits)) = Shr(int32(u), s)
  /\ Shr(int32(u), s) \in Int
  /\ int32(Shr(int32(u), s)) = Shr(int32(u), s)
  /\ Shr(uint32(u), s) \in 0 .. Half - 1
  /\ uint32(Shl(uint32(u), s)) \in 0 .. Half - 1
  /\ \A op \in {"add", "sub", "mul", "sll", "srl", "sra"} :
       Computes(op, m, n, IntBits) \in Int

\* They are, when m and n are the low halves of u and v.
LEMMA WordOpsAre ==
  ASSUME NEW u \in Int, NEW v \in Int,
         NEW m, m = u % Half, NEW n, n = v % Half, NEW s, s = v % IntBits
  PROVE  WordsAre(u, v, m, n, s)
<1> DEFINE a == int32(u)   b == int32(v)
<1>1. Half \in Nat /\ Half > 0
  BY BaseFacts
<1>2. m \in 0 .. Half - 1 /\ n \in 0 .. Half - 1 /\ m \in Int /\ n \in Int
  BY <1>1, DivMod
<1>3. s \in Nat /\ s = n % IntBits
  BY WordShift
<1>4. a = Signed(m, Half) /\ b = Signed(n, Half) /\ a \in Int /\ b \in Int
  BY WordWrap, IntRange DEF int32
<1>5. uint32(u) = m
  BY DEF uint32
<1> HIDE DEF a, b
<1>6. /\ Computes("add", m, n, IntBits) = m + n
      /\ Computes("sub", m, n, IntBits) = m - n
      /\ Computes("mul", m, n, IntBits) = a * b
      /\ Computes("sll", m, n, IntBits) = Shl(m, s) % Half
      /\ Computes("srl", m, n, IntBits) = Shr(m, s) % Half
      /\ Computes("sra", m, n, IntBits) = Shr(a, s) % Half
  <2>1. IntBits \in Nat /\ IntBits >= 1 /\ Half = TwoTo[IntBits]
    BY WidthFacts
  <2> QED BY <1>2, <1>3, <1>4, <2>1, ComputesIs
<1>7. /\ int32(m + n) = int32(u + v) /\ int32(m - n) = int32(u - v)
      /\ int32(a * b) = int32(u * v)
  BY WordWrap DEF a, b
<1>8. Shl(m, s) \in Int /\ Shl(m, s) % Half \in 0 .. Half - 1
  BY <1>1, <1>2, <1>3, ShiftTypes, DivMod
<1>9. Shr(m, s) \in 0 .. Half - 1 /\ Shr(m, s) % Half = Shr(m, s)
  <2>1. Shr(m, s) \in 0 .. m
    BY <1>2, <1>3, ShrBounds
  <2>2. Shr(m, s) \in 0 .. Half - 1
    BY <1>1, <1>2, <2>1
  <2> QED BY <1>1, <2>2, ModSmall
<1>10. /\ Shr(a, s) \in Int /\ int32(Shr(a, s) % Half) = Shr(a, s)
       /\ int32(Shr(a, s)) = Shr(a, s) /\ Shr(a, s) % Half \in Int
  <2>1. -Half <= 2 * a /\ 2 * a < Half
    BY IntRange DEF a
  <2>2. (a >= 0 => Shr(a, s) \in 0 .. a) /\ (a < 0 => Shr(a, s) \in a .. -1)
    BY <1>3, <1>4, ShrBounds
  <2>3. Shr(a, s) \in Int /\ -Half <= 2 * Shr(a, s) /\ 2 * Shr(a, s) < Half
    BY <1>1, <1>4, <2>1, <2>2
  <2>4. int32(Shr(a, s)) = Shr(a, s)
    BY <2>3, IntSmall
  <2>5. int32(Shr(a, s) % Half) = int32(Shr(a, s))
    BY <2>3, WordWrap
  <2>6. Shr(a, s) % Half \in Int
    BY <1>1, <2>3, DivMod
  <2> QED BY <2>3, <2>4, <2>5, <2>6
<1>11. \A op \in {"add", "sub", "mul", "sll", "srl", "sra"} :
         Computes(op, m, n, IntBits) \in Int
  <2>1. m + n \in Int /\ m - n \in Int /\ a * b \in Int
    BY <1>2, <1>4
  <2>2. Shl(m, s) % Half \in Int /\ Shr(m, s) % Half \in Int
    BY <1>1, <1>8, <1>9
  <2> QED BY <1>6, <1>10, <2>1, <2>2
<1> QED BY <1>5, <1>6, <1>7, <1>8, <1>9, <1>10, <1>11
    DEF WordsAre, uint32, a

\* The word handlers that extend their result with its sign, and those that
\* extend it with zeros.
SignExtending == {"addiw", "sraiw", "addw", "subw", "sraw"}
ZeroExtending == {"slliw", "srliw", "sllw", "srlw"}

\* The manual's result of a word instruction, before the target_ulong.
IsaWord(h) ==
  IF h \in DOMAIN WordForm THEN WordComputes(WordForm[h], y)
  ELSE WordComputes(WordImmForm[h], imm)

\* A result that is extended with its sign, and one that is extended with
\* zeros: n is the handler's, w the manual's.
SignExtends(n, w) == target_ulong(n) = target_ulong(w)
ZeroExtends(n, w) ==
  /\ n \in 0 .. Half - 1 /\ target_ulong(n) = n
  /\ target_ulong(n) = target_ulong(w) <=> ~(2 * n >= Half)

\* From the result of the operation to that of the instruction.
LEMMA Extends ==
  ASSUME NEW c \in Int, NEW n \in Int
  PROVE  /\ int32(c) = int32(n) /\ int32(n) = n
              => SignExtends(n, Widen(c, IntBits, LongBits))
         /\ c = n /\ n \in 0 .. Half - 1
              => ZeroExtends(n, Widen(c, IntBits, LongBits))
<1>1. target_ulong(Widen(c, IntBits, LongBits)) = target_ulong(int32(c))
  BY WordWiden
<1>2. n \in 0 .. Half - 1 =>
        /\ target_ulong(n) = n
        /\ target_ulong(n) = target_ulong(int32(n)) <=> ~(2 * n >= Half)
  BY ZeroExtended
<1> QED BY <1>1, <1>2 DEF SignExtends, ZeroExtends

\* do_addiw to do_sraw.
LEMMA WordIs ==
  ASSUME TypeOK, NEW h \in WordOps
  PROVE  /\ WordResult(h) \in Int
         /\ h \in SignExtending => SignExtends(WordResult(h), IsaWord(h))
         /\ h \in ZeroExtending => ZeroExtends(WordResult(h), IsaWord(h))
<1> DEFINE m == x % Half   n == y % Half   i == imm % Half
           s == y % IntBits   si == imm % IntBits
           C(op) == Computes(op, m, n, IntBits)
           I(op) == Computes(op, m, i, IntBits)
           W(c) == Widen(c, IntBits, LongBits)
<1>1. x \in Int /\ y \in Int /\ imm \in Int
  BY Operand
<1>2. /\ WordResult("addiw") = int32(x + imm)
      /\ WordResult("slliw") = uint32(Shl(uint32(x), si))
      /\ WordResult("srliw") = Shr(uint32(x), si)
      /\ WordResult("sraiw") = Shr(int32(x), si)
      /\ WordResult("addw") = int32(x + y)
      /\ WordResult("subw") = int32(x - y)
      /\ WordResult("sllw") = uint32(Shl(uint32(x), s))
      /\ WordResult("srlw") = Shr(uint32(x), s)
      /\ WordResult("sraw") = Shr(int32(x), s)
  BY DEF WordResult
<1>3. /\ IsaWord("addiw") = W(I("add")) /\ IsaWord("slliw") = W(I("sll"))
      /\ IsaWord("srliw") = W(I("srl")) /\ IsaWord("sraiw") = W(I("sra"))
      /\ IsaWord("addw") = W(C("add")) /\ IsaWord("subw") = W(C("sub"))
      /\ IsaWord("sllw") = W(C("sll")) /\ IsaWord("srlw") = W(C("srl"))
      /\ IsaWord("sraw") = W(C("sra"))
  BY DEF IsaWord, WordForm, WordImmForm, WordComputes
<1>4. m = x % Half /\ n = y % Half /\ i = imm % Half /\ s = y % IntBits
      /\ si = imm % IntBits
  OBVIOUS
<1>5. m \in Int /\ n \in Int /\ i \in Int
  BY <1>1, BaseFacts, DivMod
<1> HIDE DEF m, n, i, s, si
<1>6. /\ int32(C("add")) = int32(x + y) /\ int32(C("sub")) = int32(x - y)
      /\ C("sll") = uint32(Shl(uint32(x), s)) /\ C("srl") = Shr(uint32(x), s)
      /\ int32(C("sra")) = Shr(int32(x), s) /\ Shr(int32(x), s) \in Int
      /\ int32(Shr(int32(x), s)) = Shr(int32(x), s)
      /\ Shr(uint32(x), s) \in 0 .. Half - 1
      /\ uint32(Shl(uint32(x), s)) \in 0 .. Half - 1
      /\ C("add") \in Int /\ C("sub") \in Int /\ C("sll") \in Int
      /\ C("srl") \in Int /\ C("sra") \in Int
  <2>1. WordsAre(x, y, m, n, s)
    BY <1>1, <1>4, WordOpsAre
  <2> QED BY <2>1 DEF WordsAre
<1>7. /\ int32(I("add")) = int32(x + imm)
      /\ I("sll") = uint32(Shl(uint32(x), si)) /\ I("srl") = Shr(uint32(x), si)
      /\ int32(I("sra")) = Shr(int32(x), si) /\ Shr(int32(x), si) \in Int
      /\ int32(Shr(int32(x), si)) = Shr(int32(x), si)
      /\ Shr(uint32(x), si) \in 0 .. Half - 1
      /\ uint32(Shl(uint32(x), si)) \in 0 .. Half - 1
      /\ I("add") \in Int /\ I("sll") \in Int /\ I("srl") \in Int
      /\ I("sra") \in Int
  <2>1. WordsAre(x, imm, m, i, si)
    BY <1>1, <1>4, WordOpsAre
  <2> QED BY <2>1 DEF WordsAre
<1>8. \A c \in Int : int32(c) \in Int /\ int32(int32(c)) = int32(c)
  <2> TAKE c \in Int
  <2>1. int32(c) \in Int /\ -Half <= 2 * int32(c) /\ 2 * int32(c) < Half
    BY IntRange
  <2> QED BY <2>1, IntSmall
<1>9. x + y \in Int /\ x - y \in Int /\ x + imm \in Int
  BY <1>1
<1>10. \A k \in 0 .. Half - 1 : k \in Int
  OBVIOUS
<1> DEFINE a == int32(x + y)   d == int32(x - y)   e == int32(x + imm)
<1>11. /\ a \in Int /\ int32(a) = a /\ d \in Int /\ int32(d) = d
       /\ e \in Int /\ int32(e) = e
  BY <1>8, <1>9
<1>12. /\ SignExtends(a, W(C("add"))) /\ SignExtends(d, W(C("sub")))
       /\ SignExtends(e, W(I("add")))
  <2>1. int32(C("add")) = int32(a) /\ int32(C("sub")) = int32(d)
        /\ int32(I("add")) = int32(e)
    BY <1>6, <1>7, <1>11
  <2> HIDE DEF a, d, e, C, I
  <2> QED BY <1>6, <1>7, <1>11, <2>1, Extends
<1>13. /\ SignExtends(Shr(int32(x), s), W(C("sra")))
       /\ SignExtends(Shr(int32(x), si), W(I("sra")))
  <2> HIDE DEF C, I
  <2> QED BY <1>6, <1>7, Extends
<1>14. /\ ZeroExtends(uint32(Shl(uint32(x), s)), W(C("sll")))
       /\ ZeroExtends(uint32(Shl(uint32(x), si)), W(I("sll")))
       /\ ZeroExtends(Shr(uint32(x), s), W(C("srl")))
       /\ ZeroExtends(Shr(uint32(x), si), W(I("srl")))
  <2> HIDE DEF C, I
  <2> QED BY <1>6, <1>7, <1>10, Extends
<1>15. CASE h \in SignExtending
  BY <1>2, <1>3, <1>6, <1>7, <1>11, <1>12, <1>13, <1>15
     DEF SignExtending, ZeroExtending
<1>16. CASE h \in ZeroExtending
  BY <1>2, <1>3, <1>6, <1>7, <1>10, <1>14, <1>16
     DEF SignExtending, ZeroExtending
<1> QED BY <1>15, <1>16 DEF WordOps, SignExtending, ZeroExtending

\* A product of halves fits a register.
LEMMA HalfProduct ==
  ASSUME NEW m \in 0 .. Half - 1, NEW n \in 0 .. Half - 1
  PROVE  m * n \in 0 .. Base - 1
<1>1. m * n >= 0 /\ m * n <= m * Half
  BY BaseFacts
<1>2. m * Half <= (Half - 1) * Half
  BY BaseFacts
<1>3. (Half - 1) * Half = Base - Half
  BY BaseFacts
<1> QED BY <1>1, <1>2, <1>3, BaseFacts

-----------------------------------------------------------------------------
(***************************************************************************)
(* The unsigned product.                                                   *)
(***************************************************************************)
\* The double product, from the halves of the factors: schoolbook, in Int.
LEMMA Schoolbook ==
  ASSUME NEW B \in Int, NEW u0 \in Int, NEW u1 \in Int,
         NEW v0 \in Int, NEW v1 \in Int
  PROVE  (B * u1 + u0) * (B * v1 + v0)
           = u1 * v1 * (B * B) + (u1 * v0 + u0 * v1) * B + u0 * v0
OBVIOUS

\* The carries: three columns of half digits and what they carry over.
LEMMA Columns ==
  ASSUME NEW B \in Int, NEW p11 \in Int, NEW p10 \in Int, NEW p01 \in Int,
         NEW p00 \in Int,
         NEW h10 \in Int, NEW l10 \in Int, p10 = B * h10 + l10,
         NEW h01 \in Int, NEW l01 \in Int, p01 = B * h01 + l01,
         NEW q \in Int, NEW r \in Int, p00 = B * q + r,
         NEW c \in Int, NEW t \in Int, q + l10 + l01 = B * c + t
  PROVE  /\ p11 * (B * B) + (p10 + p01) * B + p00
              = (B * B) * (p11 + h10 + h01 + c) + (t * B + r)
         /\ p00 + p10 * B + p01 * B
              = (B * B) * (h10 + h01 + c) + (t * B + r)
<1>1. p10 * B = (B * B) * h10 + l10 * B
  OBVIOUS
<1>2. p01 * B = (B * B) * h01 + l01 * B
  OBVIOUS
<1>3. (q + l10 + l01) * B = (B * B) * c + t * B
  OBVIOUS
<1>4. p00 + p10 * B + p01 * B
        = (q + l10 + l01) * B + r + (B * B) * h10 + (B * B) * h01
  BY <1>1, <1>2
<1>5. p00 + p10 * B + p01 * B = (B * B) * (h10 + h01 + c) + (t * B + r)
  BY <1>3, <1>4
<1>6. (p10 + p01) * B = p10 * B + p01 * B
  OBVIOUS
<1>7. (B * B) * (p11 + h10 + h01 + c)
        = p11 * (B * B) + (B * B) * (h10 + h01 + c)
  OBVIOUS
<1> QED BY <1>5, <1>6, <1>7

\* wmulu leaves the two halves of the exact product.
LEMMA UnsignedProduct ==
  ASSUME NEW u \in Long, NEW v \in Long
  PROVE  /\ wmulu(u, v).hi = (u * v) \div Base
         /\ wmulu(u, v).lo = (u * v) % Base
         /\ wmulu(u, v).hi \in Long
<1> USE BaseFacts
<1> DEFINE
      u0 == u % Half    u1 == u \div Half
      v0 == v % Half    v1 == v \div Half
      p11 == u1 * v1    p01 == u0 * v1
      p10 == u1 * v0    p00 == u0 * v0
      q == p00 \div Half     r == p00 % Half
      h10 == p10 \div Half   l10 == p10 % Half
      h01 == p01 \div Half   l01 == p01 % Half
      s == q + l10 + l01
      c == s \div Half       t == s % Half
      hi == p11 + h10 + h01 + c
      lo == t * Half + r
<1>1. /\ u0 \in 0 .. Half - 1 /\ u1 \in Int /\ u = Half * u1 + u0
      /\ v0 \in 0 .. Half - 1 /\ v1 \in Int /\ v = Half * v1 + v0
  BY DivMod DEF Long
<1>2. u1 \in 0 .. Half - 1 /\ v1 \in 0 .. Half - 1
  <2> HIDE DEF u0, u1, v0, v1
  <2> QED BY <1>1, QuotientBound DEF Long
<1>3. /\ p11 \in 0 .. Base - 1 /\ p01 \in 0 .. Base - 1
      /\ p10 \in 0 .. Base - 1 /\ p00 \in 0 .. Base - 1
  BY <1>1, <1>2, HalfProduct
<1>4. /\ r \in 0 .. Half - 1 /\ q \in Int /\ p00 = Half * q + r
      /\ l10 \in 0 .. Half - 1 /\ h10 \in Int /\ p10 = Half * h10 + l10
      /\ l01 \in 0 .. Half - 1 /\ h01 \in Int /\ p01 = Half * h01 + l01
  <2> HIDE DEF p00, p10, p01
  <2> QED BY <1>3, DivMod
<1>5. q \in 0 .. Half - 1
  <2>1. /\ p00 \in Int /\ p00 >= 0 /\ p00 < Half * Half
    BY <1>3
  <2>2. /\ q \in Int /\ r \in 0 .. Half - 1 /\ p00 = Half * q + r
    BY <1>4
  <2> HIDE DEF p00, q, r
  <2> QED BY <2>1, <2>2, QuotientBound
<1>6. s \in 0 .. Base - 1
  <2>1. l10 \in 0 .. Half - 1 /\ l01 \in 0 .. Half - 1
    BY <1>4
  <2> HIDE DEF q, l10, l01
  <2> QED BY <1>5, <2>1
<1>7. t \in 0 .. Half - 1 /\ c \in Int /\ s = Half * c + t
  <2> HIDE DEF s
  <2> QED BY <1>6, DivMod
<1> HIDE DEF u0, u1, v0, v1
<1>8. u * v = p11 * (Half * Half) + (p10 + p01) * Half + p00
  BY <1>1, Schoolbook
<1> HIDE DEF p11, p10, p01, p00
<1> HIDE DEF q, r, h10, l10, h01, l01
<1> HIDE DEF c, t
<1>9. /\ u * v = Base * hi + lo
      /\ p00 + p10 * Half + p01 * Half = Base * (h10 + h01 + c) + lo
  BY <1>3, <1>4, <1>7, <1>8, Columns
<1> HIDE DEF s
<1>10. lo \in 0 .. Base - 1
  <2>1. t * Half <= (Half - 1) * Half
    BY <1>7
  <2>2. (Half - 1) * Half = Base - Half
    OBVIOUS
  <2>3. t * Half >= 0
    BY <1>7
  <2> QED BY <1>4, <1>7, <2>1, <2>2, <2>3
<1>11. hi \in Int
  BY <1>3, <1>4, <1>7
<1> HIDE DEF hi, lo
<1>12. (u * v) \div Base = hi /\ (u * v) % Base = lo
  <2>1. u * v \in Int
    BY DEF Long
  <2> QED BY <1>9, <1>10, <1>11, <2>1, DivModUnique
<1>13. (p00 + p10 * Half + p01 * Half) % Base = lo
  <2> DEFINE w == p00 + p10 * Half + p01 * Half
             m == h10 + h01 + c
  <2>1. w \in Int /\ m \in Int
    BY <1>3, <1>4, <1>7
  <2>2. w = Base * m + lo
    BY <1>9
  <2> HIDE DEF w, m
  <2>3. w % Base = lo
    BY <1>10, <2>1, <2>2, DivModUnique
  <2> QED BY <2>3 DEF w
<1>14. hi \in 0 .. Base - 1
  <2>1. u * v >= 0 /\ u * v <= u * Base
    BY DEF Long
  <2>2. u * Base <= (Base - 1) * Base
    BY DEF Long
  <2>3. (Base - 1) * Base = Base * Base - Base
    OBVIOUS
  <2>4. u * v \in Int /\ u * v < Base * Base
    BY <2>1, <2>2, <2>3 DEF Long
  <2> QED BY <1>9, <1>10, <1>11, <2>1, <2>4, QuotientBound
<1>15. ASSUME NEW n \in 0 .. Base - 1 PROVE n % Base = n
  BY DivModUnique
<1>16. wmulu(u, v).hi = hi /\ wmulu(u, v).lo = lo
  <2>1. /\ p11 % Base = p11 /\ p10 % Base = p10
        /\ p01 % Base = p01 /\ p00 % Base = p00
        /\ s % Base = s /\ hi % Base = hi
    BY <1>3, <1>6, <1>14, <1>15
  <2>2. wmulu(u, v).hi = hi % Base
    <3> USE DEF hi, c, s, q, h10, h01, l10, l01
    <3>1. c = (s % Base) \div Half
      BY <2>1
    <3> QED BY <2>1, <3>1
        DEF wmulu, target_ulong, target_hulong, p11, p10, p01, p00, u0, u1,
            v0, v1
  <2>3. wmulu(u, v).lo = (p00 + p10 * Half + p01 * Half) % Base
    BY <2>1 DEF wmulu, target_ulong, target_hulong, p10, p01, p00, u0, u1,
                v0, v1
  <2> QED BY <1>13, <2>1, <2>2, <2>3
<1> QED BY <1>12, <1>14, <1>16 DEF Long

-----------------------------------------------------------------------------
(***************************************************************************)
(* The signed products: the corrections of the upper half.                 *)
(***************************************************************************)
\* Multiples of the base move the quotient and leave the remainder.
LEMMA PlusMultiple ==
  ASSUME NEW a \in Int, NEW n \in Int
  PROVE  /\ (a + Base * n) \div Base = a \div Base + n
         /\ (a + Base * n) % Base = a % Base
BY BaseFacts, AddMultiple

\* target_ulong may be taken before a subtraction or after it.
LEMMA WrapFirst ==
  ASSUME NEW a \in Int, NEW n \in Int
  PROVE  target_ulong(target_ulong(a) - n) = target_ulong(a - n)
<1> DEFINE r == target_ulong(a)
<1>1. r \in Int /\ target_ulong(r) = target_ulong(a)
  BY LongFacts DEF Long
<1> HIDE DEF r
<1>2. Same(r, a, Base) /\ Same(n, n, Base)
  BY <1>1 DEF target_ulong, Same
<1>3. Same(r - n, a - n, Base)
  BY <1>1, <1>2, BaseFacts, ModCong
<1> QED BY <1>3 DEF target_ulong, Same, r

\* The number a register stands for, when it is signed.
LEMMA SignedView ==
  ASSUME NEW u \in Long
  PROVE  /\ target_ulong(u) = u
         /\ target_long(u) < 0 => target_long(u) = u - Base
         /\ target_long(u) >= 0 => target_long(u) = u
         /\ target_long(u) \in Int
<1> USE BaseFacts
<1>1. u \in 0 .. Base - 1 /\ u = Base * 0 + u
  BY DEF Long
<1>2. u % Base = u
  BY <1>1, DivModUnique
<1> QED BY <1>1, <1>2 DEF target_ulong, target_long, Signed

\* wmulsu, for a signed and an unsigned factor.
LEMMA SignedUnsignedProduct ==
  ASSUME NEW u \in Long, NEW v \in Long
  PROVE  wmulsu(u, v).hi = target_ulong(High(target_long(u), v))
<1> USE BaseFacts
<1> DEFINE a == target_long(u)
           h == wmulu(u, v).hi
<1>1. h = (u * v) \div Base /\ h \in Long
  BY UnsignedProduct
<1>2. a \in Int /\ u \in Int /\ v \in Int /\ h \in Int
  BY <1>1, SignedView DEF Long
<1>3. CASE a < 0
  <2>1. a * v = u * v + Base * (-v)
    <3>1. a = u - Base
      BY <1>3, SignedView
    <3> QED BY <1>2, <3>1
  <2>2. u * v \in Int /\ -v \in Int
    BY <1>2
  <2>3. (a * v) \div Base = h - v
    BY <1>1, <1>2, <2>1, <2>2, PlusMultiple
  <2>4. wmulsu(u, v).hi = target_ulong(h - v)
    <3>1. wmulu(u, v) = [hi |-> h, lo |-> wmulu(u, v).lo]
      BY DEF wmulu
    <3> QED BY <1>3, <3>1 DEF wmulsu
  <2> QED BY <2>3, <2>4 DEF High
<1>4. CASE a >= 0
  <2>1. a = u
    BY <1>4, SignedView
  <2>2. wmulsu(u, v).hi = h
    BY <1>2, <1>4 DEF wmulsu
  <2>3. target_ulong(h) = h
    BY <1>1, SignedView
  <2> QED BY <1>1, <2>1, <2>2, <2>3 DEF High
<1> QED BY <1>2, <1>3, <1>4

\* wmul, for two signed factors.
LEMMA SignedProduct ==
  ASSUME NEW u \in Long, NEW v \in Long
  PROVE  wmul(u, v).hi = target_ulong(High(target_long(u), target_long(v)))
<1> USE BaseFacts
<1> DEFINE a == target_long(u)
           b == target_long(v)
           g == High(a, v)
           p == wmulsu(u, v)
<1>1. p.hi = target_ulong(g)
  BY SignedUnsignedProduct
<1>2. a \in Int /\ b \in Int /\ u \in Int /\ v \in Int
  BY SignedView DEF Long
<1>3. a * v \in Int /\ g \in Int
  BY <1>2, DivMod DEF High
<1>4. CASE b < 0
  <2>1. a * b = a * v + Base * (-a)
    <3>1. b = v - Base
      BY <1>4, SignedView
    <3> QED BY <1>2, <3>1
  <2>2. High(a, b) = g - a
    BY <1>2, <1>3, <2>1, PlusMultiple DEF High
  <2>3. wmul(u, v).hi = target_ulong(p.hi - u)
    <3>1. p = [hi |-> p.hi, lo |-> p.lo]
      BY DEF wmulsu, wmulu
    <3> QED BY <1>4, <3>1 DEF wmul
  <2>4. target_ulong(p.hi - u) = target_ulong(g - u)
    BY <1>1, <1>2, <1>3, WrapFirst
  <2>5. target_ulong(g - u) = target_ulong(g - a)
    <3> HIDE DEF g, a
    <3>1. a = u \/ a = u - Base
      BY <1>2, SignedView DEF a
    <3>2. CASE a = u - Base
      <4> DEFINE d == g - u
                 one == 1
      <4>1. g - a = d + Base * one /\ d \in Int /\ one \in Int
        BY <1>2, <1>3, <3>2
      <4> HIDE DEF d, one
      <4>2. (d + Base * one) % Base = d % Base
        BY <4>1, PlusMultiple
      <4>3. (g - a) % Base = d % Base
        BY <4>1, <4>2
      <4>4. (g - u) % Base = d % Base
        BY DEF d
      <4>5. (g - u) % Base = (g - a) % Base
        BY <4>3, <4>4
      <4> QED BY <4>5, Zenon DEF target_ulong
    <3> QED BY <3>1, <3>2
  <2> QED BY <2>2, <2>3, <2>4, <2>5
<1>5. CASE b >= 0
  <2>1. b = v
    BY <1>5, SignedView
  <2>2. wmul(u, v).hi = p.hi
    BY <1>2, <1>5 DEF wmul
  <2> QED BY <1>1, <2>1, <2>2
<1> QED BY <1>2, <1>4, <1>5

\* do_mul to do_mulhu compute what the manual says, do_mulw with its sign.
LEMMA MulIs ==
  ASSUME TypeOK, NEW h \in MulOps
  PROVE  /\ MulResult(h) \in Int
         /\ h = "mulw" => SignExtends(MulResult(h), IsaWord(h))
         /\ h # "mulw" => target_ulong(MulResult(h))
                            = target_ulong(Computes(h, x, y, LongBits))
<1> DEFINE a == target_long(x)   b == target_long(y)
           hh == High(a, b)   hu == High(a, y)   uu == High(x, y)
<1>1. x \in Long /\ y \in Long /\ x \in Int /\ y \in Int
  BY Operand
<1>2. a \in Int /\ b \in Int
  BY <1>1, LongFacts
<1>3. /\ Computes("mul", x, y, LongBits) = a * b
      /\ Computes("mulh", x, y, LongBits) = hh
      /\ Computes("mulhsu", x, y, LongBits) = hu
      /\ Computes("mulhu", x, y, LongBits) = uu
  <2>1. a = Signed(x, TwoTo[LongBits]) /\ b = Signed(y, TwoTo[LongBits])
    BY WidthFacts DEF target_long
  <2>2. x \in 0 .. TwoTo[LongBits] - 1 /\ y \in 0 .. TwoTo[LongBits] - 1
    BY <1>1, WidthFacts DEF Long
  <2> HIDE DEF a, b
  <2>3. /\ Computes("mul", x, y, LongBits) = a * b
        /\ Computes("mulh", x, y, LongBits) = (a * b) \div TwoTo[LongBits]
        /\ Computes("mulhsu", x, y, LongBits) = (a * y) \div TwoTo[LongBits]
        /\ Computes("mulhu", x, y, LongBits) = (x * y) \div TwoTo[LongBits]
    BY <2>1, <2>2, WidthFacts, ComputesIs
  <2> QED BY <2>3, WidthFacts DEF High
<1>4. a * b \in Int /\ hh \in Int /\ hu \in Int /\ uu \in Int
  <2>1. \A n \in Int : n \div Base \in Int
    BY BaseFacts, DivMod
  <2>2. a * b \in Int /\ a * y \in Int /\ x * y \in Int
    BY <1>1, <1>2
  <2> QED BY <2>1, <2>2 DEF High
<1>5. /\ MulResult("mul") = a * b
      /\ MulResult("mulh") = target_ulong(hh)
      /\ MulResult("mulhsu") = target_ulong(hu)
      /\ MulResult("mulhu") = uu
  <2>1. /\ MulResult("mul") = a * b
        /\ MulResult("mulh") = wmul(x, y).hi
        /\ MulResult("mulhsu") = wmulsu(x, y).hi
        /\ MulResult("mulhu") = wmulu(x, y).hi
    BY DEF MulResult
  <2>2. uu = (x * y) \div Base
    BY DEF High
  <2> QED BY <1>1, <2>1, <2>2, SignedProduct, SignedUnsignedProduct,
             UnsignedProduct
<1> HIDE DEF a, b, hh, hu, uu
<1>6. \A n \in Int : target_ulong(n) \in Int
                     /\ target_ulong(target_ulong(n)) = target_ulong(n)
  BY LongFacts DEF Long
<1>7. MulResult("mulw") \in Int /\ SignExtends(MulResult("mulw"), IsaWord("mulw"))
  <2> DEFINE m == x % Half   n == y % Half   s == y % IntBits
             c == Computes("mul", m, n, IntBits)
             p == int32(x * y)
  <2>1. WordsAre(x, y, m, n, s)
    BY <1>1, WordOpsAre
  <2>2. int32(c) = p /\ c \in Int
    BY <2>1 DEF WordsAre
  <2>3. p \in Int /\ int32(p) = p
    <3>1. x * y \in Int
      BY <1>1
    <3>2. p \in Int /\ -Half <= 2 * p /\ 2 * p < Half
      BY <3>1, IntRange
    <3> QED BY <3>2, IntSmall
  <2>4. MulResult("mulw") = p
    BY DEF MulResult
  <2>5. IsaWord("mulw") = Widen(c, IntBits, LongBits)
    BY DEF IsaWord, WordForm, WordComputes
  <2> HIDE DEF c, p
  <2> QED BY <2>2, <2>3, <2>4, <2>5, Extends
<1> QED BY <1>3, <1>4, <1>5, <1>6, <1>7 DEF MulOps

\* The quotient and the remainder of two ints are ints, but for MIN / -1.
LEMMA WordQuotient ==
  ASSUME NEW i \in Int, -Half <= 2 * i, 2 * i < Half,
         NEW j \in Int, -Half <= 2 * j, 2 * j < Half, j # 0
  PROVE  /\ Quot(i, j) \in Int /\ Rem(i, j) \in Int
         /\ int32(Rem(i, j)) = Rem(i, j)
         /\ ~(i = -(Half \div 2) /\ j = -1) => int32(Quot(i, j)) = Quot(i, j)
<1> DEFINE q == Quot(i, j)   r == Rem(i, j)
<1>1. /\ q \in -Abs(i) .. Abs(i) /\ r \in Int /\ i = q * j + r
      /\ Abs(r) < Abs(j) /\ (Abs(j) >= 2 => 2 * Abs(q) <= Abs(i))
  BY QuotRem
<1> HIDE DEF q, r
<1>2. Half \in Nat /\ Half > 0 /\ Half = 2 * (Half \div 2) /\ Half \div 2 \in Int
  <2>1. IntBits - 1 \in Nat /\ (IntBits - 1) + 1 = IntBits
    BY WidthFacts
  <2>2. Half = 2 * TwoTo[IntBits - 1] /\ TwoTo[IntBits - 1] \in Nat
    BY <2>1, WidthFacts, TwoToEquations
  <2> QED BY <2>2, BaseFacts
<1> DEFINE g == Half \div 2
<1>3. g \in Int /\ Half = 2 * g
  BY <1>2
<1> HIDE DEF g
<1>4. q \in Int
  BY <1>1 DEF Abs
<1>5. int32(r) = r
  <2>1. -Half <= 2 * r /\ 2 * r < Half
    BY <1>1, <1>2 DEF Abs
  <2> QED BY <1>1, <2>1, IntSmall
<1>6. ASSUME ~(i = -g /\ j = -1) PROVE int32(q) = q
  <2>1. -Half <= 2 * q /\ 2 * q < Half
    <3>1. CASE Abs(j) >= 2
      BY <1>1, <1>2, <1>4, <3>1 DEF Abs
    <3>2. CASE j = 1
      <4>1. r = 0 /\ q * 1 = q
        BY <1>1, <1>4, <3>2 DEF Abs
      <4> QED BY <1>1, <1>4, <3>2, <4>1
    <3>3. CASE j = -1
      <4>1. r = 0 /\ q * (-1) = -q
        BY <1>1, <1>4, <3>3 DEF Abs
      <4>2. q = -i /\ i # -g
        BY <1>1, <1>4, <1>6, <3>3, <4>1
      <4> QED BY <1>3, <4>2
    <3> QED BY <3>1, <3>2, <3>3 DEF Abs
  <2> QED BY <1>4, <2>1, IntSmall
<1> QED BY <1>1, <1>4, <1>5, <1>6 DEF q, r, g

\* Where the host's division does not fault, do_div to do_remu compute what
\* the manual says, do_divw and do_remw with its sign, do_divuw and do_remuw
\* with zeros.
LEMMA DivIs ==
  ASSUME TypeOK, NEW h \in DivOps, ~Faults(h)
  PROVE  /\ DivResult(h) \in Int
         /\ h \in {"div", "divu", "rem", "remu"}
              => target_ulong(DivResult(h))
                   = target_ulong(Computes(h, x, y, LongBits))
         /\ h \in {"divw", "remw"} => SignExtends(DivResult(h), IsaWord(h))
         /\ h \in {"divuw", "remuw"} => ZeroExtends(DivResult(h), IsaWord(h))
<1> DEFINE a == target_long(x)   b == target_long(y)
           i == int32(x)   j == int32(y)   m == x % Half   n == y % Half
           C(op) == Computes(op, m, n, IntBits)
<1>1. x \in Long /\ y \in Long /\ x \in Int /\ y \in Int
  BY Operand
<1>2. a \in Int /\ b \in Int
  BY <1>1, LongFacts
<1>3. /\ i \in Int /\ -Half <= 2 * i /\ 2 * i < Half
      /\ j \in Int /\ -Half <= 2 * j /\ 2 * j < Half
  BY <1>1, IntRange
<1>4. Half \in Nat /\ Half > 0
  BY BaseFacts
<1>5. m \in 0 .. Half - 1 /\ n \in 0 .. Half - 1 /\ m \in Int /\ n \in Int
  BY <1>1, <1>4, DivMod
<1>6. i = Signed(m, Half) /\ j = Signed(n, Half)
  BY <1>1, WordWrap DEF int32
<1>7. CASE h \in {"div", "rem"}
  <2>1. b # 0
    BY <1>7 DEF Faults, Operands
  <2>2. a = Signed(x, TwoTo[LongBits]) /\ b = Signed(y, TwoTo[LongBits])
    BY WidthFacts DEF target_long
  <2>3. x \in 0 .. TwoTo[LongBits] - 1 /\ y \in 0 .. TwoTo[LongBits] - 1
    BY <1>1, WidthFacts DEF Long
  <2>4. /\ h = "div" => DivResult(h) = Quot(a, b)
        /\ h = "rem" => DivResult(h) = Rem(a, b)
    BY <1>7 DEF DivResult, Operands
  <2> HIDE DEF a, b
  <2>5. /\ Computes("div", x, y, LongBits) = Quot(a, b)
        /\ Computes("rem", x, y, LongBits) = Rem(a, b)
    BY <2>1, <2>2, <2>3, WidthFacts, ComputesIs
  <2>6. Quot(a, b) \in Int /\ Rem(a, b) \in Int
    BY <1>2, <2>1, QuotRem DEF Abs
  <2> QED BY <1>7, <2>4, <2>5, <2>6
<1>8. CASE h \in {"divu", "remu"}
  <2>1. y # 0
    BY <1>8 DEF Faults, Operands
  <2>2. x \in 0 .. TwoTo[LongBits] - 1 /\ y \in 0 .. TwoTo[LongBits] - 1
    BY <1>1, WidthFacts DEF Long
  <2>3. /\ h = "divu" => DivResult(h) = Quot(x, y)
        /\ h = "remu" => DivResult(h) = Rem(x, y)
    BY <1>8 DEF DivResult, Operands
  <2>4. /\ Computes("divu", x, y, LongBits) = Quot(x, y)
        /\ Computes("remu", x, y, LongBits) = Rem(x, y)
    BY <2>1, <2>2, WidthFacts, ComputesIs
  <2>5. Quot(x, y) \in Int /\ Rem(x, y) \in Int
    BY <1>1, <2>1, QuotRem DEF Abs
  <2> QED BY <1>8, <2>3, <2>4, <2>5
<1>9. CASE h \in {"divw", "remw"}
  <2>1. j # 0 /\ ~(i = -(Half \div 2) /\ j = -1)
    BY <1>9 DEF Faults, Operands, Least
  <2>2. /\ h = "divw" => DivResult(h) = Quot(i, j)
        /\ h = "remw" => DivResult(h) = Rem(i, j)
    BY <1>9 DEF DivResult, Operands
  <2>3. /\ h = "divw" => IsaWord(h) = Widen(C("div"), IntBits, LongBits)
        /\ h = "remw" => IsaWord(h) = Widen(C("rem"), IntBits, LongBits)
    BY <1>9 DEF IsaWord, WordForm, WordComputes
  <2> HIDE DEF i, j, m, n
  <2>4. C("div") = Quot(i, j) /\ C("rem") = Rem(i, j)
    BY <1>5, <1>6, <2>1, WidthFacts, ComputesIs
  <2>5. /\ Quot(i, j) \in Int /\ int32(Quot(i, j)) = Quot(i, j)
        /\ Rem(i, j) \in Int /\ int32(Rem(i, j)) = Rem(i, j)
    BY <1>3, <2>1, WordQuotient
  <2>6. \A c \in Int : int32(c) = c
          => SignExtends(c, Widen(c, IntBits, LongBits))
    BY Extends
  <2> QED BY <1>9, <2>2, <2>3, <2>4, <2>5, <2>6
<1>10. CASE h \in {"divuw", "remuw"}
  <2>1. n # 0
    BY <1>10 DEF Faults, Operands, uint32
  <2>2. /\ h = "divuw" => DivResult(h) = Quot(m, n)
        /\ h = "remuw" => DivResult(h) = Rem(m, n)
    BY <1>10 DEF DivResult, Operands, uint32
  <2>3. /\ h = "divuw" => IsaWord(h) = Widen(C("divu"), IntBits, LongBits)
        /\ h = "remuw" => IsaWord(h) = Widen(C("remu"), IntBits, LongBits)
    BY <1>10 DEF IsaWord, WordForm, WordComputes
  <2> HIDE DEF m, n
  <2>4. C("divu") = Quot(m, n) /\ C("remu") = Rem(m, n)
    BY <1>5, <1>6, <2>1, WidthFacts, ComputesIs
  <2>5. Quot(m, n) \in 0 .. Half - 1 /\ Rem(m, n) \in 0 .. Half - 1
    <3>1. /\ Quot(m, n) \in -Abs(m) .. Abs(m) /\ Rem(m, n) \in Int
          /\ Quot(m, n) >= 0 /\ Rem(m, n) >= 0 /\ Abs(Rem(m, n)) < Abs(n)
      BY <1>5, <2>1, QuotRem
    <3> QED BY <1>4, <1>5, <2>1, <3>1 DEF Abs
  <2>6. \A c \in 0 .. Half - 1 :
          c \in Int /\ ZeroExtends(c, Widen(c, IntBits, LongBits))
    BY Extends
  <2> QED BY <1>10, <2>2, <2>3, <2>4, <2>5, <2>6
<1> QED BY <1>7, <1>8, <1>9, <1>10 DEF DivOps

-----------------------------------------------------------------------------
(***************************************************************************)
(* Memory.                                                                 *)
(***************************************************************************)
\* Of bytes of memory, bit b is in byte b \div ByteBits.
LEMMA ByteOfBit ==
  ASSUME NEW bytes \in Nat, NEW b \in 0 .. bytes * ByteBits - 1
  PROVE  /\ b \div ByteBits \in 0 .. bytes - 1
         /\ b % ByteBits \in 0 .. ByteBits - 1
         /\ b = ByteBits * (b \div ByteBits) + (b % ByteBits)
<1> DEFINE q == b \div ByteBits   r == b % ByteBits
<1>1. ByteBits \in Nat /\ ByteBits >= 1
  BY WidthFacts
<1>2. bytes * ByteBits = ByteBits * bytes /\ bytes * ByteBits \in Nat
  BY <1>1
<1>3. b \in Int /\ b >= 0 /\ b < ByteBits * bytes
  BY <1>2
<1>4. q \in Int /\ r \in 0 .. ByteBits - 1 /\ b = ByteBits * q + r
  BY <1>1, <1>3, DivMod
<1> HIDE DEF q, r
<1>5. q \in 0 .. bytes - 1
  BY <1>1, <1>3, <1>4, QuotientBound
<1> QED BY <1>4, <1>5 DEF q, r

\* A load from the cell is a number of its width.
LEMMA Loaded ==
  ASSUME TypeOK, NEW address \in Int, NEW bytes \in {1, 2, 4, 8},
         Reach(address, bytes) \subseteq Bytes
  PROVE  /\ cpu_ld(address, bytes) \in 0 .. TwoTo[bytes * ByteBits] - 1
         /\ cpu_ld(address, bytes) \in Int
         /\ bytes * ByteBits \in Nat /\ bytes * ByteBits >= 1
<1> DEFINE w == bytes * ByteBits
           f == [b \in 0 .. w - 1 |->
                   BitOf(mem[Offset(address) + b \div ByteBits], b % ByteBits)]
<1>1. ByteBits \in Nat /\ ByteBits >= 1 /\ bytes \in Nat /\ bytes >= 1
  BY WidthFacts
<1>2. w \in Nat /\ w >= 1
  <2>1. bytes * ByteBits >= ByteBits
    BY <1>1
  <2> QED BY <1>1, <2>1
<1>3. \A b \in 0 .. w - 1 : f[b] \in {0, 1}
  <2> TAKE b \in 0 .. w - 1
  <2> DEFINE r == b % ByteBits
  <2>1. b \div ByteBits \in 0 .. bytes - 1 /\ r \in Nat
    <3>1. b \div ByteBits \in 0 .. bytes - 1 /\ r \in 0 .. ByteBits - 1
      BY <1>1, ByteOfBit
    <3> HIDE DEF r
    <3> QED BY <1>1, <3>1
  <2>2. Offset(address) + b \div ByteBits \in Bytes
    BY <2>1 DEF Reach
  <2>3. mem[Offset(address) + b \div ByteBits] \in Int
    BY <2>2, WidthFacts DEF TypeOK
  <2> QED BY <2>1, <2>3, BitOfType
<1>4. cpu_ld(address, bytes) = OfBits(f, w)
  BY DEF cpu_ld
<1> HIDE DEF f
<1>5. OfBits(f, w) \in 0 .. TwoTo[w] - 1
  <2> HIDE DEF w
  <2> QED BY <1>2, <1>3, OfBitsBits
<1> QED BY <1>2, <1>4, <1>5

\* The cast of a loaded number to a signed type, in the manual's words.
LEMMA Extended ==
  ASSUME NEW n \in Int, NEW v \in Nat, v >= 1
  PROVE  /\ Signed(n, TwoTo[v]) \in Int
         /\ target_ulong(Signed(n, TwoTo[v]))
              = target_ulong(Widen(n, v, LongBits))
<1> DEFINE s == Signed(n, TwoTo[v])
<1>1. s \in Int
  BY TwoToPos, SignedCast
<1>2. Widen(n, v, LongBits) = target_ulong(s)
  BY WidthFacts, WidenIsSigned DEF target_ulong
<1> HIDE DEF s
<1>3. target_ulong(target_ulong(s)) = target_ulong(s)
  BY <1>1, LongFacts
<1> QED BY <1>1, <1>2, <1>3 DEF s

\* A store leaves the value's bits in the bytes it reaches, and bytes
\* everywhere; kept is any number with the same bits.
LEMMA Stored ==
  ASSUME TypeOK, NEW address, NEW bytes \in {1, 2, 4, 8}, NEW value \in Int,
         cpu_st(address, bytes, value),
         NEW kept,
         \A b \in 0 .. bytes * ByteBits - 1 : BitOf(kept, b) = BitOf(value, b)
  PROVE  /\ mem' \in [Bytes -> 0 .. Byte - 1]
         /\ IsaStores(address, bytes, kept)
<1> DEFINE n(k) == k - Offset(address)
           part(k) == Shr(value, n(k) * ByteBits)
<1>1. ByteBits \in Nat /\ ByteBits >= 1 /\ Byte = TwoTo[ByteBits]
      /\ Byte \in Nat /\ Byte > 0
  BY WidthFacts
<1>2. mem' = [k \in Bytes |-> IF n(k) \in 0 .. bytes - 1 THEN part(k) % Byte
                              ELSE mem[k]]
  BY DEF cpu_st
<1>3. ASSUME NEW k, n(k) \in 0 .. bytes - 1
      PROVE  /\ n(k) * ByteBits \in Nat /\ part(k) \in Int
             /\ part(k) % Byte \in 0 .. Byte - 1
             /\ \A b \in 0 .. ByteBits - 1 :
                  BitOf(part(k) % Byte, b) = BitOf(kept, n(k) * ByteBits + b)
  <2> DEFINE m == n(k)   j == m * ByteBits   p == part(k)
  <2>1. m \in 0 .. bytes - 1 /\ m \in Nat
    BY <1>3
  <2> HIDE DEF n
  <2>2. j \in Nat /\ j + ByteBits <= bytes * ByteBits
    <3> HIDE DEF m
    <3>1. j = m * ByteBits
      OBVIOUS
    <3>2. (m + 1) * ByteBits <= bytes * ByteBits
      BY <1>1, <2>1
    <3>3. (m + 1) * ByteBits = m * ByteBits + ByteBits
      BY <1>1, <2>1
    <3> QED BY <1>1, <2>1, <3>1, <3>2, <3>3
  <2>3. p = value \div TwoTo[j]
    BY DEF Shr
  <2> HIDE DEF m, j, part
  <2>4. p \in Int
    BY <2>2, <2>3, TwoToPos, DivMod
  <2>5. p % Byte \in 0 .. Byte - 1
    <3> HIDE DEF p
    <3> QED BY <1>1, <2>4, DivMod
  <2>6. ASSUME NEW b \in 0 .. ByteBits - 1
        PROVE  BitOf(p % Byte, b) = BitOf(kept, j + b)
    <3>1. BitOf(p % TwoTo[ByteBits], b) = BitOf(p, b)
      BY <1>1, <2>4, BitOfMod
    <3>2. BitOf(p, b) = BitOf(value, b + j)
      BY <1>1, <2>2, <2>3, BitOfQuotient
    <3>3. b + j \in 0 .. bytes * ByteBits - 1 /\ b + j = j + b
      BY <1>1, <2>2
    <3> QED BY <1>1, <3>1, <3>2, <3>3
  <2> QED BY <2>2, <2>4, <2>5, <2>6 DEF j, m
<1>4. mem \in [Bytes -> 0 .. Byte - 1]
  BY DEF TypeOK
<1> HIDE DEF part
<1>5. mem' \in [Bytes -> 0 .. Byte - 1]
  BY <1>2, <1>3, <1>4
<1>6. ASSUME NEW k \in Bytes
      PROVE  IF n(k) \in 0 .. bytes - 1
             THEN \A b \in 0 .. ByteBits - 1 :
                    BitOf(mem'[k], b) = BitOf(kept, n(k) * ByteBits + b)
             ELSE mem'[k] = mem[k]
  <2>1. CASE n(k) \in 0 .. bytes - 1
    <3>1. mem'[k] = part(k) % Byte
      BY <1>2, <2>1
    <3> QED BY <1>3, <2>1, <3>1
  <2>2. CASE n(k) \notin 0 .. bytes - 1
    BY <1>2, <2>2
  <2> QED BY <2>1, <2>2
<1>7. IsaStores(address, bytes, kept)
  BY <1>6 DEF IsaStores
<1> QED BY <1>5, <1>7

\* The bytes the instruction of a fresh state reaches.
LEMMA ReachedIs ==
  ASSUME AluInv, at = "ready"
  PROVE  /\ insn.h \in LoadOps => Reach(x + imm, LoadBytes(insn.h)) \subseteq Bytes
         /\ insn.h \in StoreOps => Reach(x + imm, StoreBytes(insn.h)) \subseteq Bytes
         /\ insn.h \in AtomicOps => Reach(x, insn.bytes) \subseteq Bytes
<1> DEFINE s == [insn |-> insn, gpr |-> gpr]
<1>1. Reached(s) \subseteq Bytes
  BY DEF AluInv, Fresh
<1>2. s.insn = insn /\ s.gpr[s.insn.rs1] = x
  BY DEF x
<1>3. \A n : Reach(x + insn.imm, n) = Reach(x + imm, n)
  <2>1. x \in Int /\ insn.imm \in Int /\ imm \in Int
    BY Operand DEF AluInv
  <2>2. target_ulong(imm) = target_ulong(insn.imm)
    BY <2>1, LongFacts DEF imm
  <2>3. target_ulong(x + imm) = target_ulong(x + insn.imm)
    BY <2>1, <2>2, Wrap
  <2> QED BY <2>3 DEF Reach, Offset
<1> HIDE DEF s
<1>4. /\ insn.h \in LoadOps => Reached(s) = Reach(x + insn.imm, LoadBytes(insn.h))
      /\ insn.h \in StoreOps => Reached(s) = Reach(x + insn.imm, StoreBytes(insn.h))
      /\ insn.h \in AtomicOps => Reached(s) = Reach(x, insn.bytes)
  BY <1>2 DEF Reached, LoadOps, StoreOps, AtomicOps, AmoOps
<1> QED BY <1>1, <1>3, <1>4

\* do_lb to do_ld load what the manual says.
LEMMA LoadIs ==
  ASSUME AluInv, at = "ready", insn.h \in LoadOps
  PROVE  /\ LoadResult(insn.h) \in Int
         /\ insn.h \in {"lb", "lh", "lw", "ld"} =>
              target_ulong(LoadResult(insn.h))
                = target_ulong(IsaLoads(LoadBytes(insn.h)))
         /\ insn.h \in {"lbu", "lhu", "lwu"} =>
              LoadResult(insn.h) = cpu_ld(x + imm, LoadBytes(insn.h))
<1> DEFINE bytes == LoadBytes(insn.h)
           v == cpu_ld(x + imm, bytes)
           w == bytes * ByteBits
<1>1. bytes \in {1, 2, 4, 8}
  BY DEF LoadBytes, LoadOps
<1>2. x + imm \in Int
  BY Operand DEF AluInv
<1>3. v \in Int /\ w \in Nat /\ w >= 1
  <2>1. Reach(x + imm, bytes) \subseteq Bytes
    BY ReachedIs
  <2> HIDE DEF bytes
  <2> QED BY <1>1, <1>2, <2>1, Loaded DEF AluInv
<1>4. /\ insn.h \in {"lbu", "lhu", "lwu"} => LoadResult(insn.h) = v
      /\ insn.h \in {"lb", "lh", "lw", "ld"} =>
           LoadResult(insn.h) = Signed(v, TwoTo[w])
  BY DEF LoadResult
<1>5. IsaLoads(bytes) = Widen(v, w, LongBits)
  BY DEF IsaLoads
<1> HIDE DEF bytes, v, w
<1>6. /\ Signed(v, TwoTo[w]) \in Int
      /\ target_ulong(Signed(v, TwoTo[w])) = target_ulong(Widen(v, w, LongBits))
  BY <1>3, Extended
<1> QED BY <1>3, <1>4, <1>5, <1>6 DEF bytes, v, LoadOps

\* What an atomic instruction reads, and its casts.
LEMMA CellIs ==
  ASSUME AluInv, at = "ready", insn.h \in AtomicOps,
         NEW old, old = cpu_ld(x, insn.bytes),
         NEW w, w = insn.bytes * ByteBits
  PROVE  /\ insn.bytes \in {1, 2, 4, 8} /\ w \in Nat /\ w >= 1 /\ w <= LongBits
         /\ Cell = TwoTo[w] /\ Cell \in Nat /\ Cell > 0
         /\ old \in Int /\ old \in 0 .. Cell - 1 /\ int_(old) \in Int
         /\ target_ulong(int_(old)) = target_ulong(Widen(old, w, LongBits))
<1>1. insn.bytes \in {4, 8} /\ x \in Int
  BY Operand DEF AluInv
<1>2. Reach(x, insn.bytes) \subseteq Bytes
  BY ReachedIs
<1>3. insn.bytes \in {1, 2, 4, 8}
  BY <1>1
<1>4. old \in 0 .. TwoTo[w] - 1 /\ old \in Int /\ w \in Nat /\ w >= 1
  BY <1>1, <1>2, <1>3, Loaded DEF AluInv
<1>5. Cell = TwoTo[w]
  BY DEF Cell
<1>6. Cell \in Nat /\ Cell > 0
  BY <1>4, <1>5, TwoToPos
<1>7. w <= LongBits
  BY <1>1, WidthFacts
<1>8. /\ Signed(old, TwoTo[w]) \in Int
      /\ target_ulong(Signed(old, TwoTo[w]))
           = target_ulong(Widen(old, w, LongBits))
  BY <1>4, Extended
<1> QED BY <1>3, <1>4, <1>5, <1>6, <1>7, <1>8 DEF int_

\* do_amoadd_w to do_amomaxu_d store the bits the manual says.
LEMMA AmoIs ==
  ASSUME AluInv, at = "ready", NEW h \in AmoOps, insn.h = h,
         NEW old, old = cpu_ld(x, insn.bytes),
         NEW w, w = insn.bytes * ByteBits
  PROVE  /\ AmoStores(h, old) \in Int
         /\ \A b \in 0 .. w - 1 :
              BitOf(Combines(AmoForm[h], old, y, w), b)
                = BitOf(AmoStores(h, old), b)
<1> DEFINE z == y % TwoTo[w]   m == old % TwoTo[w]
           a == int_(old)   c == int_(y)
           K(op) == Combines(op, old, y, w)
<1>1. /\ w \in Nat /\ w >= 1 /\ w <= LongBits
      /\ Cell = TwoTo[w] /\ Cell \in Nat /\ Cell > 0
      /\ old \in Int /\ old \in 0 .. Cell - 1
  BY CellIs DEF AtomicOps
<1>2. y \in Int
  BY Operand DEF AluInv
<1>3. z \in Int /\ m \in Int /\ a \in Int /\ c \in Int
  <2>1. Signed(old, Cell) \in Int /\ Signed(y, Cell) \in Int
    BY <1>1, <1>2, SignedCast
  <2>2. y % Cell \in 0 .. Cell - 1 /\ old % Cell \in 0 .. Cell - 1
    BY <1>1, <1>2, ModMod
  <2>3. z \in Int /\ m \in Int
    <3> DEFINE p == y % Cell   q == old % Cell
    <3>1. p \in Int /\ q \in Int
      <4>1. p \in 0 .. Cell - 1 /\ q \in 0 .. Cell - 1
        BY <2>2
      <4> HIDE DEF p, q
      <4> QED BY <1>1, <4>1
    <3>2. z = p /\ m = q
      BY <1>1
    <3> HIDE DEF p, q
    <3> QED BY <3>1, <3>2
  <2> QED BY <2>1, <2>3 DEF int_
<1>4. m = old /\ z = uint_(y) /\ m = uint_(old)
  <2>1. old % Cell = old
    BY <1>1, ModSmall
  <2> QED BY <1>1, <2>1 DEF uint_
<1>5. SignedOf(old, w) = a /\ SignedOf(y, w) = c
  BY <1>1, <1>2, SignedOfIsSigned DEF int_
<1>6. \A b \in 0 .. w - 1 : BitOf(z, b) = BitOf(y, b)
  BY <1>1, <1>2, BitOfMod
<1>7. /\ AmoStores("amoadd", old) = old + y
      /\ AmoStores("amoswap", old) = y
      /\ AmoStores("amoxor", old) = BitXor(old, y)
      /\ AmoStores("amoor", old) = BitOr(old, y)
      /\ AmoStores("amoand", old) = BitAnd(old, y)
      /\ AmoStores("amomin", old) = least(a, c)
      /\ AmoStores("amomax", old) = greatest(a, c)
      /\ AmoStores("amominu", old) = least(m, z)
      /\ AmoStores("amomaxu", old) = greatest(m, z)
  <2> HIDE DEF m, z
  <2> QED BY <1>4 DEF AmoStores
<1>8. /\ K("add") = old + z /\ K("swap") = z
      /\ K("xor") = Differ(old, z, w) /\ K("or") = Either(old, z, w)
      /\ K("and") = Both(old, z, w)
  <2>1. K("swap") = z
    BY DEF Combines
  <2>2. /\ K("add") = Computes("add", m, z, w)
        /\ K("xor") = Computes("xor", m, z, w)
        /\ K("or") = Computes("or", m, z, w)
        /\ K("and") = Computes("and", m, z, w)
    BY DEF Combines
  <2> HIDE DEF m, z
  <2>3. /\ Computes("add", m, z, w) = m + z
        /\ Computes("xor", m, z, w) = Differ(m, z, w)
        /\ Computes("or", m, z, w) = Either(m, z, w)
        /\ Computes("and", m, z, w) = Both(m, z, w)
    BY DEF Computes
  <2> QED BY <1>4, <2>1, <2>2, <2>3
<1>9. /\ K("min") = least(a, c) /\ K("max") = greatest(a, c)
      /\ K("minu") = least(m, z) /\ K("maxu") = greatest(m, z)
  <2> HIDE DEF a, c
  <2> QED BY <1>5 DEF Combines, least, greatest
<1> HIDE DEF a, c, m, z, K
<1>10. /\ least(a, c) \in Int /\ greatest(a, c) \in Int
       /\ least(m, z) \in Int /\ greatest(m, z) \in Int
  BY <1>3 DEF least, greatest
<1>11. ASSUME NEW b \in 0 .. w - 1
       PROVE  /\ BitOf(Differ(old, z, w), b) = BitOf(BitXor(old, y), b)
              /\ BitOf(Either(old, z, w), b) = BitOf(BitOr(old, y), b)
              /\ BitOf(Both(old, z, w), b) = BitOf(BitAnd(old, y), b)
  <2>1. b \in 0 .. LongBits - 1 /\ LongBits \in Nat
    BY <1>1, WidthFacts
  <2> DEFINE D == IF BitOf(old, b) = BitOf(y, b) THEN 0 ELSE 1
             E == IF BitOf(old, b) = BitOf(y, b) THEN BitOf(old, b) ELSE 1
             B == BitOf(old, b) * BitOf(y, b)
  <2>2. ASSUME NEW n \in Int, NEW v \in Nat, b \in 0 .. v - 1,
               BitOf(n, b) = BitOf(y, b)
        PROVE  /\ BitOf(Differ(old, n, v), b) = D
               /\ BitOf(Either(old, n, v), b) = E
               /\ BitOf(Both(old, n, v), b) = B
    <3>1. /\ BitOf(Differ(old, n, v), b)
              = IF BitOf(old, b) = BitOf(n, b) THEN 0 ELSE 1
          /\ BitOf(Either(old, n, v), b)
              = IF BitOf(old, b) = BitOf(n, b) THEN BitOf(old, b) ELSE 1
          /\ BitOf(Both(old, n, v), b) = BitOf(old, b) * BitOf(n, b)
      <4>1. old \in Int
        BY <1>1
      <4> HIDE DEF D, E, B
      <4>2. BitOf(Differ(old, n, v), b)
              = IF BitOf(old, b) = BitOf(n, b) THEN 0 ELSE 1
        BY <2>2, <4>1, LogicBits
      <4>3. BitOf(Either(old, n, v), b)
              = IF BitOf(old, b) = BitOf(n, b) THEN BitOf(old, b) ELSE 1
        BY <2>2, <4>1, LogicBits
      <4>4. BitOf(Both(old, n, v), b) = BitOf(old, b) * BitOf(n, b)
        BY <2>2, <4>1, LogicBits
      <4> QED BY <4>2, <4>3, <4>4
    <3> QED BY <2>2, <3>1
  <2>3. BitOf(z, b) = BitOf(y, b)
    BY <1>6
  <2> HIDE DEF D, E, B
  <2>4. /\ BitOf(Differ(old, y, LongBits), b) = D
        /\ BitOf(Either(old, y, LongBits), b) = E
        /\ BitOf(Both(old, y, LongBits), b) = B
    BY <1>2, <2>1, <2>2
  <2>5. /\ BitOf(Differ(old, z, w), b) = D
        /\ BitOf(Either(old, z, w), b) = E
        /\ BitOf(Both(old, z, w), b) = B
    BY <1>1, <1>3, <2>2, <2>3
  <2> QED BY <2>4, <2>5 DEF BitXor, BitOr, BitAnd
<1>12. \A b \in 0 .. w - 1 : BitOf(old + z, b) = BitOf(old + y, b)
  <2>1. Same(z, y, TwoTo[w]) /\ Same(old, old, TwoTo[w])
    <3>1. (y % Cell) % Cell = y % Cell
      BY <1>1, <1>2, ModMod
    <3> QED BY <1>1, <3>1 DEF Same, z
  <2>2. Same(old + z, old + y, TwoTo[w])
    BY <1>1, <1>2, <1>3, <2>1, ModCong
  <2>3. old + z \in Int /\ old + y \in Int
    BY <1>1, <1>2, <1>3
  <2>4. (old + z) % TwoTo[w] = (old + y) % TwoTo[w]
    BY <2>2 DEF Same
  <2> DEFINE p == old + z   q == old + y
  <2>5. p \in Int /\ q \in Int /\ p % TwoTo[w] = q % TwoTo[w]
    BY <2>3, <2>4
  <2> HIDE DEF p, q
  <2>6. \A b \in 0 .. w - 1 : BitOf(p, b) = BitOf(q, b)
    BY <1>1, <2>5, SameBits
  <2> QED BY <2>6 DEF p, q
<1>13. /\ AmoForm["amoadd"] = "add" /\ AmoForm["amoswap"] = "swap"
       /\ AmoForm["amoxor"] = "xor" /\ AmoForm["amoor"] = "or"
       /\ AmoForm["amoand"] = "and" /\ AmoForm["amomin"] = "min"
       /\ AmoForm["amomax"] = "max" /\ AmoForm["amominu"] = "minu"
       /\ AmoForm["amomaxu"] = "maxu"
  BY DEF AmoForm
<1>14. old + y \in Int /\ BitXor(old, y) \in Int /\ BitOr(old, y) \in Int
       /\ BitAnd(old, y) \in Int
  <2>1. old + y \in Int
    BY <1>1, <1>2
  <2>2. old \in Int /\ y \in Int
    BY <1>1, <1>2
  <2> QED BY <2>1, <2>2, BitOps
<1>15. AmoStores(h, old) \in Int
  BY <1>2, <1>7, <1>10, <1>14 DEF AmoOps
<1>16. ASSUME NEW b \in 0 .. w - 1
       PROVE  BitOf(K(AmoForm[h]), b) = BitOf(AmoStores(h, old), b)
  BY <1>6, <1>7, <1>8, <1>9, <1>11, <1>12, <1>13 DEF AmoOps
<1> QED BY <1>15, <1>16 DEF K

-----------------------------------------------------------------------------
(***************************************************************************)
(* CSRs.                                                                   *)
(***************************************************************************)
\* The bits of a complement.
LEMMA Complement ==
  ASSUME NEW n \in Int, NEW b \in 0 .. LongBits - 1
  PROVE  BitOf(Base - 1 - n, b) = 1 - BitOf(n, b)
<1> DEFINE a == TwoTo[b]   q == n \div a   r == n % a
           m == -1 - n   one == 1
<1>1. b \in Nat /\ LongBits \in Nat /\ b < LongBits /\ Base = TwoTo[LongBits]
  BY WidthFacts
<1>2. a \in Nat /\ a > 0
  BY <1>1, TwoToPos
<1>3. q \in Int /\ r \in 0 .. a - 1 /\ n = a * q + r
  <2> HIDE DEF a
  <2> QED BY <1>2, DivMod
<1> HIDE DEF a, q, r
<1>4. m \in Int /\ one \in Int
  OBVIOUS
<1>5. m \div a = -1 - q
  <2> DEFINE p == -1 - q   t == a - 1 - r
  <2>1. p \in Int /\ t \in 0 .. a - 1
    BY <1>2, <1>3
  <2>2. a * p = -a - a * q
    BY <1>2, <1>3
  <2>3. m = a * p + t
    BY <1>2, <1>3, <2>2
  <2> HIDE DEF m, p, t
  <2>4. m \div a = p
    BY <1>2, <1>4, <2>1, <2>3, DivModUnique
  <2> QED BY <2>4 DEF p
<1>6. BitOf(m, b) = 1 - BitOf(n, b)
  <2>1. (-1 - q) % 2 = 1 - (q % 2)
    BY <1>3
  <2> QED BY <1>5, <2>1 DEF BitOf, a, q
<1>7. Base - 1 - n = m + TwoTo[LongBits] * one
  BY <1>1, BaseFacts
<1> HIDE DEF m, one
<1>8. BitOf(m + TwoTo[LongBits] * one, b) = BitOf(m, b)
  BY <1>1, <1>4, BitAddMultiple
<1> QED BY <1>6, <1>7, <1>8

\* The bits of an or, of registers.
LEMMA OrBits ==
  ASSUME NEW m \in Int, NEW n \in Int
  PROVE  /\ BitOr(m, n) \in Long
         /\ \A b \in 0 .. LongBits - 1 :
              BitOf(BitOr(m, n), b)
                = IF BitOf(m, b) = BitOf(n, b) THEN BitOf(m, b) ELSE 1
<1>1. LongBits \in Nat
  BY WidthFacts
<1>2. ASSUME NEW b \in 0 .. LongBits - 1
      PROVE  BitOf(Either(m, n, LongBits), b)
                = IF BitOf(m, b) = BitOf(n, b) THEN BitOf(m, b) ELSE 1
  BY <1>1, LogicBits
<1> QED BY <1>2, BitOps DEF BitOr

\* Two registers with the same bits are the same.
LEMMA SameLong ==
  ASSUME NEW m \in Long, NEW n \in Long,
         \A b \in 0 .. LongBits - 1 : BitOf(m, b) = BitOf(n, b)
  PROVE  m = n
<1>1. m \in Int /\ n \in Int /\ m \in 0 .. Base - 1 /\ n \in 0 .. Base - 1
  BY DEF Long
<1>2. m % TwoTo[LongBits] = n % TwoTo[LongBits]
  BY <1>1, WidthFacts, SameBits
<1>3. m % Base = m /\ n % Base = n
  BY <1>1, BaseFacts, ModSmall
<1> QED BY <1>2, <1>3, WidthFacts

\* rmw_csr takes the bits of the mask from the new value.
LEMMA RmwBits ==
  ASSUME NEW v \in Int, NEW new \in Int, NEW mask \in Int
  PROVE  /\ rmw_csr(v, new, mask) \in Long
         /\ \A b \in 0 .. LongBits - 1 :
              BitOf(rmw_csr(v, new, mask), b)
                = IF BitOf(mask, b) = 1 THEN BitOf(new, b) ELSE BitOf(v, b)
<1> DEFINE c == Base - 1 - mask
           k == BitAnd(v, c)   t == BitAnd(new, mask)
<1>1. c \in Int
  BY BaseFacts
<1>2. \A b \in 0 .. LongBits - 1 : BitOf(c, b) = 1 - BitOf(mask, b)
  BY Complement
<1> HIDE DEF c
<1>3. k \in Int /\ t \in Int
  BY <1>1, BitOps
<1>4. rmw_csr(v, new, mask) = BitOr(k, t)
  BY DEF rmw_csr, c
<1>5. BitOr(k, t) \in Long
  <2> HIDE DEF k, t
  <2> QED BY <1>3, BitOps
<1>6. ASSUME NEW b \in 0 .. LongBits - 1
      PROVE  BitOf(BitOr(k, t), b)
               = IF BitOf(mask, b) = 1 THEN BitOf(new, b) ELSE BitOf(v, b)
  <2>1. BitOf(k, b) = BitOf(v, b) * BitOf(c, b)
    BY <1>1, WidthFacts, LogicBits DEF BitAnd
  <2>2. BitOf(t, b) = BitOf(new, b) * BitOf(mask, b)
    BY WidthFacts, LogicBits DEF BitAnd
  <2> HIDE DEF k, t
  <2>3. BitOf(BitOr(k, t), b)
          = IF BitOf(k, b) = BitOf(t, b) THEN BitOf(k, b) ELSE 1
    BY <1>3, OrBits
  <2>4. /\ BitOf(v, b) \in {0, 1} /\ BitOf(new, b) \in {0, 1}
        /\ BitOf(mask, b) \in {0, 1}
    BY BitOfType
  <2>5. BitOf(c, b) = 1 - BitOf(mask, b)
    BY <1>2
  <2> QED BY <2>1, <2>2, <2>3, <2>4, <2>5
<1> QED BY <1>4, <1>5, <1>6

\* The values the six handlers leave in a CSR, in the manual's words.
LEMMA RmwIs ==
  ASSUME NEW v \in Long, NEW source \in Long
  PROVE  /\ rmw_csr(v, source, Base - 1) = source
         /\ rmw_csr(v, Base - 1, source) = Either(v, source, LongBits)
         /\ rmw_csr(v, 0, source)
              = OfBits([b \in 0 .. LongBits - 1 |->
                          IF BitOf(source, b) = 1 THEN 0 ELSE BitOf(v, b)],
                       LongBits)
         /\ source = 0 => /\ rmw_csr(v, Base - 1, source) = v
                          /\ rmw_csr(v, 0, source) = v
<1> DEFINE ones == Base - 1   zero == 0
           f == [b \in 0 .. LongBits - 1 |->
                   IF BitOf(source, b) = 1 THEN 0 ELSE BitOf(v, b)]
           r1 == rmw_csr(v, source, ones)
           r2 == rmw_csr(v, ones, source)
           r3 == rmw_csr(v, zero, source)
           e == Either(v, source, LongBits)
           g == OfBits(f, LongBits)
<1>1. v \in Int /\ source \in Int /\ ones \in Int /\ zero \in Int
  BY BaseFacts DEF Long
<1>2. \A b \in 0 .. LongBits - 1 : BitOf(zero, b) = 0
  <2>1. \A b \in 0 .. LongBits - 1 : BitOf(0, b) = 0
    <3> TAKE b \in 0 .. LongBits - 1
    <3> DEFINE a == TwoTo[b]
    <3>1. a \in Nat /\ a > 0
      BY TwoToPos
    <3> HIDE DEF a
    <3>2. 0 \div a = 0
      BY <3>1
    <3> QED BY <3>2 DEF BitOf, a
  <2> QED BY <2>1
<1>3. \A b \in 0 .. LongBits - 1 : BitOf(ones, b) = 1
  <2> TAKE b \in 0 .. LongBits - 1
  <2>1. BitOf(Base - 1 - zero, b) = 1 - BitOf(zero, b)
    BY <1>1, Complement
  <2>2. Base - 1 - zero = ones
    BY BaseFacts
  <2> QED BY <1>2, <2>1, <2>2
<1>4. \A b \in 0 .. LongBits - 1 :
        BitOf(v, b) \in {0, 1} /\ BitOf(source, b) \in {0, 1}
  BY <1>1, BitOfType
<1> HIDE DEF ones, zero
<1>5. /\ r1 \in Long /\ r2 \in Long /\ r3 \in Long
      /\ \A b \in 0 .. LongBits - 1 :
           /\ BitOf(r1, b)
                = IF BitOf(ones, b) = 1 THEN BitOf(source, b) ELSE BitOf(v, b)
           /\ BitOf(r2, b)
                = IF BitOf(source, b) = 1 THEN BitOf(ones, b) ELSE BitOf(v, b)
           /\ BitOf(r3, b)
                = IF BitOf(source, b) = 1 THEN BitOf(zero, b) ELSE BitOf(v, b)
  BY <1>1, RmwBits
<1>6. /\ e \in Long
      /\ \A b \in 0 .. LongBits - 1 :
           BitOf(e, b) = IF BitOf(v, b) = BitOf(source, b) THEN BitOf(v, b)
                         ELSE 1
  <2>1. e = BitOr(v, source)
    BY DEF BitOr
  <2> HIDE DEF e
  <2> QED BY <1>1, <2>1, OrBits
<1>7. /\ g \in Long
      /\ \A b \in 0 .. LongBits - 1 :
           BitOf(g, b) = IF BitOf(source, b) = 1 THEN 0 ELSE BitOf(v, b)
  <2>1. \A b \in 0 .. LongBits - 1 :
          /\ f[b] = IF BitOf(source, b) = 1 THEN 0 ELSE BitOf(v, b)
          /\ f[b] \in {0, 1}
    BY <1>4
  <2> HIDE DEF f
  <2>2. /\ OfBits(f, LongBits) \in 0 .. TwoTo[LongBits] - 1
        /\ \A b \in 0 .. LongBits - 1 : BitOf(OfBits(f, LongBits), b) = f[b]
    BY <2>1, WidthFacts, OfBitsBits
  <2> QED BY <2>1, <2>2, WidthFacts DEF Long
<1>8. source = 0 => \A b \in 0 .. LongBits - 1 : BitOf(source, b) = 0
  BY <1>2 DEF zero
<1> HIDE DEF r1, r2, r3, e, g
<1>9. r1 = source
  BY <1>3, <1>5, SameLong
<1>10. r2 = e
  <2>1. \A b \in 0 .. LongBits - 1 : BitOf(r2, b) = BitOf(e, b)
    BY <1>3, <1>4, <1>5, <1>6
  <2> QED BY <1>5, <1>6, <2>1, SameLong
<1>11. r3 = g
  <2>1. \A b \in 0 .. LongBits - 1 : BitOf(r3, b) = BitOf(g, b)
    BY <1>2, <1>5, <1>7
  <2> QED BY <1>5, <1>7, <2>1, SameLong
<1>12. source = 0 => r2 = v /\ r3 = v
  <2> SUFFICES ASSUME source = 0 PROVE r2 = v /\ r3 = v
    OBVIOUS
  <2>1. \A b \in 0 .. LongBits - 1 :
          BitOf(r2, b) = BitOf(v, b) /\ BitOf(r3, b) = BitOf(v, b)
    BY <1>5, <1>8
  <2> QED BY <1>5, <2>1, SameLong
<1> QED BY <1>9, <1>10, <1>11, <1>12 DEF r1, r2, r3, e, g, f, ones, zero

-----------------------------------------------------------------------------
(***************************************************************************)
(* The instructions.                                                       *)
(***************************************************************************)
\* The word divisions, and the handlers that extend with zeros.
WordDivOps == {"divw", "divuw", "remw", "remuw"}
ZeroOps == {"slliw", "srliw", "sllw", "srlw", "divuw", "remuw"}

\* The new value of rd in the manual, by the kind of the handler.
LEMMA IsaRdIs ==
  /\ insn.h \in ImmOps => IsaRd = Computes(ImmForm[insn.h], x, imm, LongBits)
  /\ insn.h \in WordOps \cup WordDivOps \cup {"mulw"} => IsaRd = IsaWord(insn.h)
  /\ insn.h \in AluOps \cup (MulOps \ {"mulw"}) \cup (DivOps \ WordDivOps)
       => IsaRd = Computes(insn.h, x, y, LongBits)
  /\ insn.h = "lui" => IsaRd = imm
  /\ insn.h = "auipc" => IsaRd = iaddr + imm
  /\ insn.h \in JumpOps => IsaRd = iaddr + IsaLen
  /\ insn.h \in {"lb", "lh", "lw", "ld"} => IsaRd = IsaLoads(LoadBytes(insn.h))
  /\ insn.h \in {"lbu", "lhu", "lwu"} =>
       IsaRd = cpu_ld(x + imm, LoadBytes(insn.h))
  /\ insn.h \in AmoOps \cup {"lr"} =>
       IsaRd = Widen(cpu_ld(x, insn.bytes), insn.bytes * ByteBits, LongBits)
  /\ insn.h = "sc" => IsaRd = One(~reserved)
  /\ insn.h \in CsrOps => IsaRd = Shown[insn.csr]
<1>1. /\ DOMAIN ImmForm = ImmOps
      /\ DOMAIN WordForm \cup DOMAIN WordImmForm
           = WordOps \cup WordDivOps \cup {"mulw"}
      /\ DOMAIN WordForm = {"addw", "subw", "sllw", "srlw", "sraw", "mulw",
                            "divw", "divuw", "remw", "remuw"}
      /\ DOMAIN WordImmForm = {"addiw", "slliw", "srliw", "sraiw"}
  BY DEF ImmForm, WordForm, WordImmForm, ImmOps, WordOps, WordDivOps
<1>2. CASE insn.h \in ImmOps
  BY <1>1, <1>2 DEF IsaRd, ImmOps, WordOps, WordDivOps, AluOps, MulOps, DivOps,
     JumpOps, AmoOps, CsrOps
<1>3. CASE insn.h \in WordOps \cup WordDivOps \cup {"mulw"}
  <2>1. insn.h \notin ImmOps
    BY <1>3 DEF ImmOps, WordOps, WordDivOps
  <2>2. IsaRd = IsaWord(insn.h)
    <3>1. insn.h \notin DOMAIN ImmForm
      BY <1>1, <2>1
    <3>2. insn.h \notin {"lui", "auipc", "lb", "lh", "lw", "ld", "lbu", "lhu",
                         "lwu", "lr", "sc"} \cup JumpOps \cup AmoOps \cup CsrOps
      BY <1>3 DEF WordOps, WordDivOps, JumpOps, AmoOps, CsrOps
    <3>3. CASE insn.h \in DOMAIN WordForm
      <4>1. insn.h \notin DOMAIN WordImmForm
        BY <1>1, <3>3
      <4> QED BY <3>1, <3>2, <3>3, <4>1 DEF IsaRd, IsaWord, JumpOps
    <3>4. CASE insn.h \notin DOMAIN WordForm
      <4>1. insn.h \in DOMAIN WordImmForm
        BY <1>1, <1>3, <3>4
      <4> QED BY <3>1, <3>2, <3>4, <4>1 DEF IsaRd, IsaWord, JumpOps
    <3> QED BY <3>3, <3>4
  <2> QED BY <1>3, <2>1, <2>2 DEF WordOps, WordDivOps, AluOps, MulOps, DivOps,
     JumpOps, AmoOps, CsrOps
<1>4. CASE insn.h \notin ImmOps \cup WordOps \cup WordDivOps \cup {"mulw"}
  <2>1. insn.h \notin DOMAIN ImmForm /\ insn.h \notin DOMAIN WordForm
        /\ insn.h \notin DOMAIN WordImmForm
    BY <1>1, <1>4
  <2> QED BY <1>4, <2>1
      DEF IsaRd, AluOps, MulOps, DivOps, WordDivOps, JumpOps, AmoOps, CsrOps
<1> QED BY <1>2, <1>3, <1>4

\* Put writes one register.
LEMMA PutTyped ==
  ASSUME TypeOK, NEW v \in Int, Put(v)
  PROVE  /\ gpr' \in [Gprs -> Long]
         /\ gpr'[insn.rd] = target_ulong(v)
         /\ \A r \in Gprs : r # insn.rd => gpr'[r] = gpr[r]
BY Operand, LongFacts DEF Put

(***************************************************************************)
(* A handler that puts v in rd, where the manual has IsaRd: as the manual  *)
(* has it, or extended with zeros.                                         *)
(***************************************************************************)
LEMMA PutResults ==
  ASSUME AluInv, at = "ready", at' = "ran", NEW v \in Int, Put(v),
         insn.h \notin BranchOps \cup StoreOps,
         ~IsaTraps, ~StaleView, ~HostDivides, ~StoresUnconditionally,
         insn.h \in ZeroOps =>
           (target_ulong(v) = target_ulong(IsaRd)
              <=> ~(2 * target_ulong(v) >= Half)),
         insn.h \notin ZeroOps => target_ulong(v) = target_ulong(IsaRd)
  PROVE  ResultsStep
<1> DEFINE t == target_ulong(v)   w == target_ulong(IsaRd)
<1>1. /\ gpr \in [Gprs -> Long] /\ insn.rd \in Gprs /\ 0 \in Gprs
      /\ gpr' \in [Gprs -> Long] /\ gpr'[insn.rd] = t
      /\ gpr' = [gpr EXCEPT ![insn.rd] = t] /\ gpr[0] = 0
  <2>1. TypeOK /\ gpr[0] = 0 /\ 0 \in Gprs
    BY DEF AluInv, Fresh, Gprs
  <2>2. gpr' = [gpr EXCEPT ![insn.rd] = t]
    BY DEF Put
  <2>3. gpr' \in [Gprs -> Long] /\ gpr'[insn.rd] = t
    BY <2>1, PutTyped
  <2> QED BY <2>1, <2>2, <2>3, Operand
<1>2. ~ReadOnlyWritten /\ ~MisalignedAtomic
  BY DEF ReadOnlyWritten, IsaTraps, IsaIllegal
<1>3. WordZeroExtended <=> insn.h \in ZeroOps /\ insn.rd # 0 /\ 2 * t >= Half
  BY <1>1 DEF WordZeroExtended, ZeroOps
<1>4. CASE insn.rd = 0
  <2>1. IsaGpr = gpr
    BY <1>4 DEF IsaGpr
  <2>2. gpr' = gpr <=> t = 0
    BY <1>1, <1>4
  <2>3. ZeroWritten <=> t # 0
    BY <1>1, <1>4 DEF ZeroWritten
  <2> HIDE DEF t
  <2> QED BY <1>2, <1>3, <1>4, <2>1, <2>2, <2>3 DEF ResultsStep
<1>5. CASE insn.rd # 0
  <2>1. IsaGpr = [gpr EXCEPT ![insn.rd] = w]
    BY <1>5 DEF IsaGpr
  <2>2. gpr' = IsaGpr <=> t = w
    <3> HIDE DEF t, w
    <3> QED BY <1>1, <2>1
  <2>3. ~ZeroWritten
    BY <1>5 DEF ZeroWritten
  <2>4. t = w <=> ~WordZeroExtended
    BY <1>3, <1>5
  <2> HIDE DEF t, w
  <2> QED BY <1>2, <2>2, <2>3, <2>4 DEF ResultsStep
<1> QED BY <1>4, <1>5

\* A handler that leaves the registers alone, as the manual does.
LEMMA KeptResults ==
  ASSUME AluInv, at = "ready", at' = "ran", gpr' = gpr,
         insn.h \in BranchOps \cup StoreOps \/ insn.rd = 0 \/ IsaTraps,
         insn.h \notin ZeroOps, ~StaleView, ~HostDivides,
         ~StoresUnconditionally
  PROVE  ResultsStep
<1>1. IsaGpr = gpr
  BY DEF IsaGpr
<1>2. ~ZeroWritten /\ ~WordZeroExtended
  BY DEF ZeroWritten, WordZeroExtended, ZeroOps, AluInv, Fresh
<1> QED BY <1>1, <1>2 DEF ResultsStep

\* A handler of neither a jump, a branch nor a CSR leaves the control alone.
LEMMA PlainControl ==
  ASSUME AluInv, at = "ready",
         insn.h \notin JumpOps \cup BranchOps \cup CsrOps,
         ~MisalignedAtomic, pc' = pc, exception' = exception
  PROVE  ControlStep
<1>1. /\ ~IsaCsrWrites /\ ~IsaIllegal /\ ~LinkBeforeBase /\ ~ReadOnlyWritten
      /\ ~IllegalElsewhere /\ ~IsaTraps
  BY DEF IsaCsrWrites, IsaIllegal, LinkBeforeBase, ReadOnlyWritten, JumpOps,
         IllegalElsewhere, IsaTraps
<1>2. IsaPc = pc /\ IsaException = "none"
  BY <1>1 DEF IsaPc, IsaException, JumpOps
<1>3. exception' = "none"
  BY DEF AluInv, Fresh
<1> QED BY <1>1, <1>2, <1>3 DEF ControlStep

\* In a state of the ISA vstart is an index, and the others fit too.
LEMMA CoherentFits ==
  ASSUME TypeOK, Coherent
  PROVE  /\ csr["vstart"] = csr["vstart"] % VLMAX
         /\ csr["vstart"] \in Int /\ csr["vstart"] < VLMAX
<1>1. csr["vstart"] \in Int /\ VLMAX \in Nat /\ VLMAX > 0
  BY WidthAssumption, BaseFacts DEF TypeOK, KnownCsr, Long
<1>2. csr["vstart"] = csr["vstart"] % VLMAX
  <2>1. csr["vstart"] = Shown["vstart"] /\ "vstart" \in KnownCsr
    BY DEF Coherent, KnownCsr
  <2> QED BY <2>1 DEF Shown, Views, Size
<1>3. csr["vstart"] % VLMAX \in 0 .. VLMAX - 1
  BY <1>1, DivMod
<1> QED BY <1>1, <1>2, <1>3

\* CSRs that both leave alone.
LEMMA KeptCsrs ==
  ASSUME TypeOK, csr' = csr, insn.h \in CsrOps => insn.csr \notin KnownCsr
  PROVE  CsrStep
<1>1. ~IsaCsrWrites \/ IsaIllegal
  BY Operand DEF IsaCsrWrites, IsaIllegal
<1>2. IsaCsr = csr /\ ~ViewChanged
  BY <1>1 DEF IsaCsr, ViewChanged
<1>3. ~ReadOnlyWritten \/ csr' = csr
  OBVIOUS
<1>4. Coherent => ~VstartTooWide
  <2> SUFFICES ASSUME Coherent PROVE ~(csr["vstart"] >= VLMAX)
    BY DEF VstartTooWide
  <2> QED BY CoherentFits, WidthAssumption, BaseFacts
<1> QED BY <1>2, <1>4 DEF CsrStep

\* A handler that stores nothing leaves the memory alone.
LEMMA PlainMemory ==
  ASSUME mem' = mem, insn.h \notin StoreOps \cup AmoOps \cup {"sc"}
  PROVE  MemoryStep
BY DEF MemoryStep, IsaMem, StoresUnconditionally

\* A handler keeps the types, and does what the properties say.
StepIsRight ==
  /\ TypeOK' /\ at' # "ready"
  /\ ResultsStep /\ ControlStep /\ CsrStep /\ MemoryStep

\* A misaligned atomic access traps in the manual, whatever the handler does.
LEMMA MisalignedStep ==
  ASSUME AluInv, at = "ready", at' = "ran", TypeOK', MisalignedAtomic,
         UNCHANGED <<csr, pc, exception>>
  PROVE  StepIsRight
<1>1. /\ insn.h \notin CsrOps \cup JumpOps \cup BranchOps \cup StoreOps
      /\ insn.h \notin DivOps \cup ZeroOps /\ IsaTraps
  BY DEF MisalignedAtomic, IsaTraps, AtomicOps, AmoOps, CsrOps, JumpOps,
         BranchOps, StoreOps, DivOps, ZeroOps
<1>2. /\ ~IsaIllegal /\ ~ReadOnlyWritten /\ ~StaleView
      /\ ~StoresUnconditionally /\ ~HostDivides /\ ~WordZeroExtended
  BY <1>1 DEF IsaIllegal, IsaCsrWrites, ReadOnlyWritten, StaleView, ZeroOps,
     StoresUnconditionally, HostDivides, WordZeroExtended
<1>3. ResultsStep
  <2>1. IsaGpr = gpr
    BY <1>1 DEF IsaGpr
  <2>2. gpr' = gpr => ~ZeroWritten
    BY DEF ZeroWritten, AluInv, Fresh
  <2> QED BY <1>2, <2>1, <2>2 DEF ResultsStep
<1>4. ControlStep
  <2>1. exception' # IsaException
    BY <1>2 DEF IsaException, AluInv, Fresh
  <2> QED BY <2>1 DEF ControlStep
<1>5. CsrStep
  BY <1>1, KeptCsrs DEF AluInv
<1>6. MemoryStep
  BY <1>2 DEF MemoryStep, IsaMem
<1> QED BY <1>3, <1>4, <1>5, <1>6 DEF StepIsRight

\* The handlers that write more than rd.
Others == JumpOps \cup BranchOps \cup CsrOps \cup StoreOps \cup AmoOps \cup {"sc"}

\* The handlers that only put a value in rd.
LEMMA RdStep ==
  ASSUME AluInv, at = "ready", at' = "ran", UNCHANGED <<insn, iaddr, reserved>>, OnlyRd,
         NEW v \in Int, Put(v),
         insn.h \notin Others, ~MisalignedAtomic, ~HostDivides,
         insn.h \in ZeroOps =>
           (target_ulong(v) = target_ulong(IsaRd)
              <=> ~(2 * target_ulong(v) >= Half)),
         insn.h \notin ZeroOps => target_ulong(v) = target_ulong(IsaRd)
  PROVE  StepIsRight
<1>1. TypeOK
  BY DEF AluInv
<1>2. TypeOK'
  <2>1. gpr' \in [Gprs -> Long]
    BY <1>1, PutTyped
  <2> QED BY <1>1, <2>1 DEF TypeOK, OnlyRd
<1>3. /\ ~IsaTraps /\ ~MisalignedAtomic /\ ~StaleView
      /\ ~StoresUnconditionally
  BY DEF IsaTraps, IsaIllegal, IsaCsrWrites, MisalignedAtomic, StaleView,
         StoresUnconditionally, Others
<1>4. ResultsStep
  BY <1>3, PutResults DEF Others
<1>5. ControlStep /\ CsrStep
  BY PlainControl, KeptCsrs DEF OnlyRd, Others, AluInv
<1>6. MemoryStep
  BY PlainMemory DEF OnlyRd, Others
<1> QED BY <1>2, <1>4, <1>5, <1>6 DEF StepIsRight

\* do_auipc, do_lui
LEMMA UpperStep == ASSUME AluInv, DoUpper PROVE StepIsRight
<1> DEFINE v == IF insn.h = "lui" THEN imm ELSE insn.pc + imm
<1>1. /\ at = "ready" /\ at' = "ran" /\ UNCHANGED <<insn, iaddr, reserved>> /\ OnlyRd
      /\ insn.h \in {"auipc", "lui"} /\ Put(v)
  BY DEF DoUpper, Ran
<1>2. v \in Int
  BY Operand DEF AluInv
<1>3. IsaRd = v
  <2>1. insn.h = "auipc" => insn.pc = iaddr
    BY <1>1 DEF AluInv, Fresh, PcOps
  <2> QED BY <1>1, <2>1, IsaRdIs
<1>4. insn.h \notin Others /\ insn.h \notin ZeroOps /\ ~HostDivides
      /\ ~MisalignedAtomic
  BY <1>1 DEF MisalignedAtomic, AtomicOps, Others, JumpOps, BranchOps, CsrOps, StoreOps, AmoOps, ZeroOps,
              HostDivides, DivOps
<1> HIDE DEF v
<1> QED BY <1>1, <1>2, <1>3, <1>4, RdStep

\* do_add to do_and
LEMMA AluStep == ASSUME AluInv, DoAlu PROVE StepIsRight
<1> DEFINE v == AluResult(insn.h)
<1>1. /\ at = "ready" /\ at' = "ran" /\ UNCHANGED <<insn, iaddr, reserved>> /\ OnlyRd
      /\ insn.h \in AluOps /\ Put(v)
  BY DEF DoAlu, Ran
<1>2. /\ v \in Int
      /\ target_ulong(v) = target_ulong(Computes(insn.h, x, y, LongBits))
  BY <1>1, AluIs DEF AluInv
<1>3. IsaRd = Computes(insn.h, x, y, LongBits)
  BY <1>1, IsaRdIs
<1>4. insn.h \notin Others /\ insn.h \notin ZeroOps /\ ~HostDivides
      /\ ~MisalignedAtomic
  BY <1>1 DEF MisalignedAtomic, AtomicOps, Others, JumpOps, BranchOps, CsrOps, StoreOps, AmoOps, ZeroOps,
              HostDivides, DivOps, AluOps
<1> HIDE DEF v
<1> QED BY <1>1, <1>2, <1>3, <1>4, RdStep

\* do_addi to do_srai
LEMMA ImmStep == ASSUME AluInv, DoImm PROVE StepIsRight
<1> DEFINE v == ImmResult(insn.h)
           w == Computes(ImmForm[insn.h], x, imm, LongBits)
<1>1. /\ at = "ready" /\ at' = "ran" /\ UNCHANGED <<insn, iaddr, reserved>> /\ OnlyRd
      /\ insn.h \in ImmOps /\ Put(v)
  BY DEF DoImm, Ran
<1>2. v \in Int /\ target_ulong(v) = target_ulong(w)
  BY <1>1, ImmIs DEF AluInv
<1>3. IsaRd = w
  BY <1>1, IsaRdIs
<1>4. insn.h \notin Others /\ insn.h \notin ZeroOps /\ ~HostDivides
      /\ ~MisalignedAtomic
  BY <1>1 DEF MisalignedAtomic, AtomicOps, Others, JumpOps, BranchOps, CsrOps, StoreOps, AmoOps, ZeroOps,
              HostDivides, DivOps, ImmOps
<1> HIDE DEF v, w
<1> QED BY <1>1, <1>2, <1>3, <1>4, RdStep

\* What is extended with zeros is what RdStep asks of it.
LEMMA ExtendsStep ==
  ASSUME NEW v, NEW w
  PROVE  /\ SignExtends(v, w) => target_ulong(v) = target_ulong(w)
         /\ ZeroExtends(v, w) =>
              (target_ulong(v) = target_ulong(w)
                 <=> ~(2 * target_ulong(v) >= Half))
BY DEF SignExtends, ZeroExtends

\* do_addiw to do_sraw
LEMMA WordStep == ASSUME AluInv, DoWord PROVE StepIsRight
<1> DEFINE v == WordResult(insn.h)
<1>1. /\ at = "ready" /\ at' = "ran" /\ UNCHANGED <<insn, iaddr, reserved>> /\ OnlyRd
      /\ insn.h \in WordOps /\ Put(v)
  BY DEF DoWord, Ran
<1>2. /\ v \in Int
      /\ insn.h \in SignExtending => SignExtends(v, IsaWord(insn.h))
      /\ insn.h \in ZeroExtending => ZeroExtends(v, IsaWord(insn.h))
  BY <1>1, WordIs DEF AluInv
<1>3. IsaRd = IsaWord(insn.h)
  BY <1>1, IsaRdIs
<1>4. insn.h \notin Others /\ ~HostDivides /\ ~MisalignedAtomic
  BY <1>1 DEF MisalignedAtomic, AtomicOps, Others, JumpOps, BranchOps, CsrOps, StoreOps, AmoOps,
              HostDivides, DivOps, WordOps
<1>5. /\ insn.h \in ZeroOps => insn.h \in ZeroExtending
      /\ insn.h \notin ZeroOps => insn.h \in SignExtending
  BY <1>1 DEF WordOps, ZeroOps, ZeroExtending, SignExtending
<1> HIDE DEF v
<1>6. /\ insn.h \in ZeroOps =>
           (target_ulong(v) = target_ulong(IsaRd)
              <=> ~(2 * target_ulong(v) >= Half))
      /\ insn.h \notin ZeroOps => target_ulong(v) = target_ulong(IsaRd)
  BY <1>2, <1>3, <1>5, ExtendsStep
<1> QED BY <1>1, <1>2, <1>4, <1>6, RdStep

\* do_mul to do_mulhu, do_mulw
LEMMA MulsStep == ASSUME AluInv, DoMul PROVE StepIsRight
<1> DEFINE v == MulResult(insn.h)
<1>1. /\ at = "ready" /\ at' = "ran" /\ UNCHANGED <<insn, iaddr, reserved>> /\ OnlyRd
      /\ insn.h \in MulOps /\ Put(v)
  BY DEF DoMul, Ran
<1>2. /\ v \in Int
      /\ insn.h = "mulw" => SignExtends(v, IsaWord(insn.h))
      /\ insn.h # "mulw" => target_ulong(v)
                              = target_ulong(Computes(insn.h, x, y, LongBits))
  BY <1>1, MulIs DEF AluInv
<1>3. /\ insn.h = "mulw" => IsaRd = IsaWord(insn.h)
      /\ insn.h # "mulw" => IsaRd = Computes(insn.h, x, y, LongBits)
  BY <1>1, IsaRdIs
<1>4. insn.h \notin Others /\ insn.h \notin ZeroOps /\ ~HostDivides
      /\ ~MisalignedAtomic
  BY <1>1 DEF MisalignedAtomic, AtomicOps, Others, JumpOps, BranchOps, CsrOps, StoreOps, AmoOps, ZeroOps,
              HostDivides, DivOps, MulOps
<1> HIDE DEF v
<1>5. target_ulong(v) = target_ulong(IsaRd)
  BY <1>2, <1>3, ExtendsStep
<1> QED BY <1>1, <1>2, <1>4, <1>5, RdStep

\* do_div to do_remuw, where the host's division does not fault
LEMMA DivStep == ASSUME AluInv, DoDiv PROVE StepIsRight
<1> DEFINE v == DivResult(insn.h)
<1>1. /\ at = "ready" /\ at' = "ran" /\ UNCHANGED <<insn, iaddr, reserved>> /\ OnlyRd
      /\ insn.h \in DivOps /\ Put(v) /\ ~Faults(insn.h)
  BY DEF DoDiv, Ran
<1>2. /\ v \in Int
      /\ insn.h \in {"div", "divu", "rem", "remu"} =>
           target_ulong(v) = target_ulong(Computes(insn.h, x, y, LongBits))
      /\ insn.h \in {"divw", "remw"} => SignExtends(v, IsaWord(insn.h))
      /\ insn.h \in {"divuw", "remuw"} => ZeroExtends(v, IsaWord(insn.h))
  BY <1>1, DivIs DEF AluInv
<1>3. /\ insn.h \in WordDivOps => IsaRd = IsaWord(insn.h)
      /\ insn.h \notin WordDivOps => IsaRd = Computes(insn.h, x, y, LongBits)
  BY <1>1, IsaRdIs
<1>4. insn.h \notin Others /\ ~HostDivides /\ ~MisalignedAtomic
  BY <1>1 DEF MisalignedAtomic, AtomicOps, Others, JumpOps, BranchOps, CsrOps, StoreOps, AmoOps, DivOps,
              HostDivides
<1>5. /\ insn.h \in ZeroOps => insn.h \in {"divuw", "remuw"}
      /\ insn.h \in WordDivOps /\ insn.h \notin ZeroOps
           => insn.h \in {"divw", "remw"}
      /\ insn.h \notin WordDivOps => insn.h \in {"div", "divu", "rem", "remu"}
      /\ insn.h \in {"divuw", "remuw"} => insn.h \in WordDivOps
      /\ insn.h \in {"div", "divu", "rem", "remu"} => insn.h \notin ZeroOps
  BY <1>1 DEF DivOps, ZeroOps, WordDivOps
<1> HIDE DEF v
<1>6. /\ insn.h \in ZeroOps =>
           (target_ulong(v) = target_ulong(IsaRd)
              <=> ~(2 * target_ulong(v) >= Half))
      /\ insn.h \notin ZeroOps => target_ulong(v) = target_ulong(IsaRd)
  BY <1>2, <1>3, <1>5, ExtendsStep
<1> QED BY <1>1, <1>2, <1>4, <1>6, RdStep

\* do_lb to do_ld
LEMMA LoadStep == ASSUME AluInv, DoLoad PROVE StepIsRight
<1> DEFINE v == LoadResult(insn.h)
<1>1. /\ at = "ready" /\ at' = "ran" /\ UNCHANGED <<insn, iaddr, reserved>> /\ OnlyRd
      /\ insn.h \in LoadOps /\ Put(v)
  BY DEF DoLoad, Ran
<1>2. /\ v \in Int
      /\ insn.h \in {"lb", "lh", "lw", "ld"} =>
           target_ulong(v) = target_ulong(IsaLoads(LoadBytes(insn.h)))
      /\ insn.h \in {"lbu", "lhu", "lwu"} =>
           v = cpu_ld(x + imm, LoadBytes(insn.h))
  BY <1>1, LoadIs
<1> HIDE DEF v
<1>3. target_ulong(v) = target_ulong(IsaRd)
  <2>1. CASE insn.h \in {"lb", "lh", "lw", "ld"}
    BY <1>2, <2>1, IsaRdIs
  <2>2. CASE insn.h \in {"lbu", "lhu", "lwu"}
    BY <1>2, <2>2, IsaRdIs
  <2> QED BY <1>1, <2>1, <2>2 DEF LoadOps
<1>4. insn.h \notin Others /\ insn.h \notin ZeroOps /\ ~HostDivides
      /\ ~MisalignedAtomic
  BY <1>1 DEF MisalignedAtomic, AtomicOps, Others, JumpOps, BranchOps, CsrOps, StoreOps, AmoOps, ZeroOps,
              HostDivides, DivOps, LoadOps
<1> QED BY <1>1, <1>2, <1>3, <1>4, RdStep

\* do_lr_w, do_lr_d
LEMMA LrStep == ASSUME AluInv, DoLr PROVE StepIsRight
<1> DEFINE old == cpu_ld(x, insn.bytes)
           w == insn.bytes * ByteBits
           v == int_(old)
<1>1. /\ at = "ready" /\ at' = "ran" /\ UNCHANGED <<insn, iaddr, reserved>> /\ OnlyRd
      /\ insn.h = "lr" /\ Put(v)
  BY DEF DoLr, Ran
<1>2. v \in Int /\ target_ulong(v) = target_ulong(Widen(old, w, LongBits))
  <2>1. insn.h \in AtomicOps
    BY <1>1 DEF AtomicOps
  <2> QED BY <1>1, <2>1, CellIs
<1>3. IsaRd = Widen(old, w, LongBits)
  BY <1>1, IsaRdIs
<1>4. insn.h \notin Others /\ insn.h \notin ZeroOps /\ ~HostDivides
  BY <1>1 DEF Others, JumpOps, BranchOps, CsrOps, StoreOps, AmoOps, ZeroOps,
              HostDivides, DivOps
<1> HIDE DEF v, old, w
<1>5. CASE MisalignedAtomic
  <2>1. gpr' \in [Gprs -> Long]
    BY <1>1, <1>2, PutTyped DEF AluInv
  <2>2. TypeOK'
    BY <1>1, <2>1 DEF AluInv, TypeOK, OnlyRd
  <2> QED BY <1>1, <1>5, <2>2, MisalignedStep DEF OnlyRd
<1>6. CASE ~MisalignedAtomic
  BY <1>1, <1>2, <1>3, <1>4, <1>6, RdStep
<1> QED BY <1>5, <1>6

\* do_sb to do_sd
LEMMA StoreStep == ASSUME AluInv, DoStore PROVE StepIsRight
<1> DEFINE bytes == StoreBytes(insn.h)   address == x + imm
<1>1. /\ at = "ready" /\ at' = "ran" /\ UNCHANGED <<insn, iaddr, reserved>>
      /\ UNCHANGED <<gpr, csr, pc, exception>>
      /\ insn.h \in StoreOps /\ cpu_st(address, bytes, y)
  BY DEF DoStore, Ran
<1>2. TypeOK /\ y \in Int
  BY Operand DEF AluInv
<1>3. bytes \in {1, 2, 4, 8}
  BY <1>1 DEF StoreBytes, StoreOps
<1> HIDE DEF bytes, address
<1>4. mem' \in [Bytes -> 0 .. Byte - 1] /\ IsaStores(address, bytes, y)
  BY <1>1, <1>2, <1>3, Stored
<1>5. TypeOK'
  BY <1>1, <1>2, <1>4 DEF TypeOK
<1>6. insn.h \notin JumpOps \cup BranchOps \cup CsrOps /\ insn.h \notin ZeroOps
      /\ ~HostDivides /\ ~StoresUnconditionally /\ ~StaleView
      /\ ~MisalignedAtomic
  BY <1>1 DEF MisalignedAtomic, AtomicOps, AmoOps, StaleView, JumpOps, BranchOps, CsrOps, StoreOps, ZeroOps, HostDivides, DivOps,
              StoresUnconditionally
<1>7. ResultsStep
  BY <1>1, <1>6, KeptResults
<1>8. ControlStep /\ CsrStep
  BY <1>1, <1>2, <1>6, PlainControl, KeptCsrs
<1>9. MemoryStep
  <2>1. insn.h # "sc" /\ insn.h \notin AmoOps
    BY <1>1 DEF StoreOps, AmoOps
  <2>2. IsaMem
    BY <1>1, <1>4, <1>6, <2>1 DEF IsaMem, bytes, address
  <2> QED BY <1>6, <2>2 DEF MemoryStep
<1> QED BY <1>1, <1>5, <1>7, <1>8, <1>9 DEF StepIsRight

\* do_amoadd_w to do_amomaxu_d
LEMMA AmoStep == ASSUME AluInv, DoAmo PROVE StepIsRight
<1> DEFINE old == cpu_ld(x, insn.bytes)
           w == insn.bytes * ByteBits
           v == int_(old)
           stored == AmoStores(insn.h, old)
           kept == Combines(AmoForm[insn.h], old, y, w)
<1>1. /\ at = "ready" /\ at' = "ran" /\ UNCHANGED <<insn, iaddr, reserved>>
      /\ UNCHANGED <<csr, pc, exception>>
      /\ insn.h \in AmoOps /\ Put(v) /\ cpu_st(x, insn.bytes, stored)
  BY DEF DoAmo, Ran
<1>2. TypeOK
  BY DEF AluInv
<1>3. /\ v \in Int /\ insn.bytes \in {1, 2, 4, 8}
      /\ target_ulong(v) = target_ulong(Widen(old, w, LongBits))
  <2>1. insn.h \in AtomicOps
    BY <1>1 DEF AtomicOps
  <2> QED BY <1>1, <2>1, CellIs
<1>4. /\ stored \in Int
      /\ \A b \in 0 .. w - 1 : BitOf(kept, b) = BitOf(stored, b)
  BY <1>1, AmoIs
<1>5. IsaRd = Widen(old, w, LongBits)
  BY <1>1, IsaRdIs
<1>6. ~MisalignedAtomic => (IsaMem <=> IsaStores(x, insn.bytes, kept))
  <2>1. insn.h # "sc" /\ insn.h \notin StoreOps
    BY <1>1 DEF StoreOps, AmoOps
  <2> QED BY <1>1, <2>1 DEF IsaMem
<1> HIDE DEF stored, kept, old, v
<1>7. mem' \in [Bytes -> 0 .. Byte - 1] /\ IsaStores(x, insn.bytes, kept)
  BY <1>1, <1>2, <1>3, <1>4, Stored
<1> HIDE DEF w
<1>8. TypeOK'
  <2>1. gpr' \in [Gprs -> Long]
    BY <1>1, <1>2, <1>3, PutTyped
  <2> QED BY <1>1, <1>2, <1>7, <2>1 DEF TypeOK
<1>9. insn.h \notin JumpOps \cup BranchOps \cup CsrOps \cup StoreOps
      /\ insn.h \notin ZeroOps
      /\ ~HostDivides /\ ~StoresUnconditionally /\ ~IsaIllegal /\ ~StaleView
  BY <1>1 DEF StaleView, JumpOps, BranchOps, CsrOps, StoreOps, AmoOps, ZeroOps,
              HostDivides, DivOps, StoresUnconditionally, IsaIllegal,
              IsaCsrWrites
<1>10. CASE MisalignedAtomic
  BY <1>1, <1>8, <1>10, MisalignedStep
<1>11. ASSUME ~MisalignedAtomic PROVE ResultsStep
  <2>1. target_ulong(v) = target_ulong(IsaRd)
    BY <1>3, <1>5
  <2> QED BY <1>1, <1>3, <1>9, <1>11, <2>1, PutResults DEF IsaTraps
<1>12. ASSUME ~MisalignedAtomic PROVE ControlStep /\ CsrStep
  BY <1>1, <1>2, <1>9, <1>12, PlainControl, KeptCsrs
<1>13. ASSUME ~MisalignedAtomic PROVE MemoryStep
  BY <1>6, <1>7, <1>9, <1>13 DEF MemoryStep
<1> QED BY <1>1, <1>8, <1>10, <1>11, <1>12, <1>13 DEF StepIsRight

\* do_sc_w, do_sc_d: right with a reservation, and the exception without.
LEMMA ScStep == ASSUME AluInv, DoSc PROVE StepIsRight
<1>1. /\ at = "ready" /\ at' = "ran" /\ UNCHANGED <<insn, iaddr, reserved>>
      /\ UNCHANGED <<csr, pc, exception>>
      /\ insn.h = "sc" /\ Put(0) /\ cpu_st(x, insn.bytes, y)
  BY DEF DoSc, Ran
<1>2. TypeOK /\ y \in Int /\ insn.bytes \in {4, 8} /\ 0 \in Int
      /\ insn.rd \in Gprs /\ gpr \in [Gprs -> Long]
  BY Operand DEF AluInv
<1>3. mem' \in [Bytes -> 0 .. Byte - 1] /\ IsaStores(x, insn.bytes, y)
  <2>1. insn.bytes \in {1, 2, 4, 8}
    BY <1>2
  <2> QED BY <1>1, <1>2, <2>1, Stored
<1>4. TypeOK'
  <2>1. gpr' \in [Gprs -> Long]
    BY <1>1, <1>2, PutTyped
  <2> QED BY <1>1, <1>2, <1>3, <2>1 DEF TypeOK
<1>5. insn.h \notin JumpOps \cup BranchOps \cup CsrOps \cup StoreOps \cup AmoOps
      /\ insn.h \notin ZeroOps /\ ~HostDivides /\ ~IsaIllegal /\ ~StaleView
  BY <1>1 DEF StaleView, JumpOps, BranchOps, CsrOps, StoreOps, AmoOps, ZeroOps,
              HostDivides, DivOps, IsaIllegal, IsaCsrWrites
<1>6. CASE MisalignedAtomic
  BY <1>1, <1>4, <1>6, MisalignedStep
<1> SUFFICES ASSUME ~MisalignedAtomic PROVE StepIsRight
  BY <1>6
<1>7. ~IsaTraps
  BY <1>5 DEF IsaTraps
<1>8. IsaRd = One(~reserved)
  BY <1>1, IsaRdIs
<1>9. target_ulong(0) = 0 /\ target_ulong(1) = 1
  <2>1. 0 \in 0 .. Base - 1 /\ 1 \in 0 .. Base - 1
    BY BaseFacts
  <2> QED BY <2>1, BaseFacts, ModSmall DEF target_ulong
<1>10. ResultsStep
  <2>1. CASE reserved
    <3>1. IsaRd = 0 /\ ~StoresUnconditionally
      BY <1>8, <2>1 DEF One, StoresUnconditionally
    <3> QED BY <1>1, <1>2, <1>5, <1>7, <3>1, PutResults
  <2>2. CASE ~reserved
    <3>1. gpr' = [gpr EXCEPT ![insn.rd] = 0] /\ gpr[0] = 0
      BY <1>1, <1>9 DEF Put, AluInv, Fresh
    <3>2. ~WordZeroExtended /\ ~ReadOnlyWritten /\ StoresUnconditionally
      BY <1>1, <1>5, <2>2 DEF WordZeroExtended, ReadOnlyWritten,
         IsaCsrWrites, StoresUnconditionally, ZeroOps
    <3>3. CASE insn.rd = 0
      <4>1. gpr' = gpr /\ gpr'[0] = 0
        BY <1>2, <3>1, <3>3
      <4>2. IsaGpr = gpr
        BY <3>3 DEF IsaGpr
      <4> QED BY <1>1, <1>5, <3>2, <3>3, <4>1, <4>2 DEF ResultsStep, ZeroWritten
    <3>4. CASE insn.rd # 0
      <4>1. IsaGpr = [gpr EXCEPT ![insn.rd] = 1]
        BY <1>5, <1>8, <1>9, <1>7, <2>2, <3>4 DEF IsaGpr, One
      <4>2. gpr' # IsaGpr
        BY <1>2, <3>1, <4>1
      <4> QED BY <3>2, <3>4, <4>2 DEF ResultsStep
    <3> QED BY <3>3, <3>4
  <2> QED BY <2>1, <2>2
<1>11. ControlStep /\ CsrStep
  BY <1>1, <1>2, <1>5, PlainControl, KeptCsrs
<1>12. MemoryStep
  <2>1. IsaMem <=> IF reserved THEN IsaStores(x, insn.bytes, y) ELSE mem' = mem
    BY <1>1, <1>5 DEF IsaMem
  <2> QED BY <1>1, <1>3, <2>1 DEF MemoryStep, StoresUnconditionally
<1> QED BY <1>1, <1>4, <1>10, <1>11, <1>12 DEF StepIsRight

\* The division that faults ends the emulator.
LEMMA KilledStep == ASSUME AluInv, DoDivKilled PROVE StepIsRight
<1>1. /\ at = "ready" /\ at' = "killed" /\ insn.h \in DivOps /\ HostDivides
      /\ UNCHANGED <<insn, gpr, mem, csr, pc, exception, iaddr, reserved>>
  BY DEF DoDivKilled, HostDivides
<1>2. TypeOK'
  BY <1>1 DEF AluInv, TypeOK
<1>3. insn.h \notin Others
  BY <1>1 DEF Others, JumpOps, BranchOps, CsrOps, StoreOps, AmoOps, DivOps
<1>4. ResultsStep
  BY <1>1 DEF ResultsStep
<1>5. ControlStep /\ CsrStep
  <2>1. ~MisalignedAtomic
    BY <1>1 DEF MisalignedAtomic, AtomicOps, AmoOps, DivOps
  <2> QED BY <1>1, <1>3, <2>1, PlainControl, KeptCsrs DEF Others, AluInv
<1>6. MemoryStep
  BY <1>1, <1>3, PlainMemory DEF Others
<1> QED BY <1>1, <1>2, <1>4, <1>5, <1>6 DEF StepIsRight

-----------------------------------------------------------------------------
\* do_beq to do_c_bne
LEMMA BranchStep == ASSUME AluInv, DoBranch PROVE StepIsRight
<1> DEFINE len == IF insn.h \in {"c_beq", "c_bne"} THEN 2 ELSE 4
           a == target_long(x)   b == target_long(y)
<1>1. /\ at = "ready" /\ at' = "ran" /\ UNCHANGED <<insn, iaddr, reserved>>
      /\ UNCHANGED <<gpr, mem, csr, exception>> /\ insn.h \in BranchOps
      /\ pc' = target_ulong(iaddr + (IF Taken(insn.h) THEN imm ELSE len))
  <2>1. insn.h \in BranchOps => insn.pc = iaddr
    BY DEF DoBranch, Ran, AluInv, Fresh, PcOps
  <2> QED BY <2>1 DEF DoBranch, Ran
<1>2. /\ TypeOK /\ x \in Int /\ y \in Int /\ imm \in Int /\ iaddr \in Int
      /\ len \in Int
  BY Operand DEF AluInv
<1>3. len = IsaLen
  BY <1>1 DEF IsaLen, BranchOps
<1>4. a \in Int /\ b \in Int /\ SignedOf(x, LongBits) = a
      /\ SignedOf(y, LongBits) = b
  BY <1>2, LongFacts
<1> HIDE DEF a, b
<1>5. Taken(insn.h) <=> IsaTaken
  <2>1. IsaTaken <=>
          \/ insn.h \in {"beq", "c_beq"} /\ x = y
          \/ insn.h \in {"bne", "c_bne"} /\ x # y
          \/ insn.h = "blt" /\ a < b
          \/ insn.h = "bge" /\ ~(a < b)
          \/ insn.h = "bltu" /\ x < y
          \/ insn.h = "bgeu" /\ ~(x < y)
    BY <1>4 DEF IsaTaken
  <2>2. /\ insn.h \in {"beq", "c_beq"} => (Taken(insn.h) <=> x = y)
        /\ insn.h \in {"bne", "c_bne"} => (Taken(insn.h) <=> x # y)
        /\ insn.h = "blt" => (Taken(insn.h) <=> a < b)
        /\ insn.h = "bge" => (Taken(insn.h) <=> a >= b)
        /\ insn.h = "bltu" => (Taken(insn.h) <=> x < y)
        /\ insn.h = "bgeu" => (Taken(insn.h) <=> x >= y)
    BY DEF Taken, a, b
  <2>3. (a >= b <=> ~(a < b)) /\ (x >= y <=> ~(x < y))
    BY <1>2, <1>4
  <2> QED BY <1>1, <2>1, <2>2, <2>3 DEF BranchOps
<1> HIDE DEF len
<1>6. pc' \in Long
  <2>1. iaddr + (IF Taken(insn.h) THEN imm ELSE len) \in Int
    BY <1>2
  <2> QED BY <1>1, <2>1, LongFacts
<1>7. TypeOK'
  BY <1>1, <1>2, <1>6 DEF TypeOK
<1>8. /\ insn.h \notin JumpOps \cup CsrOps \cup StoreOps \cup AmoOps \cup {"sc"}
      /\ insn.h \notin ZeroOps /\ ~HostDivides /\ ~StoresUnconditionally
      /\ ~IsaTraps /\ ~IsaIllegal /\ ~MisalignedAtomic /\ ~LinkBeforeBase
      /\ ~ReadOnlyWritten /\ ~IllegalElsewhere /\ ~StaleView
  BY <1>1 DEF IsaTraps, MisalignedAtomic, AtomicOps, IllegalElsewhere, StaleView,
     JumpOps, BranchOps, CsrOps, StoreOps, AmoOps, ZeroOps, HostDivides,
     DivOps, StoresUnconditionally, IsaIllegal, IsaCsrWrites, LinkBeforeBase,
     ReadOnlyWritten
<1>9. ResultsStep
  BY <1>1, <1>8, KeptResults
<1>10. ControlStep
  <2>1. IsaPc = target_ulong(iaddr + (IF IsaTaken THEN imm ELSE IsaLen))
    BY <1>1, <1>8 DEF IsaPc, JumpOps
  <2>2. IsaException = "none" /\ exception' = "none"
    BY <1>1, <1>8 DEF IsaException, AluInv, Fresh
  <2> QED BY <1>1, <1>3, <1>5, <1>8, <2>1, <2>2 DEF ControlStep
<1>11. MemoryStep
  BY <1>1, <1>8, PlainMemory
<1>12. CsrStep
  BY <1>1, <1>2, <1>8, KeptCsrs
<1> QED BY <1>1, <1>7, <1>9, <1>10, <1>11, <1>12 DEF StepIsRight

\* The link a jump leaves is the manual's.
LEMMA LinkIs ==
  ASSUME AluInv, at = "ready", at' = "ran", insn.h \in JumpOps, Link(IsaLen)
  PROVE  /\ gpr' \in [Gprs -> Long] /\ ResultsStep
         /\ gpr'[insn.rs1] = IF insn.rd # 0 /\ insn.rd = insn.rs1
                             THEN target_ulong(iaddr + IsaLen) ELSE x
<1>1. TypeOK /\ insn.rd \in Gprs /\ insn.rs1 \in Gprs /\ iaddr \in Int
      /\ gpr \in [Gprs -> Long] /\ insn.pc = iaddr
  BY Operand DEF AluInv, Fresh, PcOps
<1>2. iaddr + IsaLen \in Int
  BY <1>1 DEF IsaLen
<1>3. /\ insn.h \notin BranchOps \cup StoreOps \cup CsrOps \cup ZeroOps
      /\ insn.h # "sc" /\ ~HostDivides /\ ~StoresUnconditionally
      /\ ~IsaTraps /\ ~StaleView
  BY DEF IsaTraps, MisalignedAtomic, AtomicOps, AmoOps, StaleView, JumpOps, BranchOps, StoreOps, CsrOps, ZeroOps, HostDivides, DivOps,
         StoresUnconditionally, IsaIllegal, IsaCsrWrites
<1>4. IsaRd = iaddr + IsaLen
  BY IsaRdIs
<1>5. CASE insn.rd = 0
  <2>1. gpr' = gpr
    BY <1>5 DEF Link
  <2>2. ResultsStep
    BY <1>3, <1>5, <2>1, KeptResults
  <2> QED BY <1>1, <1>5, <2>1, <2>2 DEF x
<1>6. CASE insn.rd # 0
  <2>1. Put(iaddr + IsaLen)
    BY <1>1, <1>6 DEF Link
  <2>2. /\ gpr' \in [Gprs -> Long]
        /\ gpr'[insn.rd] = target_ulong(iaddr + IsaLen)
        /\ \A r \in Gprs : r # insn.rd => gpr'[r] = gpr[r]
    BY <1>1, <1>2, <2>1, PutTyped
  <2>3. ResultsStep
    BY <1>2, <1>3, <1>4, <2>1, PutResults
  <2> QED BY <1>1, <1>6, <2>2, <2>3 DEF x
<1> QED BY <1>5, <1>6

\* A jump changes the control in its pc only.
LEMMA JumpControl ==
  ASSUME AluInv, at = "ready", insn.h \in JumpOps,
         csr' = csr, exception' = exception
  PROVE  /\ ControlStep <=> (pc' = IsaPc <=> ~LinkBeforeBase)
         /\ CsrStep /\ ~IsaTraps /\ insn.pc = iaddr
<1>1. /\ ~IsaIllegal /\ ~MisalignedAtomic /\ ~ReadOnlyWritten
      /\ ~IllegalElsewhere /\ insn.h \notin CsrOps
  BY DEF IsaCsrWrites, IsaIllegal, MisalignedAtomic, AtomicOps, AmoOps,
         ReadOnlyWritten, IllegalElsewhere, JumpOps, CsrOps
<1>2. IsaException = "none" /\ exception' = "none"
  BY <1>1 DEF IsaException, AluInv, Fresh
<1>3. CsrStep
  BY <1>1, KeptCsrs DEF AluInv
<1>4. insn.pc = iaddr
  BY DEF AluInv, Fresh, PcOps
<1> QED BY <1>1, <1>2, <1>3, <1>4 DEF ControlStep, IsaTraps

\* do_jal, do_c_jal
LEMMA JalStep == ASSUME AluInv, DoJal PROVE StepIsRight
<1>1. /\ at = "ready" /\ at' = "ran" /\ UNCHANGED <<insn, iaddr, reserved>>
      /\ UNCHANGED <<mem, csr, exception>> /\ insn.h \in {"jal", "c_jal"}
      /\ Link(IsaLen) /\ pc' = target_ulong(insn.pc + imm)
  BY DEF DoJal, Ran, IsaLen
<1>2. insn.h \in JumpOps /\ insn.h \notin StoreOps \cup AmoOps \cup {"sc"}
  BY <1>1 DEF JumpOps, StoreOps, AmoOps
<1>3. gpr' \in [Gprs -> Long] /\ ResultsStep
  BY <1>1, <1>2, LinkIs
<1>4. TypeOK'
  <2>1. insn.pc + imm \in Int
    BY Operand DEF AluInv
  <2>2. pc' \in Long
    BY <1>1, <2>1, LongFacts
  <2> QED BY <1>1, <1>3, <2>2 DEF AluInv, TypeOK
<1>5. ControlStep /\ CsrStep
  <2>1. pc' = IsaPc /\ ~LinkBeforeBase
    BY <1>1, <1>2, JumpControl DEF IsaPc, LinkBeforeBase, BranchOps
  <2> QED BY <1>1, <1>2, <2>1, JumpControl
<1>6. MemoryStep
  BY <1>1, <1>2, PlainMemory
<1> QED BY <1>1, <1>3, <1>4, <1>5, <1>6 DEF StepIsRight

\* Clearing the low bit.
LEMMA EvenPart ==
  ASSUME NEW t \in Long
  PROVE  /\ 2 * (t \div 2) \in Long /\ t - (t % 2) = 2 * (t \div 2)
         /\ t \div 2 \in Int
BY BaseFacts DEF Long

\* do_jalr, do_c_jalr: right, but through its own link.
LEMMA JalrStep == ASSUME AluInv, DoJalr PROVE StepIsRight
<1> DEFINE t == target_ulong(gpr'[insn.rs1] + imm)
           i == target_ulong(x + imm)
           l == target_ulong(iaddr + IsaLen + imm)
<1>1. /\ at = "ready" /\ at' = "ran" /\ UNCHANGED <<insn, iaddr, reserved>>
      /\ UNCHANGED <<mem, csr, exception>> /\ insn.h \in {"jalr", "c_jalr"}
      /\ Link(IsaLen) /\ pc' = 2 * (t \div 2)
  BY DEF DoJalr, Ran, IsaLen
<1>2. insn.h \in JumpOps /\ insn.h \notin StoreOps \cup AmoOps \cup {"sc"}
  BY <1>1 DEF JumpOps, StoreOps, AmoOps
<1>3. /\ gpr' \in [Gprs -> Long] /\ ResultsStep
      /\ gpr'[insn.rs1] = IF insn.rd # 0 /\ insn.rd = insn.rs1
                          THEN target_ulong(iaddr + IsaLen) ELSE x
  BY <1>1, <1>2, LinkIs
<1>4. x \in Int /\ imm \in Int /\ iaddr \in Int /\ iaddr + IsaLen \in Int
      /\ iaddr + IsaLen + imm \in Int /\ x + imm \in Int
  BY Operand DEF AluInv, IsaLen
<1>5. t = IF insn.rd # 0 /\ insn.rd = insn.rs1 THEN l ELSE i
  <2>1. CASE insn.rd # 0 /\ insn.rd = insn.rs1
    <3> DEFINE p == iaddr + IsaLen   u == target_ulong(p)
    <3>1. p \in Int /\ u \in Int /\ target_ulong(u) = target_ulong(p)
      BY <1>4, LongFacts DEF Long
    <3>2. gpr'[insn.rs1] = u
      BY <1>3, <2>1
    <3> HIDE DEF u, p
    <3>3. target_ulong(u + imm) = target_ulong(p + imm)
      BY <1>4, <3>1, Wrap
    <3> QED BY <2>1, <3>2, <3>3 DEF p
  <2>2. CASE ~(insn.rd # 0 /\ insn.rd = insn.rs1)
    BY <1>3, <2>2
  <2> QED BY <2>1, <2>2
<1>6. i \in Long /\ l \in Long
  BY <1>4, LongFacts
<1>7. IsaPc = i - (i % 2)
  BY <1>1, <1>2, JumpControl DEF IsaPc, BranchOps
<1>8. LinkBeforeBase <=>
        insn.rd # 0 /\ insn.rd = insn.rs1 /\ i \div 2 # l \div 2
  BY <1>1 DEF LinkBeforeBase
<1> HIDE DEF t, i, l
<1>9. /\ i - (i % 2) = 2 * (i \div 2) /\ i \div 2 \in Int
      /\ l \div 2 \in Int /\ t \in Long /\ 2 * (t \div 2) \in Long
  BY <1>5, <1>6, EvenPart
<1>10. TypeOK'
  BY <1>1, <1>3, <1>9 DEF AluInv, TypeOK
<1>11. ControlStep /\ CsrStep
  <2> DEFINE p == i \div 2   q == l \div 2
  <2>1. p \in Int /\ q \in Int /\ IsaPc = 2 * p
    BY <1>7, <1>9
  <2>2. pc' = 2 * (IF insn.rd # 0 /\ insn.rd = insn.rs1 THEN q ELSE p)
    BY <1>1, <1>5
  <2>3. LinkBeforeBase <=> insn.rd # 0 /\ insn.rd = insn.rs1 /\ p # q
    BY <1>8
  <2> HIDE DEF p, q
  <2>4. pc' = IsaPc <=> ~LinkBeforeBase
    BY <2>1, <2>2, <2>3
  <2> QED BY <1>1, <1>2, <2>4, JumpControl
<1>12. MemoryStep
  BY <1>1, <1>2, PlainMemory
<1> QED BY <1>1, <1>3, <1>10, <1>11, <1>12 DEF StepIsRight

-----------------------------------------------------------------------------
\* An unknown CSR is illegal for both, and reported from the slot's pc.
LEMMA CsrUnknownStep == ASSUME AluInv, DoCsrUnknown PROVE StepIsRight
<1>1. /\ at = "ready" /\ at' = "ran" /\ UNCHANGED <<insn, iaddr, reserved>>
      /\ UNCHANGED <<gpr, mem, csr>> /\ insn.h \in CsrOps /\ pc' = insn.pc
      /\ insn.csr \notin KnownCsr /\ exception' = "illegal"
  BY DEF DoCsrUnknown, Ran
<1>2. insn.csr = "unknown" /\ TypeOK /\ insn.pc \in Long
  BY <1>1, Operand DEF AluInv
<1>3. TypeOK'
  BY <1>1, <1>2 DEF TypeOK
<1>4. IsaIllegal /\ IsaTraps /\ ~ReadOnlyWritten /\ ~StaleView
  BY <1>1, <1>2 DEF IsaIllegal, IsaTraps, ReadOnlyWritten, ReadOnlyCsr, StaleView
<1>5. insn.h \notin JumpOps \cup BranchOps \cup StoreOps \cup AmoOps \cup {"sc"}
      /\ insn.h \notin ZeroOps /\ ~HostDivides /\ ~StoresUnconditionally
      /\ ~LinkBeforeBase /\ ~MisalignedAtomic
  BY <1>1 DEF JumpOps, BranchOps, CsrOps, StoreOps, AmoOps, ZeroOps, HostDivides,
     DivOps, StoresUnconditionally, LinkBeforeBase, MisalignedAtomic, AtomicOps
<1>6. ResultsStep
  BY <1>1, <1>4, <1>5, KeptResults
<1>7. ControlStep
  <2>1. IsaPc = iaddr /\ IsaException = "illegal"
    BY <1>4 DEF IsaPc, IsaException
  <2>2. IllegalElsewhere <=> insn.pc # iaddr
    BY <1>1, <1>2 DEF IllegalElsewhere
  <2> QED BY <1>1, <1>4, <1>5, <2>1, <2>2 DEF ControlStep
<1>8. MemoryStep
  BY <1>1, <1>5, PlainMemory
<1>9. CsrStep
  BY <1>1, <1>2, KeptCsrs
<1> QED BY <1>1, <1>3, <1>6, <1>7, <1>8, <1>9 DEF StepIsRight

-----------------------------------------------------------------------------
\* A CSR of two parts is the sum of what it shows of them.
LEMMA PartsMakeWhole ==
  ASSUME NEW n \in Int
  PROVE  /\ n % 256 = ((n \div 32) % 8) * 32 + (n % 32)
         /\ n % 8 = ((n \div 2) % 4) * 2 + (n % 2)
         /\ n % 32 \in 0 .. 31 /\ (n \div 32) % 8 \in 0 .. 7
         /\ n % 2 \in 0 .. 1 /\ (n \div 2) % 4 \in 0 .. 3
OBVIOUS

\* The parts and the whole of fcsr and vcsr fit each other in any view.
Fit(g) ==
  /\ g["fflags"] = g["fcsr"] % 32 /\ g["frm"] = (g["fcsr"] \div 32) % 8
  /\ g["fcsr"] = g["frm"] * 32 + g["fflags"]
  /\ g["vxsat"] = g["vcsr"] % 2 /\ g["vxrm"] = (g["vcsr"] \div 2) % 4
  /\ g["vcsr"] = g["vxrm"] * 2 + g["vxsat"]

LEMMA ViewsFit ==
  ASSUME NEW f \in Int, NEW v \in Int, NEW own
  PROVE  Fit(Views(f, v, own))
<1> DEFINE g == Views(f, v, own)
<1>1. /\ g["fflags"] = f % 32 /\ g["frm"] = (f \div 32) % 8
      /\ g["fcsr"] = f % 256
      /\ g["vxsat"] = v % 2 /\ g["vxrm"] = (v \div 2) % 4 /\ g["vcsr"] = v % 8
  BY DEF Views, KnownCsr
<1> HIDE DEF g
<1>2. /\ (f % 256) % 32 = f % 32 /\ ((f % 256) \div 32) % 8 = (f \div 32) % 8
      /\ (v % 8) % 2 = v % 2 /\ ((v % 8) \div 2) % 4 = (v \div 2) % 4
  OBVIOUS
<1>3. /\ g["fflags"] = g["fcsr"] % 32 /\ g["frm"] = (g["fcsr"] \div 32) % 8
      /\ g["vxsat"] = g["vcsr"] % 2 /\ g["vxrm"] = (g["vcsr"] \div 2) % 4
  BY <1>1, <1>2
<1>4. /\ f % 256 = ((f \div 32) % 8) * 32 + (f % 32)
      /\ v % 8 = ((v \div 2) % 4) * 2 + (v % 2)
  BY PartsMakeWhole
<1>5. /\ g["fcsr"] = g["frm"] * 32 + g["fflags"]
      /\ g["vcsr"] = g["vxrm"] * 2 + g["vxsat"]
  BY <1>1, <1>4
<1>6. Fit(g)
  BY <1>3, <1>5 DEF Fit
<1> QED BY <1>6 DEF g

\* What a CSR shows is a number of a register.
LEMMA ShownFits ==
  ASSUME TypeOK, NEW c \in KnownCsr
  PROVE  Shown[c] \in Long /\ target_ulong(Shown[c]) = Shown[c]
<1> DEFINE f == csr["fcsr"]   v == csr["vcsr"]
<1>1. /\ f \in Int /\ v \in Int /\ csr[c] \in Int /\ Base \in Nat /\ Base >= 256
      /\ VLMAX \in Nat /\ VLMAX > 0 /\ VLMAX <= Base
  BY WidthAssumption, BaseFacts DEF TypeOK, KnownCsr, Long
<1>2. Shown[c] = CASE c = "fflags" -> f % 32
                   [] c = "frm"    -> (f \div 32) % 8
                   [] c = "fcsr"   -> f % 256
                   [] c = "vxsat"  -> v % 2
                   [] c = "vxrm"   -> (v \div 2) % 4
                   [] c = "vcsr"   -> v % 8
                   [] OTHER        -> csr[c] % Size(c)
  BY DEF Shown, Views
<1>3. c \notin FloatViews \cup VectorViews => Size(c) \in 1 .. Base
  BY <1>1 DEF Size, FloatViews, VectorViews
<1>4. ASSUME NEW n \in Int, NEW m \in 1 .. Base
      PROVE  n % m \in 0 .. Base - 1
  <2>1. m \in Nat /\ m > 0
    BY <1>1
  <2>2. n % m \in 0 .. m - 1
    BY <2>1, DivMod
  <2> QED BY <1>1, <2>2
<1> HIDE DEF f, v
<1>5. f \div 32 \in Int /\ v \div 2 \in Int
  BY <1>1
<1>6. /\ f % 32 \in 0 .. Base - 1 /\ (f \div 32) % 8 \in 0 .. Base - 1
      /\ f % 256 \in 0 .. Base - 1 /\ v % 2 \in 0 .. Base - 1
      /\ (v \div 2) % 4 \in 0 .. Base - 1 /\ v % 8 \in 0 .. Base - 1
  <2>1. {32, 8, 256, 2, 4} \subseteq 1 .. Base
    BY <1>1
  <2> QED BY <1>1, <1>4, <1>5, <2>1
<1>7. Shown[c] \in 0 .. Base - 1
  BY <1>1, <1>2, <1>3, <1>4, <1>6 DEF FloatViews, VectorViews
<1>8. Shown[c] % Base = Shown[c]
  BY <1>1, <1>7, ModSmall
<1> QED BY <1>7, <1>8 DEF Long, target_ulong

\* If one of them changes alone, they no longer fit.
LEMMA OneViewChanges ==
  ASSUME NEW g, DOMAIN g = KnownCsr, Fit(g),
         NEW c \in FloatViews \cup VectorViews, NEW w, w # g[c]
  PROVE  ~Fit([g EXCEPT ![c] = w])
<1> DEFINE e == [g EXCEPT ![c] = w]
<1>1. e[c] = w /\ \A d \in KnownCsr : d # c => e[d] = g[d]
  BY DEF FloatViews, VectorViews, KnownCsr
<1>2. {"fflags", "frm", "fcsr", "vxsat", "vxrm", "vcsr"} \subseteq KnownCsr
  BY DEF KnownCsr
<1> HIDE DEF e
<1>3. ~Fit(e)
  BY <1>1, <1>2 DEF Fit, FloatViews, VectorViews
<1> QED BY <1>3 DEF e

\* Writing a view what it shows leaves all of them, and vstart takes an index.
LEMMA Rewritten ==
  ASSUME TypeOK, Coherent, IsaCsrWrites, ~IsaIllegal, insn.csr \in KnownCsr,
         IsaWritten(csr[insn.csr]) \in Long
  PROVE  /\ IsaWritten(csr[insn.csr]) = csr[insn.csr] => IsaCsr = csr
         /\ insn.csr = "vstart" =>
              IsaCsr = [csr EXCEPT !["vstart"]
                          = IsaWritten(csr[insn.csr]) % VLMAX]
         /\ Fit(IsaCsr)
<1> DEFINE c == insn.csr   f == csr["fcsr"]   v == csr["vcsr"]
           w == IsaWritten(csr[c])
           F == CASE c = "fcsr"   -> w
                  [] c = "fflags" -> (f \div 32) * 32 + (w % 32)
                  [] c = "frm"    -> (w % 8) * 32 + (f % 32)
                  [] OTHER        -> f
           V == CASE c = "vcsr"   -> w
                  [] c = "vxsat"  -> (v \div 2) * 2 + (w % 2)
                  [] c = "vxrm"   -> (w % 4) * 2 + (v % 2)
                  [] OTHER        -> v
<1>1. csr \in [KnownCsr -> Long] /\ f \in Int /\ v \in Int /\ w \in Int
  BY DEF TypeOK, KnownCsr, Long
<1>2. IsaCsr = Views(F, V, [csr EXCEPT ![c] = w])
  BY DEF IsaCsr
<1>3. csr = Views(f, v, csr)
  BY DEF Coherent, Shown
<1>4. /\ csr["fflags"] = f % 32 /\ csr["frm"] = (f \div 32) % 8
      /\ f = f % 256
      /\ csr["vxsat"] = v % 2 /\ csr["vxrm"] = (v \div 2) % 4 /\ v = v % 8
  <2>1. \A d \in KnownCsr : csr[d] = Views(f, v, csr)[d]
    BY <1>3
  <2> QED BY <2>1 DEF Views, KnownCsr
<1>5. F \in Int /\ V \in Int
  <2> HIDE DEF f, v, w, c
  <2> QED BY <1>1
<1>6. Fit(IsaCsr)
  <2> HIDE DEF F, V
  <2> QED BY <1>2, <1>5, ViewsFit
<1>7. ASSUME w = csr[c] PROVE IsaCsr = csr
  <2>1. [csr EXCEPT ![c] = w] = csr
    BY <1>1, <1>7
  <2>2. F = f
    <3>1. c = "fflags" => w = f % 32
      BY <1>4, <1>7
    <3>2. c = "frm" => w = (f \div 32) % 8
      BY <1>4, <1>7
    <3>3. c = "fcsr" => w = f
      BY <1>7
    <3>4. /\ (f \div 32) * 32 + ((f % 32) % 32) = f
          /\ (((f \div 32) % 8) % 8) * 32 + (f % 32) = f
      <4> HIDE DEF f
      <4> QED BY <1>1, <1>4, PartsMakeWhole
    <3> HIDE DEF f, w, c
    <3> QED BY <3>1, <3>2, <3>3, <3>4
  <2>3. V = v
    <3>1. c = "vxsat" => w = v % 2
      BY <1>4, <1>7
    <3>2. c = "vxrm" => w = (v \div 2) % 4
      BY <1>4, <1>7
    <3>3. c = "vcsr" => w = v
      BY <1>7
    <3>4. /\ (v \div 2) * 2 + ((v % 2) % 2) = v
          /\ (((v \div 2) % 4) % 4) * 2 + (v % 2) = v
      <4> HIDE DEF v
      <4> QED BY <1>1, <1>4, PartsMakeWhole
    <3> HIDE DEF v, w, c
    <3> QED BY <3>1, <3>2, <3>3, <3>4
  <2> HIDE DEF F, V, w, c, f, v
  <2> QED BY <1>2, <1>3, <2>1, <2>2, <2>3
<1>8. ASSUME c = "vstart" PROVE IsaCsr = [csr EXCEPT !["vstart"] = w % VLMAX]
  <2> DEFINE e == [csr EXCEPT ![c] = w]   g == [csr EXCEPT !["vstart"] = w % VLMAX]
  <2>1. F = f /\ V = v
    <3> HIDE DEF f, v, w
    <3> QED BY <1>8
  <2>2. /\ e["vstart"] = w /\ g["vstart"] = w % VLMAX /\ "vstart" \in KnownCsr
        /\ \A d \in KnownCsr \ {"vstart"} : e[d] = csr[d] /\ g[d] = csr[d]
        /\ DOMAIN g = KnownCsr
    BY <1>1, <1>8 DEF KnownCsr
  <2> HIDE DEF F, V, w, c, f, v, e
  <2>3. IsaCsr = Views(f, v, e)
    BY <1>2, <2>1 DEF e
  <2>4. ASSUME NEW d \in KnownCsr \ {"vstart"}
        PROVE  Views(f, v, e)[d] = csr[d]
    <3>1. Views(f, v, e)[d] = Views(f, v, csr)[d]
      BY <2>2, <2>4 DEF Views
    <3> QED BY <1>3, <3>1
  <2>5. Views(f, v, e)["vstart"] = w % VLMAX
    BY <2>2 DEF Views, Size
  <2>6. DOMAIN Views(f, v, e) = KnownCsr
    BY DEF Views
  <2>7. Views(f, v, e) = [d \in KnownCsr |-> Views(f, v, e)[d]]
    BY DEF Views
  <2>8. g = [d \in KnownCsr |-> g[d]]
    BY <1>1
  <2>9. \A d \in KnownCsr : Views(f, v, e)[d] = g[d]
    BY <2>2, <2>4, <2>5
  <2> HIDE DEF g
  <2>10. Views(f, v, e) = g
    BY <2>7, <2>8, <2>9
  <2> QED BY <2>3, <2>10 DEF g
<1> QED BY <1>6, <1>7, <1>8

(***************************************************************************)
(* A CSR is written the manual's value, in its own field: the CSRs are the *)
(* manual's unless parts and whole of a CSR of two parts are split.        *)
(***************************************************************************)
LEMMA CsrWritten ==
  ASSUME TypeOK, at = "ready", insn.h \in CsrOps, insn.csr \in KnownCsr,
         IsaWritten(csr[insn.csr]) \in Long,
         csr' = [csr EXCEPT ![insn.csr] = IsaWritten(csr[insn.csr])]
  PROVE  CsrStep
<1> DEFINE c == insn.csr   w == IsaWritten(csr[c])
<1>1. /\ csr \in [KnownCsr -> Long] /\ c \in KnownCsr /\ csr'[c] = w
      /\ csr' = [csr EXCEPT ![c] = w]
      /\ \A d \in KnownCsr : d # c => csr'[d] = csr[d]
  BY DEF TypeOK
<1>2. FloatViews \cup VectorViews \subseteq KnownCsr
  BY DEF FloatViews, VectorViews, KnownCsr
<1>3. VLMAX \in Nat /\ VLMAX > 0 /\ w \in Int
  BY WidthAssumption, BaseFacts DEF Long
<1>4. IsaIllegal <=> ReadOnlyWritten
  BY DEF IsaIllegal, ReadOnlyWritten, IsaCsrWrites, KnownCsr
<1>5. "vstart" \in KnownCsr /\ "vstart" \notin FloatViews \cup VectorViews
      /\ ReadOnlyCsr = {"vl", "vtype", "vlenb"}
      /\ KnownCsr = FloatViews \cup VectorViews \cup ReadOnlyCsr \cup {"vstart"}
  BY DEF KnownCsr, FloatViews, VectorViews, ReadOnlyCsr
<1> HIDE DEF w
<1> SUFFICES ASSUME Coherent
      PROVE csr' = IsaCsr <=> ~(\/ ViewChanged \/ VstartTooWide
                                \/ ReadOnlyWritten /\ csr' # csr)
  BY <1>1 DEF CsrStep, w
<1>7. csr["vstart"] \in Int /\ csr["vstart"] < VLMAX /\ Fit(csr)
  <2>1. csr = Views(csr["fcsr"], csr["vcsr"], csr)
    BY DEF Coherent, Shown
  <2>2. csr["fcsr"] \in Int /\ csr["vcsr"] \in Int
    BY <1>1 DEF KnownCsr, Long
  <2>3. Fit(Views(csr["fcsr"], csr["vcsr"], csr))
    BY <2>2, ViewsFit
  <2> QED BY <2>1, <2>3, CoherentFits
<1>8. csr' = csr => ~ViewChanged /\ ~VstartTooWide
  BY <1>3, <1>7 DEF ViewChanged, VstartTooWide
<1>9. CASE IsaIllegal \/ ~IsaCsrWrites
  <2>1. IsaCsr = csr
    BY <1>9 DEF IsaCsr
  <2>2. ~IsaCsrWrites => csr' = csr
    <3>1. ~IsaCsrWrites => w = csr[c]
      BY DEF IsaWritten, w
    <3> QED BY <1>1, <3>1
  <2> QED BY <1>4, <1>8, <1>9, <2>1, <2>2
<1>10. CASE ~IsaIllegal /\ IsaCsrWrites
  <2>1. /\ w = csr[c] => IsaCsr = csr
        /\ c = "vstart" => IsaCsr = [csr EXCEPT !["vstart"] = w % VLMAX]
        /\ Fit(IsaCsr)
    BY <1>10, Rewritten DEF w
  <2>2. CASE w = csr[c]
    <3>1. csr' = csr
      BY <1>1, <2>2
    <3> QED BY <1>8, <2>1, <2>2, <3>1
  <2>3. CASE w # csr[c] /\ c \in FloatViews \cup VectorViews
    <3>1. ViewChanged
      BY <1>1, <2>3 DEF ViewChanged
    <3>2. ~Fit([csr EXCEPT ![c] = w])
      BY <1>1, <1>7, <2>3, OneViewChanges
    <3> QED BY <1>1, <2>1, <3>1, <3>2
  <2>4. CASE c = "vstart"
    <3>1. ~ViewChanged
      BY <1>1, <1>2, <1>5, <2>4 DEF ViewChanged
    <3>2. VstartTooWide <=> w >= VLMAX
      BY <1>1, <2>4 DEF VstartTooWide
    <3>3. csr' = IsaCsr <=> w = w % VLMAX
      <4> DEFINE m == w % VLMAX   e == [csr EXCEPT !["vstart"] = m]
      <4>1. e["vstart"] = m /\ csr'["vstart"] = w
        BY <1>1, <1>5, <2>4
      <4> HIDE DEF m
      <4>2. csr' = [csr EXCEPT !["vstart"] = w] /\ IsaCsr = e
        BY <1>1, <2>1, <2>4 DEF m
      <4>3. csr' = e <=> w = m
        BY <4>1, <4>2
      <4> QED BY <4>2, <4>3 DEF m
    <3>4. w >= 0
      BY DEF w, Long
    <3>5. w % VLMAX \in 0 .. VLMAX - 1 /\ (w < VLMAX => w % VLMAX = w)
      BY <1>3, <3>4, DivMod, ModSmall
    <3>6. w = w % VLMAX <=> ~(w >= VLMAX)
      <4> DEFINE m == w % VLMAX
      <4> HIDE DEF m
      <4>1. m \in 0 .. VLMAX - 1 /\ (w < VLMAX => m = w)
        BY <3>5 DEF m
      <4>2. w = m <=> ~(w >= VLMAX)
        BY <1>3, <4>1
      <4> QED BY <4>2 DEF m
    <3> QED BY <1>4, <1>10, <3>1, <3>2, <3>3, <3>6
  <2>5. c \notin ReadOnlyCsr
    BY <1>10 DEF IsaIllegal
  <2> QED BY <1>1, <1>5, <2>2, <2>3, <2>4, <2>5
<1> QED BY <1>9, <1>10

\* do_csrrw to do_csrrci.
LEMMA CsrOpStep == ASSUME AluInv, DoCsr PROVE StepIsRight
<1> DEFINE c == csr[insn.csr]
           source == CsrSource(insn.h)
           r == rmw_csr(c, NewValue(insn.h), WrMask(insn.h))
<1>1. /\ at = "ready" /\ at' = "ran" /\ UNCHANGED <<insn, iaddr, reserved>>
      /\ UNCHANGED <<mem, pc, exception>> /\ insn.h \in CsrOps
      /\ insn.csr \in KnownCsr /\ Put(c)
      /\ csr' = [csr EXCEPT ![insn.csr] = r]
  BY DEF DoCsr, Ran
<1>2. /\ TypeOK /\ x \in Long /\ insn.rs1 \in Gprs /\ insn.rd \in Gprs
      /\ gpr \in [Gprs -> Long] /\ gpr[0] = 0
  BY <1>1, Operand DEF AluInv, Fresh
<1>3. c \in Long /\ csr \in [KnownCsr -> Long]
  BY <1>1, <1>2 DEF TypeOK
<1>4. source \in Long
  BY <1>2, BaseFacts DEF CsrSource, Gprs, Long
<1>5. insn.rs1 = 0 => source = 0
  BY <1>2 DEF CsrSource, x
<1>6. /\ insn.h \in {"csrrw", "csrrwi"} => r = rmw_csr(c, source, Base - 1)
      /\ insn.h \in {"csrrs", "csrrsi"} => r = rmw_csr(c, Base - 1, source)
      /\ insn.h \in {"csrrc", "csrrci"} => r = rmw_csr(c, 0, source)
  BY DEF NewValue, WrMask
<1> DEFINE or == Either(c, source, LongBits)
           clear == OfBits([b \in 0 .. LongBits - 1 |->
                              IF BitOf(source, b) = 1 THEN 0
                              ELSE BitOf(c, b)], LongBits)
<1>7. /\ insn.h \in {"csrrw", "csrrwi"} => r = source
      /\ insn.h \in {"csrrs", "csrrsi"} => r = or
      /\ insn.h \in {"csrrc", "csrrci"} => r = clear
      /\ ~IsaCsrWrites => r = c
  <2>1. /\ rmw_csr(c, source, Base - 1) = source
        /\ rmw_csr(c, Base - 1, source) = or
        /\ rmw_csr(c, 0, source) = clear
        /\ source = 0 => /\ rmw_csr(c, Base - 1, source) = c
                         /\ rmw_csr(c, 0, source) = c
    BY <1>3, <1>4, RmwIs
  <2>2. ~IsaCsrWrites => /\ source = 0
                         /\ insn.h \in {"csrrs", "csrrsi", "csrrc", "csrrci"}
    BY <1>1, <1>5 DEF IsaCsrWrites, CsrOps
  <2> HIDE DEF r, or, clear, source, c
  <2> QED BY <1>6, <2>1, <2>2
<1>8. r \in Long
  <2> DEFINE ones == Base - 1   zero == 0
  <2>1. ones \in Int /\ zero \in Int /\ source \in Int /\ c \in Int
    BY <1>3, <1>4, BaseFacts DEF Long
  <2> HIDE DEF source, c, ones, zero
  <2>2. /\ rmw_csr(c, source, ones) \in Long /\ rmw_csr(c, ones, source) \in Long
        /\ rmw_csr(c, zero, source) \in Long
    BY <2>1, RmwBits
  <2> HIDE DEF r
  <2> QED BY <1>1, <1>6, <2>2 DEF CsrOps, ones, zero
<1>9. IsaRd = Shown[insn.csr]
  BY <1>1, IsaRdIs
<1>10. IsaWritten(c) = r
  <2>1. IsaWritten(c) =
          IF ~IsaCsrWrites THEN c
          ELSE CASE insn.h \in {"csrrw", "csrrwi"} -> source
                 [] insn.h \in {"csrrs", "csrrsi"} -> or
                 [] OTHER -> clear
    BY DEF IsaWritten
  <2>2. insn.h \in {"csrrw", "csrrwi"} => IsaCsrWrites
    BY <1>1 DEF IsaCsrWrites
  <2> HIDE DEF r, or, clear, source, c
  <2> QED BY <1>1, <1>7, <2>1, <2>2 DEF CsrOps
<1> HIDE DEF r, or, clear, source
<1>11. c \in Int /\ target_ulong(c) = c
  <2>1. c \in Int /\ c \in 0 .. Base - 1
    BY <1>3 DEF Long
  <2> HIDE DEF c
  <2> QED BY <2>1, BaseFacts, ModSmall DEF target_ulong
<1>12. TypeOK'
  <2>1. gpr' \in [Gprs -> Long]
    BY <1>1, <1>2, <1>11, PutTyped
  <2>2. csr' \in [KnownCsr -> Long]
    BY <1>1, <1>3, <1>8
  <2> QED BY <1>1, <1>2, <2>1, <2>2 DEF TypeOK
<1>13. /\ insn.h \notin JumpOps \cup BranchOps \cup StoreOps \cup AmoOps \cup {"sc"}
       /\ insn.h \notin ZeroOps /\ ~HostDivides /\ ~StoresUnconditionally
       /\ ~LinkBeforeBase /\ ~MisalignedAtomic /\ insn.csr # "unknown"
       /\ IsaIllegal <=> ReadOnlyWritten
  BY <1>1 DEF JumpOps, BranchOps, CsrOps, StoreOps, AmoOps, ZeroOps, HostDivides,
     DivOps, StoresUnconditionally, LinkBeforeBase, ReadOnlyWritten, KnownCsr,
     IsaIllegal, IsaCsrWrites, MisalignedAtomic, AtomicOps
<1>14. IsaTraps <=> IsaIllegal
  BY <1>13 DEF IsaTraps
<1>15. gpr' = [gpr EXCEPT ![insn.rd] = c]
  BY <1>1, <1>11 DEF Put
<1>16. insn.rd = 0 => (gpr' = gpr <=> ~ZeroWritten)
  <2>1. insn.rd = 0 => (gpr' = gpr <=> gpr'[0] = 0)
    BY <1>2, <1>15
  <2> QED BY <2>1 DEF ZeroWritten
<1>17. ResultsStep
  <2>1. CASE ~IsaIllegal /\ ~StaleView
    <3>1. IsaRd = c
      BY <1>1, <1>9, <2>1 DEF StaleView
    <3> QED BY <1>1, <1>11, <1>13, <1>14, <2>1, <3>1, PutResults
  <2>2. CASE IsaIllegal
    <3>1. IsaGpr = gpr /\ ReadOnlyWritten /\ ~WordZeroExtended
      BY <1>13, <1>14, <2>2 DEF IsaGpr, WordZeroExtended, ZeroOps
    <3>2. ZeroWritten => insn.rd = 0
      BY DEF ZeroWritten
    <3> QED BY <1>1, <1>13, <1>16, <3>1, <3>2 DEF ResultsStep
  <2>3. CASE ~IsaIllegal /\ StaleView
    <3>1. ~ReadOnlyWritten /\ ~WordZeroExtended
      BY <1>13, <2>3 DEF WordZeroExtended, ZeroOps
    <3>2. CASE insn.rd = 0
      <4>1. IsaGpr = gpr
        BY <3>2 DEF IsaGpr
      <4> QED BY <1>1, <1>13, <1>16, <3>1, <3>2, <4>1 DEF ResultsStep
    <3>3. CASE insn.rd # 0
      <4>1. IsaGpr = [gpr EXCEPT ![insn.rd] = target_ulong(Shown[insn.csr])]
        BY <1>9, <1>13, <1>14, <2>3, <3>3 DEF IsaGpr
      <4>2. target_ulong(Shown[insn.csr]) = Shown[insn.csr]
        BY <1>1, <1>2, ShownFits
      <4>3. c # Shown[insn.csr]
        BY <2>3 DEF StaleView
      <4>4. gpr' # IsaGpr
        BY <1>2, <1>15, <4>1, <4>2, <4>3
      <4> QED BY <1>13, <2>3, <3>1, <3>3, <4>4 DEF ResultsStep
    <3> QED BY <3>2, <3>3
  <2> QED BY <2>1, <2>2, <2>3
<1>18. ControlStep
  <2>1. exception' = "none" /\ ~IllegalElsewhere
    BY <1>1, <1>13 DEF AluInv, Fresh, IllegalElsewhere
  <2>2. CASE IsaIllegal
    BY <1>13, <2>1, <2>2 DEF ControlStep, IsaException
  <2>3. CASE ~IsaIllegal
    <3>1. IsaPc = pc /\ IsaException = "none"
      BY <1>13, <1>14, <2>3 DEF IsaPc, IsaException, JumpOps
    <3> QED BY <1>1, <1>13, <2>1, <2>3, <3>1 DEF ControlStep
  <2> QED BY <2>2, <2>3
<1>19. CsrStep
  BY <1>1, <1>2, <1>8, <1>10, CsrWritten
<1>20. MemoryStep
  BY <1>1, <1>13, PlainMemory
<1> QED BY <1>1, <1>12, <1>17, <1>18, <1>19, <1>20 DEF StepIsRight

-----------------------------------------------------------------------------
\* The states before an instruction meet the invariant.
LEMMA AluStarts == Init => AluInv
<1> SUFFICES ASSUME Init PROVE AluInv
  OBVIOUS
<1>1. PICK k \in Codes : LET s == StartOf(k) IN
        /\ insn = s.insn /\ gpr = s.gpr /\ mem = s.mem
        /\ csr = s.csr /\ pc = s.pc /\ iaddr = s.iaddr
        /\ reserved = s.reserved
  BY DEF Init
<1> DEFINE s == StartOf(k)
<1>2. /\ s \in Start /\ s.gpr[0] = 0 /\ Reached(s) \subseteq Bytes
      /\ s.insn.h \in PcOps => s.insn.pc = s.iaddr
  BY StartsAssumption
<1>3. /\ insn = s.insn /\ gpr = s.gpr /\ mem = s.mem
      /\ csr = s.csr /\ pc = s.pc /\ iaddr = s.iaddr /\ reserved = s.reserved
  BY <1>1
<1> HIDE DEF s
<1>4. TypeOK
  BY <1>2, <1>3 DEF Init, TypeOK, Start
<1>5. Reached([insn |-> insn, gpr |-> gpr]) = Reached(s)
  BY <1>3 DEF Reached
<1> QED BY <1>2, <1>3, <1>4, <1>5 DEF AluInv, Fresh, Init

\* Every action keeps the types and meets the four step properties.
LEMMA AluNext == ASSUME AluInv, Next, ~Done PROVE StepIsRight
BY UpperStep, JalStep, JalrStep, AluStep, BranchStep, LoadStep, StoreStep,
   ImmStep, WordStep, MulsStep, DivStep, KilledStep, CsrOpStep, CsrUnknownStep,
   LrStep, ScStep, AmoStep DEF Next

\* The inductive invariant: it starts, and a step taken leaves "ready".
LEMMA AluInvariant == Spec => []AluInv
<1>1. ASSUME AluInv, [Next]_vars PROVE AluInv'
  <2>1. CASE UNCHANGED vars
    BY <1>1, <2>1 DEF AluInv, Fresh, TypeOK, vars, Reached
  <2>2. CASE Next /\ ~Done
    BY <1>1, <2>2, AluNext DEF StepIsRight, AluInv, Fresh
  <2>3. CASE Done
    BY <1>1, <2>1, <2>3 DEF Done
  <2> QED BY <1>1, <2>1, <2>2, <2>3
<1> QED BY <1>1, AluStarts, PTL DEF Spec

(***************************************************************************)
(* Every result fits its register, for registers of any width.             *)
(***************************************************************************)
THEOREM AluTypes == Spec => []TypeOK
<1>1. AluInv => TypeOK
  BY DEF AluInv
<1> QED BY <1>1, AluInvariant, PTL

\* The four step properties, of one step.
LEMMA AluSteps ==
  ASSUME AluInv, [Next]_vars
  PROVE  /\ [ResultsStep]_vars /\ [ControlStep]_vars
         /\ [CsrStep]_vars /\ [MemoryStep]_vars
<1>1. CASE UNCHANGED vars
  BY <1>1
<1>2. CASE Next /\ ~Done
  BY <1>2, AluNext DEF StepIsRight
<1>3. CASE Done
  BY <1>3 DEF Done
<1> QED BY <1>1, <1>2, <1>3

(***************************************************************************)
(* The registers after an instruction are those of the ISA, but in the     *)
(* seven cases of ResultsStep, for registers of any width.                  *)
(***************************************************************************)
THEOREM AluResults == Spec => ResultsAreTheIsas
BY AluSteps, AluInvariant, PTL DEF Spec, ResultsAreTheIsas

(***************************************************************************)
(* The pc and the exception are those of the ISA, except exactly in the    *)
(* four cases of ControlStep, for registers of any width.                  *)
(***************************************************************************)
THEOREM AluControl == Spec => ControlLikeTheIsa
BY AluSteps, AluInvariant, PTL DEF Spec, ControlLikeTheIsa

(***************************************************************************)
(* rmw_csr writes the bits the ISA writes, and leaves the ten CSRs as the  *)
(* ISA has them except exactly in the three cases of CsrStep, for          *)
(* registers of any width and any number of vector elements.               *)
(***************************************************************************)
THEOREM AluCsrs == Spec => CsrsLikeTheIsa
BY AluSteps, AluInvariant, PTL DEF Spec, CsrsLikeTheIsa

(***************************************************************************)
(* The memory is that of the ISA, but for a store-conditional without a    *)
(* reservation and a misaligned atomic access.                             *)
(***************************************************************************)
THEOREM AluMemory == Spec => MemoryLikeTheIsa
BY AluSteps, AluInvariant, PTL DEF Spec, MemoryLikeTheIsa

-----------------------------------------------------------------------------
\* One multiply instruction, from any registers.
LEMMA MulStep ==
  ASSUME AluInv, DoMul, insn.rd # 0
  PROVE  /\ insn.h = "mulhu"  => gpr'[insn.rd] = High(x, y)
         /\ insn.h = "mulhsu" =>
              gpr'[insn.rd] = target_ulong(High(target_long(x), y))
         /\ insn.h = "mulh" =>
              gpr'[insn.rd] =
                target_ulong(High(target_long(x), target_long(y)))
<1>1. /\ gpr \in [Gprs -> Long] /\ insn.rd \in Gprs
      /\ insn.rs1 \in Gprs /\ insn.rs2 \in Gprs
  BY Operand DEF AluInv
<1>2. /\ x \in Long /\ y \in Long
      /\ High(target_long(x), y) \in Int
      /\ High(target_long(x), target_long(y)) \in Int
  <2>1. x \in Long /\ y \in Long
    BY <1>1 DEF x, y
  <2>2. target_long(x) \in Int /\ target_long(y) \in Int
    BY <2>1, SignedView
  <2> HIDE DEF x, y
  <2> QED BY <2>1, <2>2, DivMod, BaseFacts DEF High, Long
<1>3. gpr'[insn.rd] = target_ulong(MulResult(insn.h))
  BY <1>1 DEF DoMul, Put
<1>4. ASSUME insn.h = "mulhu" PROVE gpr'[insn.rd] = High(x, y)
  <2>1. MulResult(insn.h) = wmulu(x, y).hi
    BY <1>4 DEF MulResult
  <2> QED BY <1>2, <1>3, <2>1, UnsignedProduct, SignedView DEF High
<1>5. ASSUME insn.h = "mulhsu"
      PROVE gpr'[insn.rd] = target_ulong(High(target_long(x), y))
  <2>1. MulResult(insn.h) = wmulsu(x, y).hi
    BY <1>5 DEF MulResult
  <2> QED BY <1>2, <1>3, <2>1, SignedUnsignedProduct, LongFacts
<1>6. ASSUME insn.h = "mulh"
      PROVE gpr'[insn.rd] = target_ulong(High(target_long(x), target_long(y)))
  <2>1. MulResult(insn.h) = wmul(x, y).hi
    BY <1>6 DEF MulResult
  <2> QED BY <1>2, <1>3, <2>1, SignedProduct, LongFacts
<1> QED BY <1>4, <1>5, <1>6

(***************************************************************************)
(* mulh, mulhsu and mulhu are exact, for registers of any width.           *)
(***************************************************************************)
THEOREM MulHigh == Spec => MulHighIsExact
<1>1. ASSUME AluInv, [Next]_vars PROVE [MulHighStep]_vars
  <2>1. CASE UNCHANGED vars
    BY <2>1
  <2>2. CASE DoMul
    BY <1>1, <2>2, MulStep DEF MulHighStep
  <2>3. CASE Next /\ ~DoMul
    <3>1. at = "ready" => insn.h \notin MulOps
      BY <2>3
      DEF Next, Ran, DoUpper, DoJal, DoJalr, DoAlu, DoBranch, DoLoad,
          DoStore, DoImm, DoWord, DoDiv, DoDivKilled, DoCsr, DoCsrUnknown,
          DoLr, DoSc, DoAmo, Done, MulOps, AluOps, BranchOps, LoadOps,
          StoreOps, ImmOps, WordOps, DivOps, CsrOps, AmoOps
    <3> QED BY <3>1 DEF MulOps, MulHighStep
  <2> QED BY <1>1, <2>1, <2>2, <2>3
<1> QED BY <1>1, AluInvariant, PTL DEF Spec, MulHighIsExact
==============================================================================
