------------------------------- MODULE RvArith -------------------------------
(***************************************************************************)
(* What the RISC-V manual says the integer instructions of RV64IMA         *)
(* compute, for registers of any width: shifts and logic bit by bit,       *)
(* multiplication and division by the integers they stand for.             *)
(***************************************************************************)
EXTENDS Integers

TwoTo[n \in Nat] == IF n = 0 THEN 1 ELSE 2 * TwoTo[n - 1]

BitOf(n, b) == (n \div TwoTo[b]) % 2

\* The number with the bits f[0], ..., f[w - 1].
OfBits(f, w) ==
  LET v[k \in 0 .. w] ==
        IF k = 0 THEN 0 ELSE v[k - 1] + TwoTo[k - 1] * f[k - 1]
  IN  v[w]

\* Two's complement: the signed number of the low w bits of n.
SignedOf(n, w) ==
  LET u == n % TwoTo[w] IN IF BitOf(n, w - 1) = 1 THEN u - TwoTo[w] ELSE u

\* The register of w bits that holds the low v bits of n, sign-extended.
Widen(n, v, w) ==
  OfBits([b \in 0 .. w - 1 |-> BitOf(n, IF b < v THEN b ELSE v - 1)], w)

ShiftLeft(n, s, w) ==
  OfBits([b \in 0 .. w - 1 |-> IF b < s THEN 0 ELSE BitOf(n, b - s)], w)

ShiftRight(n, s, w, fill) ==
  OfBits([b \in 0 .. w - 1 |-> IF b + s < w THEN BitOf(n, b + s) ELSE fill], w)

Both(m, n, w) ==
  OfBits([b \in 0 .. w - 1 |-> BitOf(m, b) * BitOf(n, b)], w)
Either(m, n, w) ==
  OfBits([b \in 0 .. w - 1 |-> IF BitOf(m, b) = BitOf(n, b)
                               THEN BitOf(m, b) ELSE 1], w)
Differ(m, n, w) ==
  OfBits([b \in 0 .. w - 1 |-> IF BitOf(m, b) = BitOf(n, b)
                               THEN 0 ELSE 1], w)

One(condition) == IF condition THEN 1 ELSE 0

(***************************************************************************)
(* Division rounds towards zero, the remainder has the sign of the         *)
(* dividend; dividing by zero gives -1 and the dividend. Nothing traps,    *)
(* and MIN / -1 wraps.                                                     *)
(***************************************************************************)
Magnitude(a) == IF a < 0 THEN -a ELSE a

Divided(a, b) ==
  IF b = 0 THEN <<-1, a>>
  ELSE CHOOSE p \in (-Magnitude(a) .. Magnitude(a)) \X
                    {r \in -Magnitude(b) .. Magnitude(b) : r * a >= 0} :
         a = p[1] * b + p[2] /\ Magnitude(p[2]) < Magnitude(b)

\* The result of an operation on the registers x and y of w bits; the last
\* operand of an immediate instruction is y, too.
Computes(op, x, y, w) ==
  LET a == SignedOf(x, w)  b == SignedOf(y, w)  s == y % w IN
  CASE op = "add"  -> x + y
    [] op = "sub"  -> x - y
    [] op = "sll"  -> ShiftLeft(x, s, w)
    [] op = "srl"  -> ShiftRight(x, s, w, 0)
    [] op = "sra"  -> ShiftRight(x, s, w, BitOf(x, w - 1))
    [] op = "slt"  -> One(a < b)
    [] op = "sltu" -> One(x < y)
    [] op = "xor"  -> Differ(x, y, w)
    [] op = "or"   -> Either(x, y, w)
    [] op = "and"  -> Both(x, y, w)
    [] op = "mul"    -> a * b
    [] op = "mulh"   -> (a * b) \div TwoTo[w]
    [] op = "mulhsu" -> (a * y) \div TwoTo[w]
    [] op = "mulhu"  -> (x * y) \div TwoTo[w]
    [] op = "div"  -> Divided(a, b)[1]
    [] op = "rem"  -> Divided(a, b)[2]
    [] op = "divu" -> Divided(x, y)[1]
    [] op = "remu" -> Divided(x, y)[2]

\* What an atomic operation leaves in a cell of w bits that held n.
Combines(op, n, y, w) ==
  LET a == SignedOf(n, w)  b == SignedOf(y, w)
      m == n % TwoTo[w]       z == y % TwoTo[w]
  IN
  CASE op = "swap" -> z
    [] op = "min"  -> IF a < b THEN a ELSE b
    [] op = "max"  -> IF a > b THEN a ELSE b
    [] op = "minu" -> IF m < z THEN m ELSE z
    [] op = "maxu" -> IF m > z THEN m ELSE z
    [] OTHER       -> Computes(op, m, z, w)
==============================================================================
