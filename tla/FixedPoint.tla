------------------------------ MODULE FixedPoint ------------------------------
(***************************************************************************)
(* Fixed of CPP02/ex02: numbers of m_bits binary places in an int, which   *)
(* add, multiply and divide by way of float.  A step is one call of a      *)
(* member function of a.                                                   *)
(*                                                                         *)
(* A float is a fraction <<n, d>> with d > 0 whose value needs no more     *)
(* than MANTISSA binary digits.  SHIFT bounds the exponents, and is large enough.                  *)
(***************************************************************************)
EXTENDS Integers

CONSTANTS
  m_bits,
  INT_MAX,
  MANTISSA,           \* binary digits of a float
  SHIFT,              \* bounds the exponents
  Ints, Raws           \* the numbers objects are made from, and given by setRawBits()

VARIABLES
  a, b,               \* m_fixedPoint of two objects
  before,             \* the operation that made a, if it was by way of float, and both before it: [op, a, b]
  wild                \* an int left its range, or a float became an int that cannot: nothing is known from then on

vars == <<a, b, before, wild>>

ONE     == 2 ^ m_bits
INT_MIN == -INT_MAX - 1
Fits(n) == n \in INT_MIN .. INT_MAX
Abs(n)  == IF n < 0 THEN -n ELSE n
Sign(n) == IF n < 0 THEN -1 ELSE 1

\* The nearest float; of two as near, the one whose last digit is even.
Even(n, d) ==
  LET q == n \div d  r == n % d
  IN IF 2 * r < d \/ (2 * r = d /\ q % 2 = 0) THEN q ELSE q + 1
Float(n, d) ==
  LET m      == Abs(n)
      high   == {k \in 0 .. SHIFT : m >= 2 ^ (MANTISSA + k) * d}       \* too many digits before the point
      low    == {k \in 0 .. SHIFT : m * 2 ^ k < 2 ^ (MANTISSA - 1) * d}
      up     == IF high = {} THEN 1 ELSE 2 ^ (CHOOSE k \in 1 .. SHIFT + 1 : k - 1 \in high /\ k \notin high)
      down   == IF low = {} THEN 1 ELSE 2 ^ (CHOOSE k \in 1 .. SHIFT + 1 : k - 1 \in low /\ k \notin low)
  IN IF m = 0 THEN <<0, 1>> ELSE <<Sign(n) * Even(m * down, d * up) * up, down>>

\* roundf(): halves go away from zero.
roundf(f) == Sign(f[1]) * ((2 * Abs(f[1]) + f[2]) \div (2 * f[2]))
toFloat(raw) == Float(raw, ONE)
FromFloat(f) == roundf(Float(f[1] * ONE, f[2]))

Nothing == [op |-> "none", a |-> 0, b |-> 0]
By(op)  == [op |-> op, a |-> a, b |-> b]
Made(how, raw) ==
  /\ before' = how
  /\ IF Fits(raw) THEN a' = raw ELSE a' = a
  /\ wild' = ~Fits(raw)
  /\ UNCHANGED b

-----------------------------------------------------------------------------
OfInteger(n)    == Made(Nothing, n * ONE)
SetRawBits(raw) == Made(Nothing, raw)
Assign          == Made(Nothing, b)
Plus  == LET x == toFloat(a)  y == toFloat(b) IN Made(By("+"), FromFloat(Float(x[1] * y[2] + y[1] * x[2], x[2] * y[2])))
Minus == LET x == toFloat(a)  y == toFloat(b) IN Made(By("-"), FromFloat(Float(x[1] * y[2] - y[1] * x[2], x[2] * y[2])))
Times == LET x == toFloat(a)  y == toFloat(b) IN Made(By("*"), FromFloat(Float(x[1] * y[1], x[2] * y[2])))
Divided ==
  LET x == toFloat(a)  y == toFloat(b)
  IN Made(By("/"), IF y[1] = 0 THEN INT_MAX + 1 ELSE FromFloat(Float(Sign(y[1]) * x[1] * y[2], x[2] * Abs(y[1]))))
Increment == Made(Nothing, a + 1)
Decrement == Made(Nothing, a - 1)
Least     == Made(Nothing, IF a < b THEN a ELSE b)
Swap      == a' = b /\ b' = a /\ before' = Nothing /\ wild' = FALSE

Init == a = 0 /\ b = 0 /\ before = Nothing /\ wild = FALSE

Next == ~wild /\ (\/ (\E n \in Ints : OfInteger(n)) \/ (\E n \in Raws : SetRawBits(n)) \/ Assign \/ Swap
                 \/ Plus \/ Minus \/ Times \/ Divided \/ Increment \/ Decrement \/ Least)

Spec == Init /\ [][Next]_vars

-----------------------------------------------------------------------------
Short(n) == Abs(n) =< 2 ^ MANTISSA

\* Of numbers that a float has exactly the sum and the difference are exact, the product
\* and the quotient less than one unit of the last place away - not always the nearest number, as
\* the float is rounded before roundf() rounds it - if the result is one too, and then the
\* result is in the range of int (Fixed).
RightlyRounded ==
  LET x == before.a  y == before.b
  IN /\ before.op = "+" /\ Short(x) /\ Short(y) /\ Short(x + y) => ~wild /\ a = x + y
     /\ before.op = "-" /\ Short(x) /\ Short(y) /\ Short(x - y) => ~wild /\ a = x - y
     /\ before.op = "*" /\ Short(x) /\ Short(y) /\ Short((x * y) \div ONE) => ~wild /\ Abs(a * ONE - x * y) < ONE
     /\ before.op = "/" /\ Short(x) /\ Short(y) /\ y # 0 /\ Short((Abs(x) * ONE) \div Abs(y)) => ~wild /\ Abs(a * y - x * ONE) < Abs(y)
=============================================================================
