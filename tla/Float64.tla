------------------------------- MODULE Float64 ------------------------------
(***************************************************************************)
(* The arithmetic of Go's float64 as far as the program uses it: products, *)
(* quotients and differences rounded to the nearest number whose           *)
(* significand is below Precision, ties to even, and comparisons.          *)
(*                                                                         *)
(* A float64 is a pair <<n, d>>: the number n/d when d > 0, and infinity   *)
(* or NaN when d = 0.  Exponents are unbounded: overflow and underflow of  *)
(* finite numbers are left out.  Comparisons with NaN are false.           *)
(***************************************************************************)
EXTENDS Integers

CONSTANT Precision   \* 2^53

ASSUME PrecisionAssumption == Precision \in Nat /\ Precision >= 256 /\ Precision % 16 = 0

Float64 == Int \X Nat

NaN == <<0, 0>>
Inf == <<1, 0>>
Number(n) == <<n, 1>>
Finite(x) == x[2] > 0

\* The least power of two that is not below q.
PowerFrom[q \in Nat] == IF q <= 1 THEN 1 ELSE 2 * PowerFrom[(q + 1) \div 2]

\* A number without common factors of two.
Reduced[x \in Int \X (Nat \ {0})] ==
  IF x[1] % 2 = 0 /\ x[2] % 2 = 0 THEN Reduced[<<x[1] \div 2, x[2] \div 2>>] ELSE x

\* The integer nearest to n/d, of two the even one.
Nearest(n, d) ==
  LET q == n \div d
      r == n % d
  IN  IF 2 * r > d \/ (2 * r = d /\ q % 2 = 1) THEN q + 1 ELSE q

\* n/d is scaled by a power of two to a number between Precision/2 and
\* Precision, which is rounded to an integer and scaled back.
RoundPositive(n, d) ==
  LET up   == PowerFrom[(d * (Precision \div 2) + n - 1) \div n]
      down == PowerFrom[n \div (d * Precision) + 1]
  IN  Reduced[<<Nearest(n * up, d * down) * down, up>>]

Negated(x) == <<-x[1], x[2]>>
Round(n, d) ==
  IF n = 0 THEN Number(0)
  ELSE IF n > 0 THEN RoundPositive(n, d)
  ELSE Negated(RoundPositive(-n, d))

Sign(n) == IF n > 0 THEN 1 ELSE IF n < 0 THEN -1 ELSE 0
Float(n, d) == IF d = 0 THEN <<Sign(n), 0>> ELSE Round(n, d)

Product(x, y) == Float(x[1] * y[1], x[2] * y[2])
\* Division by a positive number.
Over(x, y) == Float(x[1] * y[2], x[2] * y[1])
MinusOne(x) == Float(x[1] - x[2], x[2])
Abs(x) == IF x[1] < 0 THEN Negated(x) ELSE x

Greater(x, y) ==
  /\ NaN \notin {x, y}
  /\ IF Finite(x) \/ Finite(y) THEN x[1] * y[2] > y[1] * x[2] ELSE x[1] > y[1]
Positive(x) == Finite(x) /\ Greater(x, Number(0))
=============================================================================
