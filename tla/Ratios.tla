------------------------------- MODULE Ratios -------------------------------
(* Exact decimals: fractions in lowest terms, and Unknown for a figure that *)
(* the code reports as None. Adding to an unknown figure gives an unknown.  *)
EXTENDS Integers, FiniteSetsExt

Unknown == <<0, 0>>

gcd[a \in Nat, b \in Nat] == IF b = 0 THEN a ELSE gcd[b, a % b]

Q(n, d) ==
  LET g == gcd[IF n < 0 THEN -n ELSE n, d] IN <<n \div g, d \div g>>

ZERO == <<0, 1>>
Whole(n) == <<n, 1>>

Plus(x, y) ==
  IF Unknown \in {x, y} THEN Unknown ELSE Q(x[1] * y[2] + y[1] * x[2], x[2] * y[2])
Minus(x, y) ==
  IF Unknown \in {x, y} THEN Unknown ELSE Q(x[1] * y[2] - y[1] * x[2], x[2] * y[2])
Times(x, y) == IF Unknown \in {x, y} THEN Unknown ELSE Q(x[1] * y[1], x[2] * y[2])
Over(x, y) ==
  IF Unknown \in {x, y} \/ y[1] <= 0 THEN Unknown ELSE Q(x[1] * y[2], x[2] * y[1])

Positive(x) == x[1] > 0
Exceeds(x, y) == x[1] * y[2] > y[1] * x[2]
AtLeastZero(x) == IF x[1] < 0 THEN ZERO ELSE x

SumOf(f(_), S) == MapThenFoldSet(Plus, ZERO, f, LAMBDA T : CHOOSE x \in T : TRUE, S)
=============================================================================
