------------------------------- MODULE Fractions -------------------------------
(***************************************************************************)
(* Exact arithmetic for what the code computes with doubles: fractions in  *)
(* lowest terms with a positive denominator.                               *)
(***************************************************************************)
EXTENDS Integers

Abs(n) == IF n < 0 THEN -n ELSE n
Sign(n) == IF n < 0 THEN -1 ELSE IF n = 0 THEN 0 ELSE 1

Gcd[p \in Nat \X Nat] == IF p[2] = 0 THEN p[1] ELSE Gcd[<<p[2], p[1] % p[2]>>]

Ratio(n, d) == LET g == Gcd[<<d, Abs(n)>>] IN [num |-> n \div g, den |-> d \div g]
Whole(n) == [num |-> n, den |-> 1]

Plus(a, b) ==
    LET g == Gcd[<<a.den, b.den>>]
    IN  Ratio(a.num * (b.den \div g) + b.num * (a.den \div g), (a.den \div g) * b.den)
Scale(n, a) == Ratio(n * a.num, a.den)
Over(a, n) == Ratio(a.num, a.den * n)
Minus(a, b) == Plus(a, Scale(-1, b))
Magnitude(a) == [a EXCEPT !.num = Abs(@)]
Divide(a, b) == Ratio(a.num * b.den * Sign(b.num), a.den * Abs(b.num))   \* b is not zero

Same(a, b) == a.num * b.den = b.num * a.den
AtMost(a, b) == a.num * b.den <= b.num * a.den
Less(a, b) == a.num * b.den < b.num * a.den
Largest(a, b) == IF AtMost(a, b) THEN b ELSE a
Smallest(a, b) == IF AtMost(a, b) THEN a ELSE b
================================================================================
