----------------------------- MODULE Rationals -----------------------------
(***************************************************************************)
(* What Math/MathUtilities.cpp takes from <math.h> and <simd/simd.h>, over *)
(* exact numbers: fractions <<n, d>> in lowest terms with d > 0, vectors   *)
(* and matrices of them, and angles whose sine and cosine are fractions.   *)
(* A matrix is a tuple of columns, as simd's are.                          *)
(***************************************************************************)
EXTENDS Integers

CONSTANT Angles   \* the angles that occur, as <<cos, sin>>

Gcd[p \in Nat \X Nat] ==
  IF p[2] = 0 THEN p[1] ELSE Gcd[<<p[2], p[1] % p[2]>>]
Abs(n) == IF n < 0 THEN -n ELSE n

Fraction(n, d) ==
  IF n = 0 \/ d = 1 THEN <<n, 1>>
  ELSE LET g == Gcd[<<Abs(n), Abs(d)>>]
           sign == IF d < 0 THEN -1 ELSE 1
       IN  <<(sign * n) \div g, (sign * d) \div g>>

\* The fractions: all pairs in lowest terms.
Fractions == {q \in Int \X (Nat \ {0}) : Fraction(q[1], q[2]) = q}

Q(n) == <<n, 1>>
Zero == Q(0)
One == Q(1)

a \oplus b == Fraction(a[1] * b[2] + b[1] * a[2], a[2] * b[2])
a \ominus b == Fraction(a[1] * b[2] - b[1] * a[2], a[2] * b[2])
a \otimes b == Fraction(a[1] * b[1], a[2] * b[2])
a \oslash b == Fraction(a[1] * b[2], a[2] * b[1])
Negative(a) == <<-a[1], a[2]>>
Less(a, b) == a[1] * b[2] < b[1] * a[2]

\* The square root of a fraction that has one among the fractions.
Root(a) ==
  LET Whole(n) == CHOOSE r \in 0 .. n : r * r = n
  IN  <<Whole(a[1]), Whole(a[2])>>

----------------------------------------------------------------------------
(* Angles                                                                  *)

cos(angle) == angle[1]
sin(angle) == angle[2]
IsAngle(a) ==
  /\ a \in Fractions \X Fractions
  /\ (cos(a) \otimes cos(a)) \oplus (sin(a) \otimes sin(a)) = One

ASSUME AnglesAssumption == \A a \in Angles : IsAngle(a)

Opposite(angle) == <<cos(angle), Negative(sin(angle))>>
Straight == <<One, Zero>>

\* The angles atan2(y, x) may be.  Where y and x are both 0, they are what
\* rounding made of 0 in the program, and point anywhere.
atan2(y, x) ==
  IF x = Zero /\ y = Zero THEN Angles
  ELSE LET r == Root((x \otimes x) \oplus (y \otimes y))
       IN  {<<x \oslash r, y \oslash r>>}

----------------------------------------------------------------------------
(* Vectors and matrices                                                    *)

\* They have three or four entries.
Sum(v) ==
  LET xyz == (v[1] \oplus v[2]) \oplus v[3]
  IN  IF 4 \in DOMAIN v THEN xyz \oplus v[4] ELSE xyz
Dot(u, v) == Sum([i \in DOMAIN u |-> u[i] \otimes v[i]])
Scaled(k, v) == [i \in DOMAIN v |-> k \otimes v[i]]
Difference(u, v) == [i \in DOMAIN u |-> u[i] \ominus v[i]]
length(v) == Root(Dot(v, v))

\* A column vector multiplied, and a matrix column by column.
Apply(A, v) ==
  [i \in DOMAIN A[1] |-> Sum([k \in DOMAIN A |-> A[k][i] \otimes v[k]])]
Product(A, B) == [j \in DOMAIN B |-> Apply(A, B[j])]

Identity(n) == [j \in 1 .. n |-> [i \in 1 .. n |-> IF i = j THEN One ELSE Zero]]
=============================================================================
