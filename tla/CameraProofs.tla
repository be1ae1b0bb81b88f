---------------------------- MODULE CameraProofs ----------------------------
(***************************************************************************)
(* The camera and the mathematics it is made with, over all fractions: for *)
(* every choice of velocities, limits and points OrbitControl keeps its    *)
(* ranges and shows its target straight ahead with a level horizon         *)
(* (OrbitControl, OrbitView), a pose survives being taken apart and put    *)
(* together however often (Pose), and the perspective keeps the frustum of *)
(* every lens (Frustum).                                                   *)
(*                                                                         *)
(* From the bottom up: greatest common divisors, fractions as integers     *)
(* over a denominator, their laws, vectors and matrices, the rotations,    *)
(* and then the three state machines.                                      *)
(***************************************************************************)
EXTENDS OrbitView, Frustum, WellFoundedInduction, TLAPS

----------------------------------------------------------------------------
(* Greatest common divisors                                                *)

(* Every set of naturals has a least one.                                  *)
LEMMA LeastNatural ==
  ASSUME NEW T \in SUBSET Nat, T # {}
  PROVE  \E m \in T : \A k \in T : m <= k
<1>1. PICK m \in T : \A k \in T : ~(<<k, m>> \in OpToRel(<, Nat))
  BY WFMin, NatLessThanWellFounded, Zenon
<1>2. \A k \in T : ~(k < m)  BY <1>1 DEF OpToRel
<1> QED  BY <1>2

(* What dividing means, and what a greatest common divisor is.             *)
Divides(k, n) == \E q \in Int : n = k * q
IsGcd(g, a, b) ==
  /\ g \in Nat \ {0} /\ Divides(g, a) /\ Divides(g, b)
  /\ \A k \in Nat \ {0} : Divides(k, a) /\ Divides(k, b) => k <= g

(* A divisor of a positive number is at most that number.                  *)
LEMMA DividesBounds ==
  ASSUME NEW k \in Nat \ {0}, NEW n \in Nat \ {0}, Divides(k, n)
  PROVE  k <= n
<1>1. PICK q \in Int : n = k * q  BY DEF Divides
<1>2. q >= 1
  <2>1. ASSUME q <= 0 PROVE FALSE
    <3>1. k * q <= 0  BY <2>1, <1>1
    <3> QED  BY <1>1, <3>1
  <2> QED  BY <2>1, <1>1
<1>3. q - 1 \in Nat /\ k * q = k + k * (q - 1)  BY <1>2
<1>4. k * (q - 1) >= 0  BY <1>3
<1> QED  BY <1>1, <1>3, <1>4

(* There is a greatest common divisor.                                     *)
LEMMA GcdExists ==
  ASSUME NEW a \in Nat, NEW b \in Nat \ {0}
  PROVE  \E g : IsGcd(g, a, b)
<1> DEFINE T == {m \in Nat : \E k \in Nat \ {0} : Divides(k, a) /\ Divides(k, b) /\ m = b - k}
<1>1. Divides(1, a) /\ Divides(1, b)  BY DEF Divides
<1>2. b - 1 \in T  BY <1>1
<1>3. PICK m \in T : \A k \in T : m <= k
  <2> HIDE DEF T
  <2>1. T # {}  BY <1>2
  <2>2. T \in SUBSET Nat  BY DEF T
  <2> QED  BY <2>1, <2>2, LeastNatural
<1>4. PICK g \in Nat \ {0} : Divides(g, a) /\ Divides(g, b) /\ m = b - g
  BY <1>3
<1>5. ASSUME NEW k \in Nat \ {0}, Divides(k, a), Divides(k, b) PROVE k <= g
  <2>1. k <= b  BY <1>5, DividesBounds
  <2>2. b - k \in T  BY <1>5, <2>1
  <2>3. b - g <= b - k  BY <1>3, <1>4, <2>2
  <2> QED  BY <2>3
<1> QED  BY <1>4, <1>5 DEF IsGcd

(* There is only one.                                                      *)
LEMMA GcdUnique ==
  ASSUME NEW a, NEW b, NEW g, NEW h, IsGcd(g, a, b), IsGcd(h, a, b)
  PROVE  g = h
BY DEF IsGcd

(* Euclid: b and the rest of a have the divisors of a and b.               *)
LEMMA Euclid ==
  ASSUME NEW a \in Nat, NEW b \in Nat \ {0}
  PROVE  /\ a % b \in 0 .. b - 1
         /\ \A k \in Nat \ {0} : Divides(k, b) => (Divides(k, a) <=> Divides(k, a % b))
<1>1. a = b * (a \div b) + (a % b) /\ a \div b \in Int /\ a % b \in 0 .. b - 1
  OBVIOUS
<1>2. ASSUME NEW k \in Nat \ {0}, NEW q \in Int, b = k * q
      PROVE  Divides(k, a) <=> Divides(k, a % b)
  <2> DEFINE w == a \div b
             t == a % b
  <2>1. w \in Int /\ t \in Int /\ a = k * (q * w) + t
    <3>1. b * w = k * (q * w)  BY <1>1, <1>2
    <3> QED  BY <1>1, <3>1
  <2> HIDE DEF w, t
  <2>2. ASSUME NEW e \in Int, a = k * e PROVE t = k * (e - q * w)
    BY <2>1, <2>2
  <2>3. ASSUME NEW e \in Int, t = k * e PROVE a = k * (e + q * w)
    BY <2>1, <2>3
  <2>4. Divides(k, a) <=> Divides(k, t)
    <3>1. q * w \in Int  BY <2>1
    <3>2. ASSUME Divides(k, a) PROVE Divides(k, t)
      <4>1. PICK e \in Int : a = k * e  BY <3>2 DEF Divides
      <4>2. e - q * w \in Int /\ t = k * (e - q * w)  BY <3>1, <4>1, <2>2
      <4> QED  BY <4>2 DEF Divides
    <3>3. ASSUME Divides(k, t) PROVE Divides(k, a)
      <4>1. PICK e \in Int : t = k * e  BY <3>3 DEF Divides
      <4>2. e + q * w \in Int /\ a = k * (e + q * w)  BY <3>1, <4>1, <2>3
      <4> QED  BY <4>2 DEF Divides
    <3> QED  BY <3>2, <3>3
  <2> QED  BY <2>4 DEF t
<1> QED  BY <1>1, <1>2 DEF Divides

(* So they have the same greatest one.                                     *)
LEMMA EuclidGcd ==
  ASSUME NEW a \in Nat, NEW b \in Nat \ {0}, NEW g
  PROVE  IsGcd(g, a, b) <=> IsGcd(g, b, a % b)
BY Euclid DEF IsGcd

(* The greatest common divisor, not computed but chosen.                   *)
ChosenGcd(a, b) == IF b = 0 THEN a ELSE CHOOSE g : IsGcd(g, a, b)

(* It is the greatest common divisor.                                      *)
LEMMA ChosenGcdIs ==
  ASSUME NEW a \in Nat, NEW b \in Nat \ {0}
  PROVE  IsGcd(ChosenGcd(a, b), a, b)
BY GcdExists DEF ChosenGcd

(* It meets Gcd's equation.                                                *)
LEMMA ChosenGcdRecursion ==
  ASSUME NEW a \in Nat, NEW b \in Nat
  PROVE  ChosenGcd(a, b) = IF b = 0 THEN a ELSE ChosenGcd(b, a % b)
<1>1. CASE b = 0  BY <1>1 DEF ChosenGcd
<1>2. CASE b # 0
  <2>1. a % b \in Nat  BY <1>2, Euclid
  <2>2. IsGcd(ChosenGcd(a, b), b, a % b)  BY <1>2, ChosenGcdIs, EuclidGcd
  <2>3. CASE a % b = 0
    <3>1. ChosenGcd(b, a % b) = b  BY <2>3 DEF ChosenGcd
    <3>2. IsGcd(b, b, 0)
      <4>1. Divides(b, b) /\ Divides(b, 0)  BY DEF Divides
      <4> QED  BY <1>2, <4>1, DividesBounds DEF IsGcd
    <3> QED  BY <1>2, <2>2, <2>3, <3>1, <3>2, GcdUnique
  <2>4. CASE a % b # 0
    BY <1>2, <2>1, <2>2, <2>4, ChosenGcdIs, GcdUnique
  <2> QED  BY <1>2, <2>3, <2>4
<1> QED  BY <1>1, <1>2

(* So there is a function with Gcd's equation, and Gcd meets it too.       *)
LEMMA GcdRecursion ==
  ASSUME NEW a \in Nat, NEW b \in Nat
  PROVE  Gcd[<<a, b>>] = IF b = 0 THEN a ELSE Gcd[<<b, a % b>>]
<1> DEFINE Step(f) == [p \in Nat \X Nat |->
                         IF p[2] = 0 THEN p[1] ELSE f[<<p[2], p[1] % p[2]>>]]
           G == [p \in Nat \X Nat |-> ChosenGcd(p[1], p[2])]
<1>1. G = Step(G)
  <2>1. ASSUME NEW p \in Nat \X Nat
        PROVE  G[p] = IF p[2] = 0 THEN p[1] ELSE G[<<p[2], p[1] % p[2]>>]
    <3>1. G[p] = IF p[2] = 0 THEN p[1] ELSE ChosenGcd(p[2], p[1] % p[2])
      BY ChosenGcdRecursion
    <3>2. ASSUME p[2] # 0 PROVE <<p[2], p[1] % p[2]>> \in Nat \X Nat
      <4>1. p[1] \in Nat /\ p[2] \in Nat \ {0}  BY <3>2
      <4>2. p[1] % p[2] \in 0 .. p[2] - 1  BY <4>1, Euclid
      <4> QED  BY <4>1, <4>2
    <3>3. ASSUME p[2] # 0
          PROVE  G[<<p[2], p[1] % p[2]>>] = ChosenGcd(p[2], p[1] % p[2])
      BY <3>2, <3>3
    <3> HIDE DEF G
    <3> QED  BY <3>1, <3>3
  <2> HIDE DEF G
  <2>2. Step(G) = [p \in Nat \X Nat |-> G[p]]  BY <2>1
  <2>3. G = [p \in Nat \X Nat |-> G[p]]  BY DEF G
  <2> QED  BY <2>2, <2>3
<1>2. Gcd = CHOOSE f : f = Step(f)  BY Zenon DEF Gcd
<1> HIDE DEF Step, G
<1>3. Gcd = Step(Gcd)  BY <1>1, <1>2, Zenon
<1>4. <<a, b>> \in Nat \X Nat
      /\ Step(Gcd)[<<a, b>>] = IF b = 0 THEN a ELSE Gcd[<<b, a % b>>]
  BY DEF Step
<1> QED  BY <1>3, <1>4, Zenon

(* Euclid's algorithm, by which fractions are put in lowest terms, finds   *)
(* the greatest common divisor: no least number fails it.                  *)
LEMMA GcdIs ==
  ASSUME NEW a \in Nat, NEW b \in Nat \ {0}
  PROVE  IsGcd(Gcd[<<a, b>>], a, b)
<1> DEFINE T == {n \in Nat \ {0} : \E m \in Nat : ~IsGcd(Gcd[<<m, n>>], m, n)}
<1>1. ASSUME T # {} PROVE FALSE
  <2>1. PICK n \in T : \A k \in T : n <= k
    <3>1. T \in SUBSET Nat  OBVIOUS
    <3> HIDE DEF T
    <3> QED  BY <1>1, <3>1, LeastNatural
  <2>2. n \in Nat \ {0}  OBVIOUS
  <2>3. PICK m \in Nat : ~IsGcd(Gcd[<<m, n>>], m, n)  OBVIOUS
  <2>4. m % n \in 0 .. n - 1  BY <2>2, Euclid
  <2>5. Gcd[<<m, n>>] = Gcd[<<n, m % n>>]  BY <2>2, GcdRecursion
  <2>6. IsGcd(Gcd[<<n, m % n>>], n, m % n)
    <3>1. CASE m % n = 0
      <4>1. Gcd[<<n, 0>>] = n  BY <2>2, GcdRecursion
      <4>2. Divides(n, n) /\ Divides(n, 0)  BY <2>2 DEF Divides
      <4> QED  BY <2>2, <3>1, <4>1, <4>2, DividesBounds DEF IsGcd
    <3>2. CASE m % n # 0
      <4>1. m % n \in Nat \ {0} /\ ~(n <= m % n)  BY <2>2, <2>4, <3>2
      <4>2. m % n \notin T  BY <2>1, <4>1
      <4> QED  BY <2>2, <4>1, <4>2
    <3> QED  BY <3>1, <3>2
  <2> QED  BY <2>2, <2>3, <2>5, <2>6, EuclidGcd
<1> QED  BY <1>1

----------------------------------------------------------------------------
(* A pair in lowest terms.                                                 *)
Lowest(q) ==
  /\ q \in Int \X (Nat \ {0})
  /\ \A k \in Nat \ {0} : Divides(k, q[1]) /\ Divides(k, q[2]) => k = 1

(* Signs do not matter to divisors.                                        *)
LEMMA DividesAbs ==
  ASSUME NEW k \in Int, NEW n \in Int
  PROVE  Divides(k, n) <=> Divides(k, Abs(n))
<1>1. ASSUME NEW q \in Int PROVE n = k * q <=> -n = k * (-q)  OBVIOUS
<1>2. Divides(k, n) <=> Divides(k, -n)
  <2>1. ASSUME NEW q \in Int, n = k * q PROVE Divides(k, -n)
    BY <1>1, <2>1, -q \in Int DEF Divides
  <2>2. ASSUME NEW q \in Int, -n = k * q PROVE Divides(k, n)
    <3>1. n = k * (-q) /\ -q \in Int  BY <2>2
    <3> QED  BY <3>1 DEF Divides
  <2> QED  BY <2>1, <2>2 DEF Divides
<1> QED  BY <1>2 DEF Abs

(* A number divided by a divisor.                                          *)
LEMMA ExactQuotient ==
  ASSUME NEW g \in Nat \ {0}, NEW q \in Int
  PROVE  (g * q) \div g = q
OBVIOUS

(* Fraction finds the lowest terms.                                        *)
LEMMA FractionLowest ==
  ASSUME NEW n \in Int, NEW d \in Int \ {0}
  PROVE  /\ Lowest(Fraction(n, d))
         /\ Fraction(n, d)[1] * d = n * Fraction(n, d)[2]
<1>1. CASE n = 0 \/ d = 1
  <2>1. Fraction(n, d) = <<n, 1>>  BY <1>1 DEF Fraction
  <2>2. \A k \in Nat \ {0} : Divides(k, 1) => k = 1  BY DividesBounds
  <2> QED  BY <1>1, <2>1, <2>2 DEF Lowest
<1>2. CASE ~(n = 0 \/ d = 1)
  <2> DEFINE g == Gcd[<<Abs(n), Abs(d)>>]
             s == IF d < 0 THEN -1 ELSE 1
  <2>1. Abs(n) \in Nat \ {0} /\ Abs(d) \in Nat \ {0}  BY <1>2 DEF Abs
  <2>2. IsGcd(g, Abs(n), Abs(d))  BY <2>1, GcdIs
  <2>3. Fraction(n, d) = <<(s * n) \div g, (s * d) \div g>>
    BY <1>2 DEF Fraction
  <2>4. s \in {-1, 1} /\ s * d = Abs(d)  BY DEF Abs
  <2> HIDE DEF g, s
  <2>5. g \in Nat \ {0} /\ Divides(g, Abs(n)) /\ Divides(g, Abs(d))
    BY <2>2 DEF IsGcd
  <2>6. PICK y \in Int : s * d = g * y  BY <2>4, <2>5 DEF Divides
  <2>7. PICK x \in Int : s * n = g * x
    <3>0. Divides(g, n)  BY <2>5, DividesAbs
    <3>1. PICK v \in Int : n = g * v  BY <3>0 DEF Divides
    <3>2. s * n = g * (s * v) /\ s * v \in Int  BY <2>4, <2>5, <3>1
    <3> QED  BY <3>2
  <2>8. Fraction(n, d) = <<x, y>>  BY <2>3, <2>5, <2>6, <2>7, ExactQuotient
  <2>9. y > 0
    <3>1. g * y > 0  BY <2>1, <2>4, <2>6
    <3>2. ASSUME y <= 0 PROVE g * y <= 0  BY <2>5, <3>2
    <3> QED  BY <2>5, <3>1, <3>2
  <2>10. x * d = n * y
    <3>1. s * (g * (x * d)) = s * (g * (n * y))
      <4>1. g * (x * d) = (s * n) * d  BY <2>4, <2>5, <2>7
      <4>2. g * (n * y) = n * (s * d)  BY <2>4, <2>5, <2>6
      <4>3. (s * n) * d = n * (s * d)  BY <2>4
      <4> QED  BY <4>1, <4>2, <4>3
    <3>2. g * (x * d) = g * (n * y)  BY <2>4, <2>5, <3>1
    <3>3. x * d \in Int /\ n * y \in Int  OBVIOUS
    <3> QED  BY <2>5, <3>2, <3>3
  <2>11. ASSUME NEW k \in Nat \ {0}, Divides(k, x), Divides(k, y) PROVE k = 1
    <3>1. PICK e \in Int, f \in Int : x = k * e /\ y = k * f
      BY <2>11 DEF Divides
    <3>2. Divides(g * k, s * n) /\ Divides(g * k, s * d)
      <4>1. s * n = (g * k) * e /\ s * d = (g * k) * f
        BY <2>5, <2>6, <2>7, <3>1
      <4> QED  BY <4>1 DEF Divides
    <3>3. Divides(g * k, Abs(n))
      <4>1. s * n \in Int /\ n \in Int /\ g * k \in Int /\ Abs(s * n) = Abs(n)
        BY <2>4, <2>5 DEF Abs
      <4> QED  BY <3>2, <4>1, DividesAbs
    <3>4. Divides(g * k, Abs(d))  BY <2>4, <3>2
    <3>5. g * k \in Nat \ {0}  BY <2>5
    <3>6. g * k <= g  BY <2>2, <3>3, <3>4, <3>5 DEF IsGcd
    <3>7. ASSUME k >= 2 PROVE g * k >= g + g  BY <2>5, <3>7
    <3> QED  BY <2>5, <3>6, <3>7
  <2> QED  BY <2>8, <2>9, <2>10, <2>11 DEF Lowest
<1> QED  BY <1>1, <1>2

(* The denominators with which a fraction can be written; the one in       *)
(* lowest terms is the least.                                              *)
Denominators(q) == {m \in Nat \ {0} : \E x \in Int : x * q[2] = q[1] * m}

(* In lowest terms the denominator is the least of all.                    *)
LEMMA LeastDenominator ==
  ASSUME NEW q, Lowest(q)
  PROVE  q[2] \in Denominators(q) /\ \A m \in Denominators(q) : q[2] <= m
<1> DEFINE n == q[1]
           d == q[2]
           T == Denominators(q)
<1>1. n \in Int /\ d \in Nat \ {0}  BY DEF Lowest
<1>2. d \in T  BY <1>1 DEF Denominators
<1>3. PICK m \in T : \A k \in T : m <= k
  <2>1. T \in SUBSET Nat  BY DEF Denominators
  <2> HIDE DEF T
  <2> QED  BY <1>2, <2>1, LeastNatural
<1>4. PICK x \in Int : x * d = n * m  BY DEF Denominators
<1>5. m \in Nat \ {0}  BY DEF Denominators
<1> HIDE DEF n, d
<1>6. d % m = 0
  <2> DEFINE w == d \div m
             r == d % m
  <2>1. d = m * w + r /\ w \in Int /\ r \in 0 .. m - 1  BY <1>1, <1>5
  <2> HIDE DEF w, r
  <2>2. (n - x * w) * d = n * r
    <3>1. (n - x * w) * d = n * d - (x * d) * w  BY <1>1, <2>1
    <3>2. (x * d) * w = n * (m * w)  BY <1>1, <1>4, <1>5, <2>1
    <3>3. n * d = n * (m * w) + n * r  BY <1>1, <1>5, <2>1
    <3> QED  BY <1>1, <1>5, <2>1, <3>1, <3>2, <3>3
  <2>3. n - x * w \in Int  BY <1>1, <2>1
  <2>4. ASSUME r # 0 PROVE r \in T  BY <2>1, <2>2, <2>3, <2>4, <1>5 DEF Denominators, n, d
  <2>5. ~(m <= r)  BY <2>1, <1>5
  <2>6. r = 0  BY <2>4, <2>5, <1>3
  <2> QED  BY <2>6 DEF r
<1>7. PICK k \in Int : d = m * k
  <2>1. d = m * (d \div m) + (d % m) /\ d \div m \in Int  BY <1>1, <1>5
  <2>2. d = m * (d \div m)  BY <2>1, <1>6, <1>1, <1>5
  <2> QED  BY <2>1, <2>2
<1>8. k > 0
  <2>1. ASSUME k <= 0 PROVE m * k <= 0  BY <2>1, <1>5
  <2> QED  BY <2>1, <1>1, <1>7
<1>9. n = x * k
  <2>1. m * (x * k) = m * n  BY <1>1, <1>4, <1>5, <1>7
  <2>2. x * k \in Int  OBVIOUS
  <2> QED  BY <2>1, <2>2, <1>1, <1>5
<1>10. k = 1
  <2>1. n = k * x /\ d = k * m /\ m \in Int  BY <1>5, <1>7, <1>9
  <2>2. Divides(k, n) /\ Divides(k, d)  BY <2>1 DEF Divides
  <2> QED  BY <2>2, <1>8 DEF Lowest, n, d
<1>11. d = m  BY <1>5, <1>7, <1>10
<1> QED  BY <1>2, <1>3, <1>11 DEF d

(* The lowest terms are unique.                                            *)
LEMMA LowestUnique ==
  ASSUME NEW p, NEW q, Lowest(p), Lowest(q), p[1] * q[2] = q[1] * p[2]
  PROVE  p = q
<1>1. /\ p = <<p[1], p[2]>> /\ p[1] \in Int /\ p[2] \in Nat \ {0}
      /\ q = <<q[1], q[2]>> /\ q[1] \in Int /\ q[2] \in Nat \ {0}
  BY DEF Lowest
<1>2. p[2] \in Denominators(q) /\ q[2] \in Denominators(p)
  BY <1>1 DEF Denominators
<1>3. p[2] = q[2]  BY <1>1, <1>2, LeastDenominator
<1>4. p[1] = q[1]  BY <1>1, <1>3
<1> QED  BY <1>1, <1>3, <1>4, Zenon

(* Fractions are the pairs in lowest terms, and Fraction gives them.       *)
LEMMA LowestIsFraction ==
  ASSUME NEW q
  PROVE  q \in Fractions <=> Lowest(q)
<1>1. ASSUME q \in Fractions PROVE Lowest(q)
  <2>1. q[1] \in Int /\ q[2] \in Int \ {0} /\ Fraction(q[1], q[2]) = q
    BY <1>1 DEF Fractions
  <2> QED  BY <2>1, FractionLowest
<1>2. ASSUME Lowest(q) PROVE q \in Fractions
  <2>1. q \in Int \X (Nat \ {0}) /\ q[1] \in Int /\ q[2] \in Int \ {0}
    BY <1>2 DEF Lowest
  <2>2. Fraction(q[1], q[2]) = q
    <3>1. Lowest(Fraction(q[1], q[2]))
          /\ Fraction(q[1], q[2])[1] * q[2] = q[1] * Fraction(q[1], q[2])[2]
      BY <2>1, FractionLowest
    <3> QED  BY <1>2, <3>1, LowestUnique
  <2> QED  BY <2>1, <2>2 DEF Fractions
<1> QED  BY <1>1, <1>2

----------------------------------------------------------------------------
(* A fraction written with any denominator.                                *)
Is(q, n, d) ==
  q \in Fractions /\ n \in Int /\ d \in Nat \ {0} /\ q[1] * d = n * q[2]

(* A fraction is what its numerator and denominator say.                   *)
LEMMA FractionParts ==
  ASSUME NEW q \in Fractions
  PROVE  q[1] \in Int /\ q[2] \in Nat \ {0} /\ q = <<q[1], q[2]>> /\ Is(q, q[1], q[2])
BY DEF Fractions, Is

(* Fraction finds the fraction it is asked for.                            *)
LEMMA FractionIs ==
  ASSUME NEW n \in Int, NEW d \in Nat \ {0}
  PROVE  Is(Fraction(n, d), n, d)
BY FractionLowest, LowestIsFraction DEF Is

(* A whole number over any denominator.                                    *)
LEMMA WholeIs ==
  ASSUME NEW n \in Int, NEW d \in Nat \ {0}
  PROVE  Is(Q(n), n * d, d)
<1>1. Fraction(n, 1) = <<n, 1>>  BY DEF Fraction
<1>2. <<n, 1>> \in Fractions  BY <1>1 DEF Fractions
<1> QED  BY <1>2 DEF Q, Is

(* A factor other than 0 cancels.                                          *)
LEMMA Cancel ==
  ASSUME NEW x \in Int, NEW y \in Int, NEW k \in Int \ {0}, x * k = y * k
  PROVE  x = y
OBVIOUS

(* The denominator may be multiplied.                                      *)
LEMMA ScaledIs ==
  ASSUME NEW q, NEW n, NEW d, Is(q, n, d), NEW e \in Nat \ {0}
  PROVE  Is(q, n * e, d * e)
<1>1. n \in Int /\ d \in Nat \ {0} /\ q[1] * d = n * q[2] /\ q \in Fractions
  BY DEF Is
<1>2. q[1] \in Int /\ q[2] \in Int  BY <1>1, FractionParts
<1>3. q[1] * (d * e) = (n * e) * q[2]
  <2>1. q[1] * (d * e) = (q[1] * d) * e  BY <1>1, <1>2
  <2>2. (n * e) * q[2] = (n * q[2]) * e  BY <1>1, <1>2
  <2> QED  BY <1>1, <2>1, <2>2
<1>4. d * e \in Nat \ {0} /\ n * e \in Int  BY <1>1
<1> QED  BY <1>1, <1>3, <1>4 DEF Is

(* The arithmetic of fractions on what they are over one denominator.      *)
LEMMA SumIs ==
  ASSUME NEW a, NEW b, NEW m, NEW n, NEW d, Is(a, m, d), Is(b, n, d)
  PROVE  Is(a \oplus b, m + n, d) /\ Is(a \ominus b, m - n, d)
<1>1. /\ m \in Int /\ n \in Int /\ d \in Nat \ {0}
      /\ a[1] * d = m * a[2] /\ b[1] * d = n * b[2]
      /\ a[1] \in Int /\ b[1] \in Int /\ a[2] \in Nat \ {0} /\ b[2] \in Nat \ {0}
  BY FractionParts DEF Is
<1>2. ASSUME NEW x \in Int, NEW k \in Int, x * d = k * (a[2] * b[2])
      PROVE  Is(Fraction(x, a[2] * b[2]), k, d)
  <2> DEFINE e == a[2] * b[2]
             c == Fraction(x, e)
  <2>1. e \in Nat \ {0}  BY <1>1
  <2> HIDE DEF e
  <2>2. Is(c, x, e)  BY <2>1, FractionIs
  <2>3. c[1] * e = x * c[2] /\ c[1] \in Int /\ c[2] \in Int /\ c \in Fractions
    BY <2>2, FractionParts DEF Is
  <2> HIDE DEF c
  <2>4. (c[1] * d) * e = (k * c[2]) * e
    <3>1. (c[1] * d) * e = (c[1] * e) * d  BY <1>1, <2>1, <2>3
    <3>2. (x * c[2]) * d = (x * d) * c[2]  BY <1>1, <2>1, <2>3
    <3>3. x * d = k * e  BY <1>2 DEF e
    <3>4. (k * e) * c[2] = (k * c[2]) * e  BY <1>1, <2>1, <2>3
    <3> QED  BY <2>3, <3>1, <3>2, <3>3, <3>4
  <2>5. c[1] * d \in Int /\ k * c[2] \in Int  BY <1>1, <2>3
  <2>6. c[1] * d = k * c[2]  BY <2>1, <2>4, <2>5, Cancel
  <2> QED  BY <1>1, <2>3, <2>6 DEF Is, c, e
<1>3. /\ (a[1] * b[2] + b[1] * a[2]) * d = (m + n) * (a[2] * b[2])
      /\ (a[1] * b[2] - b[1] * a[2]) * d = (m - n) * (a[2] * b[2])
  <2>1. (a[1] * b[2]) * d = m * (a[2] * b[2])
    <3>1. (a[1] * b[2]) * d = (a[1] * d) * b[2]  BY <1>1
    <3>2. (m * a[2]) * b[2] = m * (a[2] * b[2])  BY <1>1
    <3> QED  BY <1>1, <3>1, <3>2
  <2>2. (b[1] * a[2]) * d = n * (a[2] * b[2])
    <3>1. (b[1] * a[2]) * d = (b[1] * d) * a[2]  BY <1>1
    <3>2. (n * b[2]) * a[2] = n * (a[2] * b[2])  BY <1>1
    <3> QED  BY <1>1, <3>1, <3>2
  <2> DEFINE x == a[1] * b[2]
             y == b[1] * a[2]
             e == a[2] * b[2]
  <2>3. x \in Int /\ y \in Int /\ e \in Int  BY <1>1
  <2>4. x * d = m * e /\ y * d = n * e  BY <2>1, <2>2
  <2> HIDE DEF x, y, e
  <2>5. (x + y) * d = (m + n) * e /\ (x - y) * d = (m - n) * e
    BY <1>1, <2>3, <2>4
  <2> QED  BY <2>5 DEF x, y, e
<1>4. /\ a[1] * b[2] + b[1] * a[2] \in Int /\ m + n \in Int
      /\ a[1] * b[2] - b[1] * a[2] \in Int /\ m - n \in Int
  BY <1>1
<1> QED  BY <1>2, <1>3, <1>4 DEF \oplus, \ominus

(* The product of fractions.                                               *)
LEMMA ProductIs ==
  ASSUME NEW a, NEW b, NEW m, NEW n, NEW d, NEW e, Is(a, m, d), Is(b, n, e)
  PROVE  Is(a \otimes b, m * n, d * e)
<1>1. /\ m \in Int /\ n \in Int /\ d \in Nat \ {0} /\ e \in Nat \ {0}
      /\ a[1] * d = m * a[2] /\ b[1] * e = n * b[2]
      /\ a[1] \in Int /\ b[1] \in Int /\ a[2] \in Nat \ {0} /\ b[2] \in Nat \ {0}
  BY FractionParts DEF Is
<1> DEFINE c == a \otimes b
           x == a[1] * b[1]
           z == a[2] * b[2]
           k == m * n
           f == d * e
<1>2. x \in Int /\ z \in Nat \ {0} /\ k \in Int /\ f \in Nat \ {0}  BY <1>1
<1>3. c = Fraction(x, z)  BY DEF \otimes
<1>4. x * f = k * z
  <2>1. x * f = (a[1] * d) * (b[1] * e)  BY <1>1
  <2>2. k * z = (m * a[2]) * (n * b[2])  BY <1>1
  <2> QED  BY <1>1, <2>1, <2>2
<1> HIDE DEF x, z, k, f, c
<1>5. c[1] * z = x * c[2] /\ c[1] \in Int /\ c[2] \in Int /\ c \in Fractions
  <2>1. Is(c, x, z)  BY <1>2, <1>3, FractionIs
  <2> QED  BY <2>1, FractionParts DEF Is
<1>6. (c[1] * f) * z = (k * c[2]) * z
  <2>1. (c[1] * f) * z = (c[1] * z) * f  BY <1>2, <1>5
  <2>2. (x * c[2]) * f = (x * f) * c[2]  BY <1>2, <1>5
  <2>3. (k * z) * c[2] = (k * c[2]) * z  BY <1>2, <1>5
  <2> QED  BY <1>4, <1>5, <2>1, <2>2, <2>3
<1>7. c[1] * f \in Int /\ k * c[2] \in Int  BY <1>2, <1>5
<1>8. c[1] * f = k * c[2]  BY <1>2, <1>6, <1>7, Cancel
<1> QED  BY <1>2, <1>5, <1>8 DEF Is, c, k, f

(* The negative of a fraction.                                             *)
LEMMA NegativeIs ==
  ASSUME NEW a, NEW n, NEW d, Is(a, n, d)
  PROVE  Is(Negative(a), -n, d)
<1>1. Lowest(a) /\ n \in Int /\ d \in Nat \ {0} /\ a[1] * d = n * a[2]
  BY LowestIsFraction DEF Is
<1>2. a[1] \in Int /\ a[2] \in Nat \ {0}  BY <1>1 DEF Lowest
<1>3. Lowest(<<-a[1], a[2]>>)
  <2>1. ASSUME NEW k \in Nat \ {0}, Divides(k, -a[1]) PROVE Divides(k, a[1])
    <3>1. PICK q \in Int : -a[1] = k * q  BY <2>1 DEF Divides
    <3>2. a[1] = k * (-q) /\ -q \in Int  BY <1>2, <3>1
    <3> QED  BY <3>2 DEF Divides
  <2> QED  BY <1>1, <1>2, <2>1 DEF Lowest
<1>4. (-a[1]) * d = (-n) * a[2]  BY <1>1, <1>2
<1> QED  BY <1>1, <1>3, <1>4, LowestIsFraction DEF Is, Negative

(* Equality and order are those over one denominator.                      *)
LEMMA OrderIs ==
  ASSUME NEW a, NEW b, NEW m, NEW n, NEW d, Is(a, m, d), Is(b, n, d)
  PROVE  (a = b <=> m = n) /\ (Less(a, b) <=> m < n)
<1>1. /\ m \in Int /\ n \in Int /\ d \in Nat \ {0}
      /\ a[1] * d = m * a[2] /\ b[1] * d = n * b[2]
      /\ a[1] \in Int /\ b[1] \in Int /\ a[2] \in Nat \ {0} /\ b[2] \in Nat \ {0}
  BY FractionParts DEF Is
<1> DEFINE e == a[2] * b[2]
           u == a[1] * b[2]
           v == b[1] * a[2]
<1>2. e \in Nat \ {0} /\ u \in Int /\ v \in Int  BY <1>1
<1>3. u * d = m * e /\ v * d = n * e
  <2>1. (a[1] * b[2]) * d = m * (a[2] * b[2])
    <3>1. (a[1] * b[2]) * d = (a[1] * d) * b[2]  BY <1>1
    <3>2. (m * a[2]) * b[2] = m * (a[2] * b[2])  BY <1>1
    <3> QED  BY <1>1, <3>1, <3>2
  <2>2. (b[1] * a[2]) * d = n * (a[2] * b[2])
    <3>1. (b[1] * a[2]) * d = (b[1] * d) * a[2]  BY <1>1
    <3>2. (n * b[2]) * a[2] = n * (a[2] * b[2])  BY <1>1
    <3> QED  BY <1>1, <3>1, <3>2
  <2> QED  BY <2>1, <2>2
<1>4. (a = b <=> u = v) /\ (Less(a, b) <=> u < v)
  <2>1. u = v => a = b  BY LowestIsFraction, LowestUnique DEF Is
  <2> QED  BY <2>1 DEF Less
<1> HIDE DEF e, u, v
<1>5. (v - u) * d = (n - m) * e  BY <1>1, <1>2, <1>3
<1>6. ASSUME NEW x \in Int, NEW k \in Nat \ {0}
      PROVE  (x > 0 <=> x * k > 0) /\ (x = 0 <=> x * k = 0)
  <2>1. x > 0 => x * k > 0  OBVIOUS
  <2>2. x < 0 => x * k < 0
    <3>1. -x > 0 => (-x) * k > 0  OBVIOUS
    <3> QED  BY <3>1
  <2>3. x = 0 => x * k = 0  OBVIOUS
  <2> QED  BY <2>1, <2>2, <2>3
<1>7. v - u \in Int /\ n - m \in Int  BY <1>1, <1>2
<1>8. (v - u > 0 <=> n - m > 0) /\ (v - u = 0 <=> n - m = 0)
  BY <1>1, <1>2, <1>5, <1>6, <1>7
<1> QED  BY <1>1, <1>2, <1>4, <1>8

(* Fractions with numerator and denominator in common are the same.        *)
LEMMA SameIs ==
  ASSUME NEW a, NEW b, NEW m, NEW n, NEW d, NEW e,
         Is(a, m, d), Is(b, n, e), m = n, d = e
  PROVE  a = b
BY OrderIs

(* Fractions have a denominator in common.                                 *)
LEMMA Common ==
  ASSUME NEW a \in Fractions, NEW b \in Fractions, NEW c \in Fractions
  PROVE  \E x, y, z \in Int, d \in Nat \ {0} : Is(a, x, d) /\ Is(b, y, d) /\ Is(c, z, d)
<1>1. /\ a[2] \in Nat \ {0} /\ b[2] \in Nat \ {0} /\ c[2] \in Nat \ {0}
      /\ a[1] \in Int /\ b[1] \in Int /\ c[1] \in Int
      /\ Is(a, a[1], a[2]) /\ Is(b, b[1], b[2]) /\ Is(c, c[1], c[2])
  BY FractionParts
<1> DEFINE d == a[2] * b[2] * c[2]
<1>2. Is(a, a[1] * (b[2] * c[2]), d)
  <2>1. b[2] * c[2] \in Nat \ {0} /\ d = a[2] * (b[2] * c[2])  BY <1>1
  <2> QED  BY <1>1, <2>1, ScaledIs
<1>3. Is(b, b[1] * (a[2] * c[2]), d)
  <2>1. a[2] * c[2] \in Nat \ {0} /\ d = b[2] * (a[2] * c[2])  BY <1>1
  <2> QED  BY <1>1, <2>1, ScaledIs
<1>4. Is(c, c[1] * (a[2] * b[2]), d)
  <2>1. a[2] * b[2] \in Nat \ {0} /\ d = c[2] * (a[2] * b[2])  BY <1>1
  <2> QED  BY <1>1, <2>1, ScaledIs
<1> HIDE DEF d
<1> QED  BY <1>2, <1>3, <1>4 DEF Is

(* Six at once.                                                            *)
LEMMA Common6 ==
  ASSUME NEW q, \A i \in 1 .. 6 : q[i] \in Fractions
  PROVE  \E n, d : d \in Nat \ {0} /\ \A i \in 1 .. 6 : n[i] \in Int /\ Is(q[i], n[i], d)
<1> DEFINE a == q[1]
           b == q[2]
           c == q[3]
           e == q[4]
           f == q[5]
           g == q[6]
<1>0. /\ a \in Fractions /\ b \in Fractions /\ c \in Fractions
      /\ e \in Fractions /\ f \in Fractions /\ g \in Fractions
  OBVIOUS
<1> HIDE DEF a, b, c, e, f, g
<1>1. PICK x, y, z \in Int, d \in Nat \ {0} : Is(a, x, d) /\ Is(b, y, d) /\ Is(c, z, d)
  BY <1>0, Common
<1>2. PICK u, v, w \in Int, k \in Nat \ {0} : Is(e, u, k) /\ Is(f, v, k) /\ Is(g, w, k)
  BY <1>0, Common
<1> DEFINE m == d * k
<1>3. Is(a, x * k, m) /\ Is(b, y * k, m) /\ Is(c, z * k, m)
  BY <1>1, ScaledIs, Zenon
<1>4. Is(e, u * d, m) /\ Is(f, v * d, m) /\ Is(g, w * d, m)
  <2>1. k * d = m  OBVIOUS
  <2>2. Is(e, u * d, k * d) /\ Is(f, v * d, k * d) /\ Is(g, w * d, k * d)
    BY <1>2, ScaledIs, Zenon
  <2> QED  BY <2>1, <2>2, Zenon
<1>5. /\ x * k \in Int /\ y * k \in Int /\ z * k \in Int /\ m \in Nat \ {0}
      /\ u * d \in Int /\ v * d \in Int /\ w * d \in Int
  OBVIOUS
<1> HIDE DEF m
<1> DEFINE n == <<x * k, y * k, z * k, u * d, v * d, w * d>>
<1>6. /\ n[1] = x * k /\ n[2] = y * k /\ n[3] = z * k
      /\ n[4] = u * d /\ n[5] = v * d /\ n[6] = w * d
  OBVIOUS
<1> HIDE DEF n
<1>7. /\ Is(q[1], n[1], m) /\ Is(q[2], n[2], m) /\ Is(q[3], n[3], m)
      /\ Is(q[4], n[4], m) /\ Is(q[5], n[5], m) /\ Is(q[6], n[6], m)
  BY <1>3, <1>4, <1>6, Zenon DEF a, b, c, e, f, g
<1>8. \A i \in 1 .. 6 : n[i] \in Int /\ Is(q[i], n[i], m)  BY <1>5, <1>6, <1>7
<1> QED  BY <1>5, <1>8, Zenon

(* Four at once.                                                           *)
LEMMA Common4 ==
  ASSUME NEW a \in Fractions, NEW b \in Fractions, NEW c \in Fractions, NEW e \in Fractions
  PROVE  \E x, y, z, u \in Int, d \in Nat \ {0} :
           Is(a, x, d) /\ Is(b, y, d) /\ Is(c, z, d) /\ Is(e, u, d)
<1>1. PICK x, y, z \in Int, d \in Nat \ {0} : Is(a, x, d) /\ Is(b, y, d) /\ Is(c, z, d)
  BY Common
<1>2. Is(e, e[1], e[2]) /\ e[1] \in Int /\ e[2] \in Nat \ {0}  BY FractionParts
<1> DEFINE k == e[2]
           m == d * k
<1>3. Is(a, x * k, m) /\ Is(b, y * k, m) /\ Is(c, z * k, m)
  BY <1>1, <1>2, ScaledIs, Zenon
<1>4. Is(e, e[1] * d, m)
  <2>1. k * d = m  BY <1>2
  <2>2. Is(e, e[1] * d, k * d)  BY <1>2, ScaledIs, Zenon
  <2> QED  BY <2>1, <2>2, Zenon
<1>5. /\ x * k \in Int /\ y * k \in Int /\ z * k \in Int /\ m \in Nat \ {0}
      /\ e[1] * d \in Int
  BY <1>2
<1> HIDE DEF m, k
<1> QED  BY <1>3, <1>4, <1>5, Zenon

(* The quotient of fractions, the second of which is positive.             *)
LEMMA QuotientIs ==
  ASSUME NEW a, NEW b, NEW m, NEW n, NEW d, Is(a, m, d), Is(b, n, d), n > 0
  PROVE  Is(a \oslash b, m, n)
<1>1. /\ m \in Int /\ n \in Nat \ {0} /\ d \in Nat \ {0}
      /\ a[1] * d = m * a[2] /\ b[1] * d = n * b[2]
      /\ a[1] \in Int /\ b[1] \in Int /\ a[2] \in Nat \ {0} /\ b[2] \in Nat \ {0}
  BY FractionParts DEF Is
<1>2. b[1] \in Nat \ {0}
  <2>1. n * b[2] > 0  BY <1>1
  <2>2. ASSUME b[1] <= 0 PROVE b[1] * d <= 0  BY <1>1, <2>2
  <2> QED  BY <1>1, <2>1, <2>2
<1> DEFINE c == a \oslash b
           x == a[1] * b[2]
           z == a[2] * b[1]
<1>3. x \in Int /\ z \in Nat \ {0}  BY <1>1, <1>2
<1>4. c = Fraction(x, z)  BY DEF \oslash
<1>5. (x * n) * d = (m * z) * d
  <2>1. (x * n) * d = (a[1] * d) * (n * b[2])  BY <1>1
  <2>2. (m * z) * d = (m * a[2]) * (b[1] * d)  BY <1>1
  <2> QED  BY <1>1, <2>1, <2>2
<1> HIDE DEF x, z, c
<1>6. c[1] * z = x * c[2] /\ c[1] \in Int /\ c[2] \in Int /\ c \in Fractions
  <2>1. Is(c, x, z)  BY <1>3, <1>4, FractionIs
  <2> QED  BY <2>1, FractionParts DEF Is
<1>7. x * n = m * z
  <2>1. x * n \in Int /\ m * z \in Int /\ d \in Int \ {0}  BY <1>1, <1>3
  <2> QED  BY <1>1, <1>5, <2>1, Cancel
<1>8. (c[1] * n) * z = (m * c[2]) * z
  <2>1. (c[1] * n) * z = (c[1] * z) * n  BY <1>1, <1>3, <1>6
  <2>2. (x * c[2]) * n = (x * n) * c[2]  BY <1>1, <1>3, <1>6
  <2>3. (m * z) * c[2] = (m * c[2]) * z  BY <1>1, <1>3, <1>6
  <2> QED  BY <1>6, <1>7, <2>1, <2>2, <2>3
<1>9. c[1] * n = m * c[2]
  <2>1. c[1] * n \in Int /\ m * c[2] \in Int  BY <1>1, <1>6
  <2> QED  BY <1>3, <1>8, <2>1, Cancel
<1> QED  BY <1>1, <1>6, <1>9 DEF Is, c

----------------------------------------------------------------------------
(* The fractions are a ring.                                               *)
LEMMA Closed ==
  /\ Zero \in Fractions /\ One \in Fractions
  /\ \A n \in Int : Q(n) \in Fractions
  /\ \A a, b \in Fractions :
       /\ a \oplus b \in Fractions /\ a \ominus b \in Fractions
       /\ a \otimes b \in Fractions /\ Negative(a) \in Fractions
<1>1. \A n \in Int : Q(n) \in Fractions  BY WholeIs, 1 \in Nat \ {0} DEF Is
<1>2. ASSUME NEW a \in Fractions, NEW b \in Fractions
      PROVE  /\ a \oplus b \in Fractions /\ a \ominus b \in Fractions
             /\ a \otimes b \in Fractions /\ Negative(a) \in Fractions
  <2>1. PICK x, y, z \in Int, d \in Nat \ {0} : Is(a, x, d) /\ Is(b, y, d) /\ Is(b, z, d)
    BY Common
  <2>2. Is(a \oplus b, x + y, d) /\ Is(a \ominus b, x - y, d)  BY <2>1, SumIs, Zenon
  <2>3. Is(a \otimes b, x * y, d * d)  BY <2>1, ProductIs, Zenon
  <2>4. Is(Negative(a), -x, d)  BY <2>1, NegativeIs, Zenon
  <2> QED  BY <2>2, <2>3, <2>4, Zenon DEF Is
<1>3. Zero \in Fractions /\ One \in Fractions  BY <1>1 DEF Zero, One
<1> QED  BY <1>1, <1>2, <1>3

(* 0 and 1 over any denominator.                                           *)
LEMMA ZeroIs ==
  ASSUME NEW d \in Nat \ {0}
  PROVE  Is(Zero, 0, d) /\ Is(One, d, d)
<1>1. 0 * d = 0 /\ 1 * d = d  OBVIOUS
<1> QED  BY <1>1, WholeIs DEF Zero, One

(* Products may be reordered and distributed.                              *)
LEMMA ProductLaws ==
  ASSUME NEW a \in Fractions, NEW b \in Fractions, NEW c \in Fractions
  PROVE  /\ a \otimes b = b \otimes a
         /\ (a \otimes b) \otimes c = a \otimes (b \otimes c)
         /\ a \otimes (b \oplus c) = (a \otimes b) \oplus (a \otimes c)
         /\ (b \oplus c) \otimes a = (b \otimes a) \oplus (c \otimes a)
         /\ Negative(a) \otimes b = Negative(a \otimes b)
         /\ a \otimes Negative(b) = Negative(a \otimes b)
<1>1. PICK x, y, z \in Int, d \in Nat \ {0} : Is(a, x, d) /\ Is(b, y, d) /\ Is(c, z, d)
  BY Common
<1>2. /\ Is(a \otimes b, x * y, d * d) /\ Is(b \otimes a, y * x, d * d)
      /\ Is(b \otimes c, y * z, d * d) /\ Is(a \otimes c, x * z, d * d)
      /\ Is(c \otimes a, z * x, d * d)
  BY <1>1, ProductIs, Zenon
<1>3. /\ Is((a \otimes b) \otimes c, (x * y) * z, (d * d) * d)
      /\ Is(a \otimes (b \otimes c), x * (y * z), d * (d * d))
  BY <1>1, <1>2, ProductIs, Zenon
<1>4. /\ Is(a \otimes (b \oplus c), x * (y + z), d * d)
      /\ Is((b \oplus c) \otimes a, (y + z) * x, d * d)
  <2>1. Is(b \oplus c, y + z, d)  BY <1>1, SumIs, Zenon
  <2> QED  BY <1>1, <2>1, ProductIs, Zenon
<1>5. /\ Is((a \otimes b) \oplus (a \otimes c), (x * y) + (x * z), d * d)
      /\ Is((b \otimes a) \oplus (c \otimes a), (y * x) + (z * x), d * d)
  BY <1>2, SumIs, Zenon
<1>6. /\ Is(Negative(a) \otimes b, (-x) * y, d * d)
      /\ Is(a \otimes Negative(b), x * (-y), d * d)
      /\ Is(Negative(a \otimes b), -(x * y), d * d)
  <2>1. Is(Negative(a), -x, d) /\ Is(Negative(b), -y, d)  BY <1>1, NegativeIs, Zenon
  <2>2. Is(Negative(a \otimes b), -(x * y), d * d)  BY <1>2, NegativeIs, Zenon
  <2> QED  BY <1>1, <2>1, <2>2, ProductIs, Zenon
<1>7. /\ x * y = y * x /\ (x * y) * z = x * (y * z) /\ (d * d) * d = d * (d * d)
      /\ x * (y + z) = (x * y) + (x * z) /\ (y + z) * x = (y * x) + (z * x)
      /\ (-x) * y = -(x * y) /\ x * (-y) = -(x * y)
  OBVIOUS
<1>8. /\ a \otimes b = b \otimes a
      /\ a \otimes (b \oplus c) = (a \otimes b) \oplus (a \otimes c)
      /\ (b \oplus c) \otimes a = (b \otimes a) \oplus (c \otimes a)
  BY <1>2, <1>4, <1>5, <1>7, SameIs, Zenon
<1>9. (a \otimes b) \otimes c = a \otimes (b \otimes c)
  BY <1>3, <1>7, SameIs, Zenon
<1>10. Negative(a) \otimes b = Negative(a \otimes b)
       /\ a \otimes Negative(b) = Negative(a \otimes b)
  BY <1>6, <1>7, SameIs, Zenon
<1> QED  BY <1>8, <1>9, <1>10

(* What 0, 1 and the negative do.                                          *)
LEMMA NeutralLaws ==
  /\ Negative(Zero) = Zero
  /\ \A a \in Fractions :
       /\ a \oplus Zero = a /\ Zero \oplus a = a /\ a \ominus Zero = a
       /\ a \otimes One = a /\ One \otimes a = a
       /\ a \otimes Zero = Zero /\ Zero \otimes a = Zero
       /\ a \ominus a = Zero /\ Zero \ominus a = Negative(a)
       /\ a \oplus Negative(a) = Zero /\ Negative(a) \oplus a = Zero
       /\ Negative(Negative(a)) = a
<1>1. Negative(Zero) = Zero  
  <2>1. ASSUME NEW n \in Int, n = 0 PROVE -n = n
    <3>1. -n = 0 - n  OBVIOUS
    <3> QED  BY <2>1, <3>1
  <2>2. Zero[1] \in Int /\ Zero[1] = 0 /\ Zero[2] = 1 /\ Zero = <<0, 1>>
    BY DEF Zero, Q
  <2> QED  BY <2>1, <2>2, Zenon DEF Negative
<1>2. ASSUME NEW a \in Fractions
      PROVE  /\ a \oplus Zero = a /\ Zero \oplus a = a /\ a \ominus Zero = a
             /\ a \otimes One = a /\ One \otimes a = a
             /\ a \otimes Zero = Zero /\ Zero \otimes a = Zero
             /\ a \ominus a = Zero /\ Zero \ominus a = Negative(a)
             /\ a \oplus Negative(a) = Zero /\ Negative(a) \oplus a = Zero
             /\ Negative(Negative(a)) = a
  <2>1. PICK x, y, z \in Int, d \in Nat \ {0} : Is(a, x, d) /\ Is(a, y, d) /\ Is(a, z, d)
    BY Common
  <2>2. Is(Zero, 0, d) /\ Is(One, d, d) /\ Is(Negative(a), -x, d)
    BY <2>1, ZeroIs, NegativeIs, Zenon
  <2>3. /\ Is(a \oplus Zero, x + 0, d) /\ Is(Zero \oplus a, 0 + x, d)
        /\ Is(a \ominus Zero, x - 0, d) /\ Is(Zero \ominus a, 0 - x, d)
        /\ Is(a \ominus a, x - x, d)
        /\ Is(a \oplus Negative(a), x + (-x), d)
        /\ Is(Negative(a) \oplus a, (-x) + x, d)
        /\ Is(Negative(Negative(a)), -(-x), d)
    BY <2>1, <2>2, SumIs, NegativeIs, Zenon
  <2>4. /\ x + 0 = x /\ 0 + x = x /\ x - 0 = x /\ 0 - x = -x /\ x - x = 0
        /\ x + (-x) = 0 /\ (-x) + x = 0 /\ -(-x) = x
    OBVIOUS
  <2>5. /\ a \oplus Zero = a /\ Zero \oplus a = a /\ a \ominus Zero = a
        /\ a \ominus a = Zero /\ Zero \ominus a = Negative(a)
        /\ a \oplus Negative(a) = Zero /\ Negative(a) \oplus a = Zero
        /\ Negative(Negative(a)) = a
    <3>1. a \oplus Zero = a /\ Zero \oplus a = a /\ a \ominus Zero = a
      BY <2>1, <2>3, <2>4, SameIs, Zenon
    <3>2. a \ominus a = Zero /\ Zero \ominus a = Negative(a)
      BY <2>2, <2>3, <2>4, SameIs, Zenon
    <3>3. a \oplus Negative(a) = Zero /\ Negative(a) \oplus a = Zero
      BY <2>2, <2>3, <2>4, OrderIs
    <3>4. Negative(Negative(a)) = a  BY <2>1, <2>3, <2>4, SameIs, Zenon
    <3> QED  BY <3>1, <3>2, <3>3, <3>4
  <2>6. /\ Is(a \otimes One, x * d, d * d) /\ Is(One \otimes a, d * x, d * d)
        /\ Is(a \otimes Zero, x * 0, d * d) /\ Is(Zero \otimes a, 0 * x, d * d)
    BY <2>1, <2>2, ProductIs, Zenon
  <2>7. Is(a, x * d, d * d)  BY <2>1, ScaledIs, Zenon
  <2>8. Is(Zero, 0, d * d)  BY ZeroIs
  <2>9. d * x = x * d /\ x * 0 = 0 /\ 0 * x = 0  OBVIOUS
  <2>10. /\ a \otimes One = a /\ One \otimes a = a
         /\ a \otimes Zero = Zero /\ Zero \otimes a = Zero
    BY <2>6, <2>7, <2>8, <2>9, SameIs, Zenon
  <2> QED  BY <2>5, <2>10
<1> QED  BY <1>1, <1>2

(* Bezout: of two numbers without a common divisor, multiples differ by 1. *)
LEMMA Bezout ==
  ASSUME NEW q, Lowest(q)
  PROVE  \E u, v \in Int : u * q[1] + v * q[2] = 1
<1> DEFINE a == q[1]
           b == q[2]
           T == {m \in Nat \ {0} : \E u, v \in Int : u * a + v * b = m}
<1>1. a \in Int /\ b \in Nat \ {0}  BY DEF Lowest
<1>2. \A k \in Nat \ {0} : Divides(k, a) /\ Divides(k, b) => k = 1  BY DEF Lowest
<1> HIDE DEF a, b
<1>3. b \in T  
  <2>1. 0 * a + 1 * b = b  BY <1>1
  <2> QED  BY <1>1, <2>1
<1>4. PICK m \in T : \A k \in T : m <= k
  <2>1. T \in SUBSET Nat  OBVIOUS
  <2> HIDE DEF T
  <2> QED  BY <1>3, <2>1, LeastNatural
<1>5. PICK u \in Int, v \in Int : u * a + v * b = m  OBVIOUS
<1>6. m \in Nat \ {0}  OBVIOUS
<1>7. ASSUME NEW n \in Int, NEW s \in Int, NEW t \in Int, n = s * a + t * b
      PROVE  Divides(m, n)
  <2> DEFINE w == n \div m
             r == n % m
  <2>1. n = m * w + r /\ w \in Int /\ r \in 0 .. m - 1  BY <1>6
  <2> HIDE DEF w, r
  <2>2. (s - w * u) * a + (t - w * v) * b = r
    <3>1. (s - w * u) * a + (t - w * v) * b = n - w * (u * a + v * b)
      BY <1>1, <1>7, <2>1
    <3>2. w * m = m * w  BY <2>1, <1>6
    <3> QED  BY <1>5, <1>6, <2>1, <3>1, <3>2
  <2>3. s - w * u \in Int /\ t - w * v \in Int  BY <2>1
  <2>4. ASSUME r # 0 PROVE r \in T  BY <2>1, <2>2, <2>3, <2>4
  <2>5. ~(m <= r)  BY <2>1, <1>6
  <2>6. r = 0  BY <2>4, <2>5, <1>4
  <2>7. n = m * w  BY <2>1, <2>6, <1>6
  <2> QED  BY <2>1, <2>7 DEF Divides
<1>8. m = 1
  <2>1. a = 1 * a + 0 * b /\ b = 0 * a + 1 * b /\ 0 \in Int /\ 1 \in Int  BY <1>1
  <2>2. a \in Int /\ b \in Int  BY <1>1
  <2>3. Divides(m, a) /\ Divides(m, b)  BY <1>7, <2>1, <2>2, Zenon
  <2> QED  BY <1>2, <1>6, <2>3
<1> QED  BY <1>5, <1>8 DEF a, b

(* A square is in lowest terms where its root is.                          *)
LEMMA SquareLowest ==
  ASSUME NEW q, Lowest(q)
  PROVE  Lowest(<<q[1] * q[1], q[2] * q[2]>>)
<1> DEFINE a == q[1]
           b == q[2]
<1>1. a \in Int /\ b \in Nat \ {0}  BY DEF Lowest
<1>2. PICK u \in Int, v \in Int : u * a + v * b = 1  BY Bezout
<1> HIDE DEF a, b
<1> DEFINE x == u * a
           y == v * b
           s == u * u * (x + 3 * y)
           t == v * v * (3 * x + y)
<1>3. x \in Int /\ y \in Int /\ s \in Int /\ t \in Int  BY <1>1
<1>4. s * (a * a) + t * (b * b) = 1
  <2>1. s * (a * a) = (x * x) * (x + 3 * y)
    <3>1. u * u * (x + 3 * y) * (a * a) = ((u * a) * (u * a)) * (x + 3 * y)
      BY <1>1, <1>3
    <3> QED  BY <3>1
  <2>2. t * (b * b) = (y * y) * (3 * x + y)
    <3>1. v * v * (3 * x + y) * (b * b) = ((v * b) * (v * b)) * (3 * x + y)
      BY <1>1, <1>3
    <3> QED  BY <3>1
  <2> HIDE DEF s, t, x, y
  <2>3. (x * x) * (x + 3 * y) + (y * y) * (3 * x + y) = (x + y) * (x + y) * (x + y)
    BY <1>3
  <2>4. x + y = 1  BY <1>2 DEF x, y
  <2>5. (x + y) * (x + y) * (x + y) = 1  BY <2>4
  <2> QED  BY <2>1, <2>2, <2>3, <2>5
<1> HIDE DEF s, t, x, y
<1>5. ASSUME NEW k \in Nat \ {0}, Divides(k, a * a), Divides(k, b * b) PROVE k = 1
  <2>1. PICK e \in Int : a * a = k * e  BY <1>5 DEF Divides
  <2>2. PICK f \in Int : b * b = k * f  BY <1>5 DEF Divides
  <2>3. k * (s * e + t * f) = 1
    <3>1. s * (k * e) + t * (k * f) = k * (s * e + t * f)  BY <1>3
    <3> QED  BY <1>4, <2>1, <2>2, <3>1
  <2>4. Divides(k, 1)
    <3>1. s * e + t * f \in Int  BY <1>3
    <3> QED  BY <2>3, <3>1 DEF Divides
  <2>5. k <= 1  BY <2>4, DividesBounds
  <2> QED  BY <2>5
<1>6. a * a \in Int /\ b * b \in Nat \ {0}  BY <1>1
<1> QED  BY <1>5, <1>6 DEF Lowest, a, b

(* Root finds the root of a square.                                        *)
LEMMA RootOfSquare ==
  ASSUME NEW q \in Fractions, q[1] >= 0
  PROVE  Root(q \otimes q) = q
<1>1. q[1] \in Nat /\ q[2] \in Nat \ {0} /\ q = <<q[1], q[2]>> /\ Lowest(q)
  BY FractionParts, LowestIsFraction
<1>2. q \otimes q = <<q[1] * q[1], q[2] * q[2]>>
  <2>1. Is(q \otimes q, q[1] * q[1], q[2] * q[2])  BY FractionParts, ProductIs
  <2>2. Lowest(q \otimes q)  BY <2>1, LowestIsFraction DEF Is
  <2> DEFINE p == <<q[1] * q[1], q[2] * q[2]>>
  <2>3. (q \otimes q)[1] * p[2] = p[1] * (q \otimes q)[2]  BY <2>1 DEF Is
  <2>4. Lowest(p)  BY <1>1, SquareLowest
  <2> HIDE DEF p
  <2>5. q \otimes q = p  BY <2>2, <2>3, <2>4, LowestUnique
  <2> QED  BY <2>5 DEF p
<1>3. ASSUME NEW n \in Nat PROVE (CHOOSE r \in 0 .. n * n : r * r = n * n) = n
  <2> DEFINE m == n * n
             r == CHOOSE s \in 0 .. m : s * s = m
  <2>1. n \in 0 .. m
    <3>1. n = 0 \/ n * n >= n  OBVIOUS
    <3> QED  BY <3>1
  <2>2. r \in 0 .. m /\ r * r = m
    <3>1. n * n = m  OBVIOUS
    <3> HIDE DEF m
    <3> QED  BY <2>1, <3>1
  <2>3. r \in Nat /\ r * r = n * n
    <3>1. m \in Nat  OBVIOUS
    <3>2. \A z \in 0 .. m : z \in Nat  BY <3>1
    <3> HIDE DEF r
    <3> QED  BY <2>2, <3>2
  <2> HIDE DEF r
  <2>4. r < n => r * r < n * n
    <3>1. ASSUME r < n PROVE r * r <= r * n /\ r * n < n * n  BY <2>3, <3>1
    <3> QED  BY <2>3, <3>1
  <2>5. r > n => r * r > n * n
    <3>1. ASSUME r > n PROVE r * r > r * n /\ r * n >= n * n  BY <2>3, <3>1
    <3> QED  BY <2>3, <3>1
  <2>6. r = n  BY <2>3, <2>4, <2>5
  <2> QED  BY <2>6 DEF r
<1>4. Root(q \otimes q) = <<q[1], q[2]>>  BY <1>1, <1>2, <1>3 DEF Root
<1> QED  BY <1>1, <1>4

----------------------------------------------------------------------------
(* The sign of a fraction is that of its numerator.                        *)
LEMMA SignLaws ==
  ASSUME NEW a \in Fractions
  PROVE  /\ Less(Zero, a) <=> a[1] > 0
         /\ Less(Zero, a) => a # Zero
         /\ \/ Less(Zero, a)
            \/ a = Zero
            \/ Less(Zero, Negative(a))
         /\ Negative(a) = Zero => a = Zero
<1>1. a[1] \in Int /\ a[2] \in Nat \ {0} /\ a = <<a[1], a[2]>> /\ Is(a, a[1], a[2])
  BY FractionParts
<1>2. Less(Zero, a) <=> a[1] > 0  BY <1>1 DEF Less, Zero, Q
<1>3. Is(Zero, 0, a[2])  BY <1>1, ZeroIs
<1>4. a = Zero <=> a[1] = 0  BY <1>1, <1>3, OrderIs
<1>5. Less(Zero, Negative(a)) <=> -a[1] > 0
  BY <1>1 DEF Less, Zero, Q, Negative
<1>6. Negative(a) = Zero => -a[1] = 0  BY <1>1 DEF Zero, Q, Negative
<1> QED  BY <1>1, <1>2, <1>4, <1>5, <1>6

(* A product divided by a positive factor, or by its opposite.             *)
LEMMA QuotientLaws ==
  ASSUME NEW a \in Fractions, NEW b \in Fractions, Less(Zero, b)
  PROVE  (a \otimes b) \oslash b = a /\ a \oslash b \in Fractions
         /\ (a \oslash b) \otimes b = a
<1>1. PICK x, y, z \in Int, d \in Nat \ {0} : Is(a, x, d) /\ Is(b, y, d) /\ Is(b, z, d)
  BY Common
<1>2. y > 0
  <2>1. Is(Zero, 0, d)  BY ZeroIs
  <2> QED  BY <1>1, <2>1, OrderIs
<1>3. Is(a \otimes b, x * y, d * d) /\ Is(b, y * d, d * d)
  BY <1>1, ProductIs, ScaledIs, Zenon
<1>4. y * d > 0  BY <1>2
<1>5. Is((a \otimes b) \oslash b, x * y, y * d)  BY <1>3, <1>4, QuotientIs, Zenon
<1>6. Is(a, x * y, d * y)  BY <1>1, <1>2, ScaledIs
<1>7. d * y = y * d  OBVIOUS
<1>8. (a \otimes b) \oslash b = a  BY <1>5, <1>6, <1>7, SameIs, Zenon
<1>9. Is(a \oslash b, x, y)  BY <1>1, <1>2, QuotientIs, Zenon
<1>10. Is((a \oslash b) \otimes b, x * y, y * d)  BY <1>1, <1>9, ProductIs, Zenon
<1>11. (a \oslash b) \otimes b = a  BY <1>10, <1>6, <1>7, SameIs, Zenon
<1> QED  BY <1>8, <1>9, <1>11 DEF Is

----------------------------------------------------------------------------
(* Vectors, matrices and the rotations of OrbitView                        *)

(* A function on 1 .. 3 is the tuple of its values.                        *)
LEMMA Triple ==
  ASSUME NEW f, f = [i \in 1 .. 3 |-> f[i]]
  PROVE  f = <<f[1], f[2], f[3]>>
OBVIOUS

(* A vector multiplied by a matrix, written out.                           *)
LEMMA Apply3 ==
  ASSUME NEW a1, NEW a2, NEW a3, NEW b1, NEW b2, NEW b3, NEW c1, NEW c2, NEW c3,
         NEW v1, NEW v2, NEW v3
  PROVE  Apply(<<<<a1, a2, a3>>, <<b1, b2, b3>>, <<c1, c2, c3>>>>, <<v1, v2, v3>>) =
           <<((a1 \otimes v1) \oplus (b1 \otimes v2)) \oplus (c1 \otimes v3),
             ((a2 \otimes v1) \oplus (b2 \otimes v2)) \oplus (c2 \otimes v3),
             ((a3 \otimes v1) \oplus (b3 \otimes v2)) \oplus (c3 \otimes v3)>>
<1> DEFINE A == <<<<a1, a2, a3>>, <<b1, b2, b3>>, <<c1, c2, c3>>>>
           v == <<v1, v2, v3>>
           f == Apply(A, v)
<1>1. DOMAIN A = 1 .. 3 /\ DOMAIN A[1] = 1 .. 3  OBVIOUS
<1>2. f = [i \in 1 .. 3 |-> Sum([k \in 1 .. 3 |-> A[k][i] \otimes v[k]])]
  BY <1>1, Zenon DEF Apply
<1>3. ASSUME NEW i \in 1 .. 3
      PROVE  f[i] = ((A[1][i] \otimes v1) \oplus (A[2][i] \otimes v2)) \oplus (A[3][i] \otimes v3)
  <2> DEFINE g == [k \in 1 .. 3 |-> A[k][i] \otimes v[k]]
  <2>1. f[i] = Sum(g)  BY <1>2
  <2>2. /\ g[1] = A[1][i] \otimes v1 /\ g[2] = A[2][i] \otimes v2
        /\ g[3] = A[3][i] \otimes v3 /\ 4 \notin DOMAIN g
    OBVIOUS
  <2> HIDE DEF A, v, f, g
  <2> QED  BY <2>1, <2>2, Zenon DEF Sum
<1>4. f = <<f[1], f[2], f[3]>>  BY <1>2
<1> HIDE DEF f
<1>5. f[1] = ((a1 \otimes v1) \oplus (b1 \otimes v2)) \oplus (c1 \otimes v3)  BY <1>3
<1>6. f[2] = ((a2 \otimes v1) \oplus (b2 \otimes v2)) \oplus (c2 \otimes v3)  BY <1>3
<1>7. f[3] = ((a3 \otimes v1) \oplus (b3 \otimes v2)) \oplus (c3 \otimes v3)  BY <1>3
<1> QED  BY <1>4, <1>5, <1>6, <1>7, Zenon DEF f

LEMMA Apply4 ==
  ASSUME NEW a1, NEW a2, NEW a3, NEW a4, NEW b1, NEW b2, NEW b3, NEW b4,
         NEW c1, NEW c2, NEW c3, NEW c4, NEW d1, NEW d2, NEW d3, NEW d4,
         NEW v1, NEW v2, NEW v3, NEW v4
  PROVE  Apply(<<<<a1, a2, a3, a4>>, <<b1, b2, b3, b4>>,
                 <<c1, c2, c3, c4>>, <<d1, d2, d3, d4>>>>, <<v1, v2, v3, v4>>) =
           <<(((a1 \otimes v1) \oplus (b1 \otimes v2)) \oplus (c1 \otimes v3)) \oplus (d1 \otimes v4),
             (((a2 \otimes v1) \oplus (b2 \otimes v2)) \oplus (c2 \otimes v3)) \oplus (d2 \otimes v4),
             (((a3 \otimes v1) \oplus (b3 \otimes v2)) \oplus (c3 \otimes v3)) \oplus (d3 \otimes v4),
             (((a4 \otimes v1) \oplus (b4 \otimes v2)) \oplus (c4 \otimes v3)) \oplus (d4 \otimes v4)>>
<1> DEFINE A == <<<<a1, a2, a3, a4>>, <<b1, b2, b3, b4>>,
                  <<c1, c2, c3, c4>>, <<d1, d2, d3, d4>>>>
           v == <<v1, v2, v3, v4>>
           f == Apply(A, v)
<1>1. DOMAIN A = 1 .. 4 /\ DOMAIN A[1] = 1 .. 4  OBVIOUS
<1>2. f = [i \in 1 .. 4 |-> Sum([k \in 1 .. 4 |-> A[k][i] \otimes v[k]])]
  BY <1>1, Zenon DEF Apply
<1>3. ASSUME NEW i \in 1 .. 4
      PROVE  f[i] = (((A[1][i] \otimes v1) \oplus (A[2][i] \otimes v2))
                       \oplus (A[3][i] \otimes v3)) \oplus (A[4][i] \otimes v4)
  <2> DEFINE g == [k \in 1 .. 4 |-> A[k][i] \otimes v[k]]
  <2>1. f[i] = Sum(g)  BY <1>2
  <2>2. /\ g[1] = A[1][i] \otimes v1 /\ g[2] = A[2][i] \otimes v2
        /\ g[3] = A[3][i] \otimes v3 /\ g[4] = A[4][i] \otimes v4
        /\ 4 \in DOMAIN g
    OBVIOUS
  <2> HIDE DEF A, v, f, g
  <2> QED  BY <2>1, <2>2, Zenon DEF Sum
<1>4. f = <<f[1], f[2], f[3], f[4]>>  BY <1>2
<1> HIDE DEF f
<1>5. f[1] = (((a1 \otimes v1) \oplus (b1 \otimes v2)) \oplus (c1 \otimes v3)) \oplus (d1 \otimes v4)
  BY <1>3
<1>6. f[2] = (((a2 \otimes v1) \oplus (b2 \otimes v2)) \oplus (c2 \otimes v3)) \oplus (d2 \otimes v4)
  BY <1>3
<1>7. f[3] = (((a3 \otimes v1) \oplus (b3 \otimes v2)) \oplus (c3 \otimes v3)) \oplus (d3 \otimes v4)
  BY <1>3
<1>8. f[4] = (((a4 \otimes v1) \oplus (b4 \otimes v2)) \oplus (c4 \otimes v3)) \oplus (d4 \otimes v4)
  BY <1>3
<1> QED  BY <1>4, <1>5, <1>6, <1>7, <1>8, Zenon DEF f

(* A matrix multiplied by a matrix, column by column.                      *)
LEMMA Product3 ==
  ASSUME NEW A, NEW x, NEW y, NEW z, NEW B, B = <<x, y, z>>
  PROVE  Product(A, B) = <<Apply(A, x), Apply(A, y), Apply(A, z)>>
BY DEF Product

LEMMA Product4 ==
  ASSUME NEW A, NEW x, NEW y, NEW z, NEW w, NEW B, B = <<x, y, z, w>>
  PROVE  Product(A, B) =
           <<Apply(A, x), Apply(A, y), Apply(A, z), Apply(A, w)>>
BY DEF Product

----------------------------------------------------------------------------
(* A rotation about each of the axes.                                      *)
LEMMA AxisRotations ==
  ASSUME NEW a, IsAngle(a)
  PROVE  /\ matrix_float3x3_rotation(xAxis, a) =
              <<<<One, Zero, Zero>>,
                <<Zero, a[1], Negative(a[2])>>,
                <<Zero, a[2], a[1]>>>>
         /\ matrix_float3x3_rotation(yAxis, a) =
              <<<<a[1], Zero, a[2]>>,
                <<Zero, One, Zero>>,
                <<Negative(a[2]), Zero, a[1]>>>>
         /\ matrix_float3x3_rotation(zAxis, a) =
              <<<<a[1], Negative(a[2]), Zero>>,
                <<a[2], a[1], Zero>>,
                <<Zero, Zero, One>>>>
<1> DEFINE c == a[1]
           s == a[2]
<1>1. c \in Fractions /\ s \in Fractions  BY DEF IsAngle
<1>2. One \ominus c \in Fractions /\ Zero \in Fractions /\ One \in Fractions
  BY <1>1, Closed
<1>3. /\ (Zero \otimes Zero) \otimes (One \ominus c) = Zero
      /\ (One \otimes Zero) \otimes (One \ominus c) = Zero
      /\ (Zero \otimes One) \otimes (One \ominus c) = Zero
  BY <1>2, NeutralLaws
<1>4. /\ (Zero \otimes Zero) \oplus ((One \ominus (Zero \otimes Zero)) \otimes c) = c
      /\ (One \otimes One) \oplus ((One \ominus (One \otimes One)) \otimes c) = One
  BY <1>1, <1>2, NeutralLaws
<1>5. /\ Zero \otimes s = Zero /\ One \otimes s = s
      /\ Zero \ominus s = Negative(s) /\ Zero \oplus s = s
      /\ Zero \ominus Zero = Zero /\ Zero \oplus Zero = Zero
  BY <1>1, <1>2, NeutralLaws
<1> HIDE DEF c, s
<1>6. cos(a) = c /\ sin(a) = s  BY DEF cos, sin, c, s
<1> QED
  BY <1>3, <1>4, <1>5, <1>6, Zenon DEF matrix_float3x3_rotation, xAxis, yAxis, zAxis, c, s

(* What matrix_transform_compose and matrix_float4x4_rotation lay out.     *)

(* A turn about an axis in the plane of y and z.                           *)
LEMMA TiltedRotation ==
  ASSUME NEW p \in Fractions, NEW q \in Fractions, NEW a, IsAngle(a)
  PROVE  matrix_float3x3_rotation(<<Zero, p, q>>, a) =
           <<<<a[1], Negative(q \otimes a[2]), p \otimes a[2]>>,
             <<q \otimes a[2], (p \otimes p) \oplus ((One \ominus (p \otimes p)) \otimes a[1]),
               (p \otimes q) \otimes (One \ominus a[1])>>,
             <<Negative(p \otimes a[2]), (p \otimes q) \otimes (One \ominus a[1]),
               (q \otimes q) \oplus ((One \ominus (q \otimes q)) \otimes a[1])>>>>
<1> DEFINE c == a[1]
           s == a[2]
           e == One \ominus c
           w == (p \otimes q) \otimes e
<1>1. c \in Fractions /\ s \in Fractions  BY DEF IsAngle
<1>2. /\ e \in Fractions /\ Zero \in Fractions /\ One \in Fractions
      /\ q \otimes s \in Fractions /\ p \otimes s \in Fractions
      /\ p \otimes q \in Fractions
  BY <1>1, Closed
<1>3. w \in Fractions  BY <1>2, Closed
<1>4. /\ (Zero \otimes p) \otimes e = Zero /\ (Zero \otimes q) \otimes e = Zero
      /\ (Zero \otimes Zero) \oplus ((One \ominus (Zero \otimes Zero)) \otimes c) = c
      /\ Zero \otimes s = Zero
  BY <1>1, <1>2, NeutralLaws
<1>5. /\ w \ominus Zero = w /\ w \oplus Zero = w
      /\ Zero \ominus (q \otimes s) = Negative(q \otimes s)
      /\ Zero \oplus (q \otimes s) = q \otimes s
      /\ Zero \ominus (p \otimes s) = Negative(p \otimes s)
      /\ Zero \oplus (p \otimes s) = p \otimes s
  BY <1>2, <1>3, NeutralLaws
<1> HIDE DEF c, s
<1>6. cos(a) = c /\ sin(a) = s  BY DEF cos, sin, c, s
<1> QED
  BY <1>4, <1>5, <1>6, Zenon DEF matrix_float3x3_rotation, c, s

(* Turned by the pitch, and then about the vertical as the pitch has it by *)
(* the yaw: the same as the yaw first, about the vertical as it was.       *)
PitchedYaw(p, y) ==
  <<<<y[1], p[2] \otimes y[2], p[1] \otimes y[2], Zero>>,
    <<Zero, p[1], Negative(p[2]), Zero>>,
    <<Negative(y[2]), p[2] \otimes y[1], p[1] \otimes y[1], Zero>>,
    <<Zero, Zero, Zero, One>>>>

(* What the sums in the rotation about the tilted axis come to.            *)
LEMMA TiltedTurns ==
  ASSUME NEW a, IsAngle(a), NEW b, IsAngle(b)
  PROVE  LET p == a[1]
             q == Negative(a[2])
             c == b[1]
             s == b[2]
             e22 == (p \otimes p) \oplus ((One \ominus (p \otimes p)) \otimes c)
             e23 == (p \otimes q) \otimes (One \ominus c)
             e33 == (q \otimes q) \oplus ((One \ominus (q \otimes q)) \otimes c)
             t == a[2]
         IN  /\ e22 \in Fractions /\ e23 \in Fractions /\ e33 \in Fractions
             /\ ((q \otimes s) \otimes p) \oplus (Negative(p \otimes s) \otimes q) = Zero
             /\ (e22 \otimes p) \oplus (e23 \otimes q) = p
             /\ (e23 \otimes p) \oplus (e33 \otimes q) = q
             /\ ((q \otimes s) \otimes t) \oplus (Negative(p \otimes s) \otimes p) = Negative(s)
             /\ (e22 \otimes t) \oplus (e23 \otimes p) = t \otimes c
             /\ (e23 \otimes t) \oplus (e33 \otimes p) = p \otimes c
<1> DEFINE p == a[1]
           t == a[2]
           q == Negative(t)
           c == b[1]
           s == b[2]
<1>1. /\ p \in Fractions /\ t \in Fractions /\ (p \otimes p) \oplus (t \otimes t) = One
      /\ c \in Fractions /\ s \in Fractions
  BY DEF IsAngle, cos, sin
<1> HIDE DEF p, t, c, s
<1>2. PICK P, T, C, S \in Int, d \in Nat \ {0} :
        Is(p, P, d) /\ Is(t, T, d) /\ Is(c, C, d) /\ Is(s, S, d)
  BY <1>1, Common4
<1> DEFINE d2 == d * d
           d3 == d2 * d
           d4 == d3 * d
           E == d2 - P * P
           F == d2 - T * T
           E22 == (P * P) * d + E * C
           E33 == (T * T) * d + F * C
           E23 == (P * (-T)) * (d - C)
<1>3. /\ Is(q, -T, d) /\ Is(One, d, d) /\ Is(Zero, 0, d3) /\ Is(One, d2, d2)
      /\ Is(Zero, 0, d3)
  <2>1. d2 \in Nat \ {0} /\ d3 \in Nat \ {0} OBVIOUS
  <2> QED  BY <1>2, <2>1, NegativeIs, ZeroIs, Zenon
<1>4. P * P + T * T = d2
  <2>1. Is(p \otimes p, P * P, d2) /\ Is(t \otimes t, T * T, d2)
    BY <1>2, ProductIs, Zenon
  <2>2. Is(One, P * P + T * T, d2)  BY <1>1, <2>1, SumIs, Zenon
  <2> QED  BY <1>3, <2>2, OrderIs
<1>5. /\ Is(p \otimes p, P * P, d2) /\ Is(p \otimes q, P * (-T), d2)
      /\ Is(q \otimes s, (-T) * S, d2) /\ Is(p \otimes s, P * S, d2)
      /\ Is(t \otimes c, T * C, d2) /\ Is(p \otimes c, P * C, d2)
  BY <1>2, <1>3, ProductIs, Zenon
<1>6. Is(q \otimes q, T * T, d2)
  <2>1. Is(q \otimes q, (-T) * (-T), d2)  BY <1>3, ProductIs, Zenon
  <2>2. (-T) * (-T) = T * T  OBVIOUS
  <2> QED  BY <2>1, <2>2, Zenon
<1>7. /\ Is(One \ominus (p \otimes p), E, d2) /\ Is(One \ominus (q \otimes q), F, d2)
      /\ Is(One \ominus c, d - C, d) /\ Is(Negative(p \otimes s), -(P * S), d2)
  BY <1>2, <1>3, <1>5, <1>6, SumIs, NegativeIs, Zenon
<1> DEFINE e22 == (p \otimes p) \oplus ((One \ominus (p \otimes p)) \otimes c)
           e23 == (p \otimes q) \otimes (One \ominus c)
           e33 == (q \otimes q) \oplus ((One \ominus (q \otimes q)) \otimes c)
<1>8. Is(e22, E22, d3) /\ Is(e33, E33, d3) /\ Is(e23, E23, d3)
  <2>1. /\ Is((One \ominus (p \otimes p)) \otimes c, E * C, d3)
        /\ Is((One \ominus (q \otimes q)) \otimes c, F * C, d3)
        /\ Is(e23, E23, d3)
    BY <1>2, <1>5, <1>7, ProductIs, Zenon
  <2>2. Is(p \otimes p, (P * P) * d, d3) /\ Is(q \otimes q, (T * T) * d, d3)
    BY <1>5, <1>6, ScaledIs, Zenon
  <2> QED  BY <2>1, <2>2, SumIs, Zenon
<1> HIDE DEF e22, e23, e33
<1>9. /\ Is((e22 \otimes p) \oplus (e23 \otimes q), E22 * P + E23 * (-T), d4)
      /\ Is((e23 \otimes p) \oplus (e33 \otimes q), E23 * P + E33 * (-T), d4)
      /\ Is((e22 \otimes t) \oplus (e23 \otimes p), E22 * T + E23 * P, d4)
      /\ Is((e23 \otimes t) \oplus (e33 \otimes p), E23 * T + E33 * P, d4)
  <2>1. /\ Is(e22 \otimes p, E22 * P, d4) /\ Is(e22 \otimes t, E22 * T, d4)
        /\ Is(e23 \otimes p, E23 * P, d4) /\ Is(e23 \otimes q, E23 * (-T), d4)
        /\ Is(e23 \otimes t, E23 * T, d4) /\ Is(e33 \otimes q, E33 * (-T), d4)
        /\ Is(e33 \otimes p, E33 * P, d4)
    BY <1>2, <1>3, <1>8, ProductIs, Zenon
  <2> QED  BY <2>1, SumIs, Zenon
<1>10. /\ E22 * P + E23 * (-T) = P * d3
       /\ E23 * P + E33 * (-T) = (-T) * d3
       /\ E22 * T + E23 * P = (T * C) * d2
       /\ E23 * T + E33 * P = (P * C) * d2
  BY <1>4
<1>11. /\ Is(p, P * d3, d4) /\ Is(q, (-T) * d3, d4)
       /\ Is(t \otimes c, (T * C) * d2, d4) /\ Is(p \otimes c, (P * C) * d2, d4)
  <2>1. d * d3 = d4 /\ d2 * d2 = d4 /\ d2 \in Nat \ {0} /\ d3 \in Nat \ {0}  OBVIOUS
  <2>2. /\ Is(p, P * d3, d * d3) /\ Is(q, (-T) * d3, d * d3)
        /\ Is(t \otimes c, (T * C) * d2, d2 * d2) /\ Is(p \otimes c, (P * C) * d2, d2 * d2)
    BY <1>2, <1>3, <1>5, <2>1, ScaledIs, Zenon
  <2> QED  BY <2>1, <2>2, Zenon
<1>12. /\ (e22 \otimes p) \oplus (e23 \otimes q) = p
       /\ (e23 \otimes p) \oplus (e33 \otimes q) = q
       /\ (e22 \otimes t) \oplus (e23 \otimes p) = t \otimes c
       /\ (e23 \otimes t) \oplus (e33 \otimes p) = p \otimes c
  BY <1>9, <1>10, <1>11, SameIs, Zenon
<1>13. ((q \otimes s) \otimes p) \oplus (Negative(p \otimes s) \otimes q) = Zero
  <2>1. /\ Is((q \otimes s) \otimes p, ((-T) * S) * P, d3)
        /\ Is(Negative(p \otimes s) \otimes q, (-(P * S)) * (-T), d3)
    BY <1>2, <1>3, <1>5, <1>7, ProductIs, Zenon
  <2>2. Is(((q \otimes s) \otimes p) \oplus (Negative(p \otimes s) \otimes q),
           ((-T) * S) * P + (-(P * S)) * (-T), d3)
    BY <2>1, SumIs, Zenon
  <2>3. ((-T) * S) * P + (-(P * S)) * (-T) = 0  OBVIOUS
  <2> QED  BY <1>3, <2>2, <2>3, SameIs, Zenon
<1>14. ((q \otimes s) \otimes t) \oplus (Negative(p \otimes s) \otimes p) = Negative(s)
  <2>1. /\ Is((q \otimes s) \otimes t, ((-T) * S) * T, d3)
        /\ Is(Negative(p \otimes s) \otimes p, (-(P * S)) * P, d3)
    BY <1>2, <1>3, <1>5, <1>7, ProductIs, Zenon
  <2>2. Is(((q \otimes s) \otimes t) \oplus (Negative(p \otimes s) \otimes p),
           ((-T) * S) * T + (-(P * S)) * P, d3)
    BY <2>1, SumIs, Zenon
  <2>3. ((-T) * S) * T + (-(P * S)) * P = (-S) * d2  BY <1>4
  <2>4. Is(Negative(s), (-S) * d2, d3)
    <3>1. Is(Negative(s), -S, d) /\ d2 \in Nat \ {0}  BY <1>2, NegativeIs
    <3>2. Is(Negative(s), (-S) * d2, d * d2) /\ d * d2 = d3  BY <3>1, ScaledIs
    <3> QED  BY <3>2, Zenon
  <2> QED  BY <2>2, <2>3, <2>4, SameIs, Zenon
<1>15. e22 \in Fractions /\ e23 \in Fractions /\ e33 \in Fractions  BY <1>8 DEF Is
<1> QED  BY <1>12, <1>13, <1>14, <1>15, Zenon DEF e22, e23, e33, p, t, c, s

(* The rotation of getTransform, for any pitch a and yaw b.                *)
LEMMA OrbitRotation ==
  ASSUME NEW a, IsAngle(a), NEW b, IsAngle(b)
  PROVE  LET R == matrix_float4x4_rotation(xAxis, a)
             up == Apply(R, <<Zero, One, Zero, One>>)
         IN  /\ <<up[1], up[2], up[3]>> = <<Zero, a[1], Negative(a[2])>>
             /\ Product(matrix_float4x4_rotation(<<up[1], up[2], up[3]>>, b), R) =
                  PitchedYaw(a, b)
<1> DEFINE p == a[1]
           t == a[2]
           q == Negative(t)
           c == b[1]
           s == b[2]
           e22 == (p \otimes p) \oplus ((One \ominus (p \otimes p)) \otimes c)
           e23 == (p \otimes q) \otimes (One \ominus c)
           e33 == (q \otimes q) \oplus ((One \ominus (q \otimes q)) \otimes c)
           R == <<<<One, Zero, Zero, Zero>>, <<Zero, p, q, Zero>>,
                  <<Zero, t, p, Zero>>, <<Zero, Zero, Zero, One>>>>
           Y == <<<<c, Negative(q \otimes s), p \otimes s, Zero>>,
                  <<q \otimes s, e22, e23, Zero>>,
                  <<Negative(p \otimes s), e23, e33, Zero>>,
                  <<Zero, Zero, Zero, One>>>>
<1>1. /\ p \in Fractions /\ t \in Fractions /\ c \in Fractions /\ s \in Fractions
      /\ q \in Fractions /\ Zero \in Fractions /\ One \in Fractions
  BY Closed DEF IsAngle
<1>2. /\ q \otimes s \in Fractions /\ p \otimes s \in Fractions
      /\ Negative(p \otimes s) \in Fractions /\ Negative(q \otimes s) \in Fractions
  BY <1>1, Closed
<1>3. /\ e22 \in Fractions /\ e23 \in Fractions /\ e33 \in Fractions
      /\ ((q \otimes s) \otimes p) \oplus (Negative(p \otimes s) \otimes q) = Zero
      /\ (e22 \otimes p) \oplus (e23 \otimes q) = p
      /\ (e23 \otimes p) \oplus (e33 \otimes q) = q
      /\ ((q \otimes s) \otimes t) \oplus (Negative(p \otimes s) \otimes p) = Negative(s)
      /\ (e22 \otimes t) \oplus (e23 \otimes p) = t \otimes c
      /\ (e23 \otimes t) \oplus (e33 \otimes p) = p \otimes c
  BY TiltedTurns, Zenon
<1>4. matrix_float4x4_rotation(xAxis, a) = R
  <2>1. matrix_float3x3_rotation(xAxis, a) =
          <<<<One, Zero, Zero>>, <<Zero, p, q>>, <<Zero, t, p>>>>
    BY AxisRotations, Zenon
  <2> HIDE DEF p, t, q
  <2> QED  BY <2>1 DEF matrix_float4x4_rotation, matrix_transform_compose
<1>5. matrix_float4x4_rotation(<<Zero, p, q>>, b) = Y
  <2>1. matrix_float3x3_rotation(<<Zero, p, q>>, b) =
          <<<<c, Negative(q \otimes s), p \otimes s>>,
            <<q \otimes s, e22, e23>>, <<Negative(p \otimes s), e23, e33>>>>
    <3> HIDE DEF p, q
    <3> QED  BY <1>1, TiltedRotation
  <2> HIDE DEF e22, e23, e33, p, t, q, c, s
  <2> QED  BY <2>1 DEF matrix_float4x4_rotation, matrix_transform_compose
<1> HIDE DEF e22, e23, e33, p, t, c, s, q
<1>6. /\ \A u, v \in Fractions : u \otimes v \in Fractions /\ u \oplus v \in Fractions
      /\ \A u \in Fractions :
           /\ u \oplus Zero = u /\ Zero \oplus u = u
           /\ u \otimes One = u /\ u \otimes Zero = Zero
           /\ One \otimes u = u /\ Zero \otimes u = Zero
  BY Closed, NeutralLaws
<1>7. Apply(R, <<Zero, One, Zero, One>>) = <<Zero, p, q, One>>
  BY <1>1, <1>6, Apply4
<1>8. Apply(Y, <<One, Zero, Zero, Zero>>) = <<c, Negative(q \otimes s), p \otimes s, Zero>>
  BY <1>1, <1>2, <1>3, <1>6, Apply4
<1>9. Apply(Y, <<Zero, p, q, Zero>>) = <<Zero, p, q, Zero>>
  BY <1>1, <1>2, <1>3, <1>6, Apply4
<1>10. Apply(Y, <<Zero, t, p, Zero>>) = <<Negative(s), t \otimes c, p \otimes c, Zero>>
  BY <1>1, <1>2, <1>3, <1>6, Apply4
<1>11. Apply(Y, <<Zero, Zero, Zero, One>>) = <<Zero, Zero, Zero, One>>
  BY <1>1, <1>2, <1>3, <1>6, Apply4
<1>12. Negative(q \otimes s) = t \otimes s
  BY <1>1, <1>2, ProductLaws, NeutralLaws DEF q
<1> HIDE DEF Y, R
<1>13. Product(Y, R) = PitchedYaw(a, b)
  <2>1. Product(Y, R) = <<Apply(Y, <<One, Zero, Zero, Zero>>), Apply(Y, <<Zero, p, q, Zero>>),
                          Apply(Y, <<Zero, t, p, Zero>>), Apply(Y, <<Zero, Zero, Zero, One>>)>>
    <3>1. R = <<<<One, Zero, Zero, Zero>>, <<Zero, p, q, Zero>>,
                <<Zero, t, p, Zero>>, <<Zero, Zero, Zero, One>>>>
      BY DEF R
    <3> QED  BY <3>1, Product4
  <2>2. PitchedYaw(a, b) = <<<<c, t \otimes s, p \otimes s, Zero>>, <<Zero, p, q, Zero>>,
                             <<Negative(s), t \otimes c, p \otimes c, Zero>>,
                             <<Zero, Zero, Zero, One>>>>
    BY Zenon DEF PitchedYaw, p, t, c, s, q
  <2> QED  BY <1>8, <1>9, <1>10, <1>11, <1>12, <2>1, <2>2, Zenon
<1> DEFINE up == Apply(matrix_float4x4_rotation(xAxis, a), <<Zero, One, Zero, One>>)
<1>14. <<up[1], up[2], up[3]>> = <<Zero, p, q>>
  <2>1. up = <<Zero, p, q, One>>  BY <1>4, <1>7, Zenon
  <2> HIDE DEF up
  <2> QED  BY <2>1
<1> HIDE DEF up
<1>15. Product(matrix_float4x4_rotation(<<up[1], up[2], up[3]>>, b),
               matrix_float4x4_rotation(xAxis, a)) = PitchedYaw(a, b)
  BY <1>4, <1>5, <1>13, <1>14, Zenon
<1> QED  BY <1>14, <1>15, Zenon DEF up, p, q, t

(* A dot product over one denominator for each of the vectors.             *)
LEMMA DotIs ==
  ASSUME NEW u1, NEW u2, NEW u3, NEW v1, NEW v2, NEW v3,
         NEW x1, NEW x2, NEW x3, NEW y1, NEW y2, NEW y3, NEW d, NEW e,
         Is(u1, x1, d), Is(u2, x2, d), Is(u3, x3, d),
         Is(v1, y1, e), Is(v2, y2, e), Is(v3, y3, e)
  PROVE  Is(Dot(<<u1, u2, u3>>, <<v1, v2, v3>>), (x1 * y1 + x2 * y2) + x3 * y3, d * e)
<1> DEFINE u == <<u1, u2, u3>>
           v == <<v1, v2, v3>>
           g == [i \in DOMAIN u |-> u[i] \otimes v[i]]
<1>1. /\ g[1] = u1 \otimes v1 /\ g[2] = u2 \otimes v2 /\ g[3] = u3 \otimes v3
      /\ 4 \notin DOMAIN g
  OBVIOUS
<1>2. Dot(u, v) = Sum(g)  BY Zenon DEF Dot
<1> HIDE DEF g
<1>3. Sum(g) = ((u1 \otimes v1) \oplus (u2 \otimes v2)) \oplus (u3 \otimes v3)
  BY <1>1, Zenon DEF Sum
<1>4. /\ Is(u1 \otimes v1, x1 * y1, d * e) /\ Is(u2 \otimes v2, x2 * y2, d * e)
      /\ Is(u3 \otimes v3, x3 * y3, d * e)
  BY ProductIs, Zenon
<1>5. Is((u1 \otimes v1) \oplus (u2 \otimes v2), x1 * y1 + x2 * y2, d * e)
  BY <1>4, SumIs, Zenon
<1>6. Is(((u1 \otimes v1) \oplus (u2 \otimes v2)) \oplus (u3 \otimes v3),
         (x1 * y1 + x2 * y2) + x3 * y3, d * e)
  BY <1>4, <1>5, SumIs, Zenon
<1> QED  BY <1>2, <1>3, <1>6, Zenon

(* The three axes of a pitched yaw are at right angles, of length 1 and    *)
(* right-handed.                                                           *)
LEMMA PitchedYawIsRigid ==
  ASSUME NEW a, IsAngle(a), NEW b, IsAngle(b)
  PROVE  LET x == <<b[1], a[2] \otimes b[2], a[1] \otimes b[2]>>
             y == <<Zero, a[1], Negative(a[2])>>
             z == <<Negative(b[2]), a[2] \otimes b[1], a[1] \otimes b[1]>>
         IN  /\ Dot(x, x) = One /\ Dot(y, y) = One /\ Dot(z, z) = One
             /\ Dot(x, y) = Zero /\ Dot(y, x) = Zero
             /\ Dot(x, z) = Zero /\ Dot(z, x) = Zero
             /\ Dot(y, z) = Zero /\ Dot(z, y) = Zero
             /\ z = Cross(x, y)
<1> DEFINE p == a[1]
           t == a[2]
           c == b[1]
           s == b[2]
<1>1. /\ p \in Fractions /\ t \in Fractions /\ (p \otimes p) \oplus (t \otimes t) = One
      /\ c \in Fractions /\ s \in Fractions /\ (c \otimes c) \oplus (s \otimes s) = One
  BY DEF IsAngle, cos, sin
<1> HIDE DEF p, t, c, s
<1>2. PICK P, T, C, S \in Int, d \in Nat \ {0} :
        Is(p, P, d) /\ Is(t, T, d) /\ Is(c, C, d) /\ Is(s, S, d)
  BY <1>1, Common4
<1> DEFINE d2 == d * d
<1>3. /\ Is(Zero, 0, d) /\ Is(Negative(t), -T, d) /\ Is(Negative(s), -S, d)
      /\ Is(One, d2, d2) /\ d2 \in Nat \ {0}
  <2>1. d2 \in Nat \ {0}  OBVIOUS
  <2> QED  BY <1>2, <2>1, NegativeIs, ZeroIs, Zenon
<1>4. /\ Is(p \otimes p, P * P, d2) /\ Is(t \otimes t, T * T, d2)
      /\ Is(c \otimes c, C * C, d2) /\ Is(s \otimes s, S * S, d2)
      /\ Is(t \otimes s, T * S, d2) /\ Is(p \otimes s, P * S, d2)
      /\ Is(t \otimes c, T * C, d2) /\ Is(p \otimes c, P * C, d2)
  BY <1>2, ProductIs, Zenon
<1>5. P * P + T * T = d2 /\ C * C + S * S = d2
  <2>1. Is(One, P * P + T * T, d2) /\ Is(One, C * C + S * S, d2)
    BY <1>1, <1>4, SumIs, Zenon
  <2> QED  BY <1>3, <2>1, OrderIs
<1>6. Is(c, C * d, d2) /\ Is(Negative(s), (-S) * d, d2)
  BY <1>2, <1>3, ScaledIs, Zenon
<1> DEFINE x == <<c, t \otimes s, p \otimes s>>
           y == <<Zero, p, Negative(t)>>
           z == <<Negative(s), t \otimes c, p \otimes c>>
           d3 == d2 * d
           d4 == d2 * d2
<1>7. /\ Is(Dot(x, x), ((C * d) * (C * d) + (T * S) * (T * S)) + (P * S) * (P * S), d4)
      /\ Is(Dot(z, z), (((-S) * d) * ((-S) * d) + (T * C) * (T * C)) + (P * C) * (P * C), d4)
      /\ Is(Dot(y, y), (0 * 0 + P * P) + (-T) * (-T), d2)
  BY <1>2, <1>3, <1>4, <1>6, DotIs, Zenon
<1>8. /\ Is(Dot(x, y), ((C * d) * 0 + (T * S) * P) + (P * S) * (-T), d3)
      /\ Is(Dot(z, y), (((-S) * d) * 0 + (T * C) * P) + (P * C) * (-T), d3)
      /\ Is(Dot(y, x), (0 * (C * d) + P * (T * S)) + (-T) * (P * S), d * d2)
      /\ Is(Dot(y, z), (0 * ((-S) * d) + P * (T * C)) + (-T) * (P * C), d * d2)
  BY <1>2, <1>3, <1>4, <1>6, DotIs, Zenon
<1>9. /\ Is(Dot(x, z), ((C * d) * ((-S) * d) + (T * S) * (T * C)) + (P * S) * (P * C), d4)
      /\ Is(Dot(z, x), (((-S) * d) * (C * d) + (T * C) * (T * S)) + (P * C) * (P * S), d4)
  BY <1>3, <1>4, <1>6, DotIs, Zenon
<1>10. /\ ((C * d) * (C * d) + (T * S) * (T * S)) + (P * S) * (P * S) = d4
       /\ (((-S) * d) * ((-S) * d) + (T * C) * (T * C)) + (P * C) * (P * C) = d4
       /\ (0 * 0 + P * P) + (-T) * (-T) = d2
       /\ ((C * d) * ((-S) * d) + (T * S) * (T * C)) + (P * S) * (P * C) = 0
       /\ (((-S) * d) * (C * d) + (T * C) * (T * S)) + (P * C) * (P * S) = 0
  <2> HIDE DEF d2
  <2>1. d2 \in Int /\ d * d = d2  BY DEF d2
  <2>2. ASSUME NEW m \in Int, NEW n \in Int
        PROVE  (T * m) * (T * n) + (P * m) * (P * n) = (m * n) * d2
    <3>1. (T * m) * (T * n) + (P * m) * (P * n) = (m * n) * (P * P + T * T)  OBVIOUS
    <3> QED  BY <1>5, <3>1
  <2>3. ASSUME NEW m \in Int, NEW n \in Int PROVE (m * d) * (n * d) = (m * n) * d2
    <3>1. (m * d) * (n * d) = (m * n) * (d * d)  OBVIOUS
    <3> QED  BY <2>1, <3>1
  <2>4. (C * C) * d2 + (S * S) * d2 = d4
    <3>1. (C * C) * d2 + (S * S) * d2 = (C * C + S * S) * d2  BY <2>1
    <3> QED  BY <1>5, <3>1
  <2>5. /\ (T * S) * (T * S) + (P * S) * (P * S) = (S * S) * d2
        /\ (T * C) * (T * C) + (P * C) * (P * C) = (C * C) * d2
        /\ (T * S) * (T * C) + (P * S) * (P * C) = (S * C) * d2
        /\ (C * d) * (C * d) = (C * C) * d2
        /\ ((-S) * d) * ((-S) * d) = (S * S) * d2
        /\ (C * d) * ((-S) * d) = -((S * C) * d2)
    <3>1. -S \in Int /\ (-S) * (-S) = S * S /\ (C * (-S)) * d2 = -((S * C) * d2)  BY <2>1
    <3> QED  BY <2>2, <2>3, <3>1
  <2>7. /\ ((C * d) * (C * d) + (T * S) * (T * S)) + (P * S) * (P * S) = d4
        /\ (((-S) * d) * ((-S) * d) + (T * C) * (T * C)) + (P * C) * (P * C) = d4
    <3> DEFINE k == (C * d) * (C * d)
               u == (C * C) * d2
               l == (T * S) * (T * S)
               m == (P * S) * (P * S)
               v == (S * S) * d2
               k1 == ((-S) * d) * ((-S) * d)
               l1 == (T * C) * (T * C)
               m1 == (P * C) * (P * C)
    <3>1. /\ k \in Int /\ u \in Int /\ l \in Int /\ m \in Int /\ v \in Int
          /\ k1 \in Int /\ l1 \in Int /\ m1 \in Int
      BY <2>1
    <3>2. k = u /\ l + m = v /\ k1 = v /\ l1 + m1 = u  BY <2>5, Zenon
    <3>3. u + v = d4 /\ v + u = d4
      <4>1. u + v = d4  BY <2>4
      <4> HIDE DEF u, v
      <4> QED  BY <3>1, <4>1
    <3> HIDE DEF k, u, l, m, v, k1, l1, m1
    <3>4. (k + l) + m = k + (l + m) /\ (k1 + l1) + m1 = k1 + (l1 + m1)  BY <3>1
    <3>5. (k + l) + m = d4 /\ (k1 + l1) + m1 = d4  BY <3>2, <3>3, <3>4, Zenon
    <3> QED  BY <3>5 DEF k, l, m, k1, l1, m1
  <2>8. (0 * 0 + P * P) + (-T) * (-T) = d2  BY <1>5
  <2>9. ((C * d) * ((-S) * d) + (T * S) * (T * C)) + (P * S) * (P * C) = 0
    BY <2>1, <2>5
  <2>10. (((-S) * d) * (C * d) + (T * C) * (T * S)) + (P * C) * (P * S) = 0
    BY <2>9
  <2> QED  BY <2>7, <2>8, <2>9, <2>10
<1>11. /\ ((C * d) * 0 + (T * S) * P) + (P * S) * (-T) = 0
       /\ (((-S) * d) * 0 + (T * C) * P) + (P * C) * (-T) = 0
       /\ (0 * (C * d) + P * (T * S)) + (-T) * (P * S) = 0
       /\ (0 * ((-S) * d) + P * (T * C)) + (-T) * (P * C) = 0
  OBVIOUS
<1>12. /\ Is(One, d4, d4) /\ Is(Zero, 0, d4) /\ Is(Zero, 0, d3) /\ Is(Zero, 0, d * d2)
  <2>1. d4 \in Nat \ {0} /\ d3 \in Nat \ {0} /\ d * d2 \in Nat \ {0}  OBVIOUS
  <2> QED  BY <2>1, ZeroIs, Zenon
<1>13. Dot(x, x) = One /\ Dot(y, y) = One /\ Dot(z, z) = One
  BY <1>3, <1>7, <1>10, <1>12, SameIs, Zenon
<1>14. Dot(x, y) = Zero /\ Dot(z, y) = Zero
  BY <1>8, <1>11, <1>12, SameIs, Zenon
<1>15. Dot(y, x) = Zero /\ Dot(y, z) = Zero
  BY <1>8, <1>11, <1>12, SameIs, Zenon
<1>16. Dot(x, z) = Zero /\ Dot(z, x) = Zero
  BY <1>9, <1>10, <1>12, SameIs, Zenon
<1>17. z = Cross(x, y)
  <2>1. ((t \otimes s) \otimes Negative(t)) \ominus ((p \otimes s) \otimes p) = Negative(s)
    <3>1. /\ Is((t \otimes s) \otimes Negative(t), (T * S) * (-T), d3)
          /\ Is((p \otimes s) \otimes p, (P * S) * P, d3)
      BY <1>2, <1>3, <1>4, ProductIs, Zenon
    <3>2. Is(((t \otimes s) \otimes Negative(t)) \ominus ((p \otimes s) \otimes p),
             (T * S) * (-T) - (P * S) * P, d3)
      BY <3>1, SumIs, Zenon
    <3>3. (T * S) * (-T) - (P * S) * P = ((-S) * d) * d  BY <1>5
    <3>4. Is(Negative(s), ((-S) * d) * d, d3)  BY <1>6, ScaledIs, Zenon
    <3> QED  BY <3>2, <3>3, <3>4, SameIs, Zenon
  <2>2. /\ t \otimes c \in Fractions /\ t \otimes s \in Fractions
        /\ p \otimes s \in Fractions /\ p \otimes c \in Fractions
        /\ c \otimes t \in Fractions
    BY <1>1, Closed
  <2>3. ((p \otimes s) \otimes Zero) \ominus (c \otimes Negative(t)) = t \otimes c
    <3>1. (p \otimes s) \otimes Zero = Zero /\ Zero \ominus (Negative(c \otimes t)) = c \otimes t
      BY <2>2, NeutralLaws, Closed
    <3>2. c \otimes Negative(t) = Negative(c \otimes t) /\ c \otimes t = t \otimes c
      BY <1>1, ProductLaws
    <3> QED  BY <3>1, <3>2
  <2>4. (c \otimes p) \ominus ((t \otimes s) \otimes Zero) = p \otimes c
    <3>1. (t \otimes s) \otimes Zero = Zero /\ (p \otimes c) \ominus Zero = p \otimes c
      BY <2>2, NeutralLaws
    <3>2. c \otimes p = p \otimes c  BY <1>1, ProductLaws
    <3> QED  BY <3>1, <3>2
  <2> QED  BY <2>1, <2>3, <2>4 DEF Cross
<1> QED  BY <1>13, <1>14, <1>15, <1>16, <1>17, Zenon DEF p, t, c, s

(* What is left of a product of matrices where most entries are 0 or 1.    *)
LEMMA Sparse ==
  /\ Zero \in Fractions /\ One \in Fractions
  /\ \A u, v \in Fractions : u \otimes v \in Fractions /\ u \oplus v \in Fractions
  /\ \A u \in Fractions :
       /\ u \oplus Zero = u /\ Zero \oplus u = u
       /\ u \otimes One = u /\ u \otimes Zero = Zero
       /\ One \otimes u = u /\ Zero \otimes u = Zero
BY Closed, NeutralLaws

(* Multiplied by -1.                                                       *)
LEMMA MinusOne ==
  ASSUME NEW a \in Fractions
  PROVE  Q(-1) \otimes a = Negative(a)
<1>1. Q(-1) = Negative(One)  BY DEF Q, One, Negative
<1>2. One \in Fractions  BY Closed
<1>3. Negative(One) \otimes a = Negative(One \otimes a)  BY <1>2, ProductLaws, Zenon
<1>4. One \otimes a = a  BY NeutralLaws
<1> QED  BY <1>1, <1>3, <1>4, Zenon

(* A translation leaves a direction as it is, and moves a point.           *)
LEMMA DirectionStays ==
  ASSUME NEW x \in Fractions, NEW y \in Fractions, NEW z \in Fractions,
         NEW t, t[1] \in Fractions, t[2] \in Fractions, t[3] \in Fractions
  PROVE  Apply(matrix_float4x4_translation(t), <<x, y, z, Zero>>) = <<x, y, z, Zero>>
<1> DEFINE u == t[1]
           v == t[2]
           w == t[3]
           T == <<<<One, Zero, Zero, Zero>>, <<Zero, One, Zero, Zero>>,
                  <<Zero, Zero, One, Zero>>, <<u, v, w, One>>>>
<1>1. matrix_float4x4_translation(t) = T
  BY DEF matrix_float4x4_translation
<1> HIDE DEF u, v, w
<1>2. u \in Fractions /\ v \in Fractions /\ w \in Fractions  BY DEF u, v, w
<1>3. Apply(T, <<x, y, z, Zero>>) = <<x, y, z, Zero>>
  BY <1>2, Apply4, Sparse
<1> HIDE DEF T
<1> QED  BY <1>1, <1>3, Zenon

(* A translation moves points.                                             *)
LEMMA PointMoves ==
  ASSUME NEW x \in Fractions, NEW y \in Fractions, NEW z \in Fractions,
         NEW t, t[1] \in Fractions, t[2] \in Fractions, t[3] \in Fractions
  PROVE  Apply(matrix_float4x4_translation(t), <<x, y, z, One>>) =
           <<x \oplus t[1], y \oplus t[2], z \oplus t[3], One>>
<1> DEFINE u == t[1]
           v == t[2]
           w == t[3]
           T == <<<<One, Zero, Zero, Zero>>, <<Zero, One, Zero, Zero>>,
                  <<Zero, Zero, One, Zero>>, <<u, v, w, One>>>>
<1>1. matrix_float4x4_translation(t) = T
  BY DEF matrix_float4x4_translation
<1> HIDE DEF u, v, w
<1>2. u \in Fractions /\ v \in Fractions /\ w \in Fractions  BY DEF u, v, w
<1>3. Apply(T, <<x, y, z, One>>) = <<x \oplus u, y \oplus v, z \oplus w, One>>
  BY <1>2, Apply4, Sparse
<1> HIDE DEF T
<1> QED  BY <1>1, <1>3, Zenon DEF u, v, w

(* A matrix of fractions that leaves the origin where it is.               *)
Central(R) ==
  /\ R = <<<<R[1][1], R[1][2], R[1][3], Zero>>, <<R[2][1], R[2][2], R[2][3], Zero>>,
           <<R[3][1], R[3][2], R[3][3], Zero>>, <<Zero, Zero, Zero, One>>>>
  /\ \A j, i \in 1 .. 3 : R[j][i] \in Fractions

(* Such a matrix with a translation on each side of it.                    *)
LEMMA Between ==
  ASSUME NEW R, Central(R),
         NEW v, v[1] \in Fractions, v[2] \in Fractions, v[3] \in Fractions,
         NEW g, g[1] \in Fractions, g[2] \in Fractions, g[3] \in Fractions
  PROVE  Product(Product(matrix_float4x4_translation(v),
                         R),
                 matrix_float4x4_translation(g)) =
           <<<<R[1][1], R[1][2], R[1][3], Zero>>, <<R[2][1], R[2][2], R[2][3], Zero>>,
             <<R[3][1], R[3][2], R[3][3], Zero>>,
             <<(((R[1][1] \otimes g[1]) \oplus (R[2][1] \otimes g[2])) \oplus (R[3][1] \otimes g[3])) \oplus v[1],
               (((R[1][2] \otimes g[1]) \oplus (R[2][2] \otimes g[2])) \oplus (R[3][2] \otimes g[3])) \oplus v[2],
               (((R[1][3] \otimes g[1]) \oplus (R[2][3] \otimes g[2])) \oplus (R[3][3] \otimes g[3])) \oplus v[3],
               One>>>>
<1> DEFINE a1 == R[1][1]
           a2 == R[1][2]
           a3 == R[1][3]
           b1 == R[2][1]
           b2 == R[2][2]
           b3 == R[2][3]
           c1 == R[3][1]
           c2 == R[3][2]
           c3 == R[3][3]
           v1 == v[1]
           v2 == v[2]
           v3 == v[3]
           g1 == g[1]
           g2 == g[2]
           g3 == g[3]
           M == <<<<a1, a2, a3, Zero>>, <<b1, b2, b3, Zero>>,
                  <<c1, c2, c3, Zero>>, <<v1, v2, v3, One>>>>
           w1 == ((a1 \otimes g1) \oplus (b1 \otimes g2)) \oplus (c1 \otimes g3)
           w2 == ((a2 \otimes g1) \oplus (b2 \otimes g2)) \oplus (c2 \otimes g3)
           w3 == ((a3 \otimes g1) \oplus (b3 \otimes g2)) \oplus (c3 \otimes g3)
<1>1. /\ a1 \in Fractions /\ a2 \in Fractions /\ a3 \in Fractions
      /\ b1 \in Fractions /\ b2 \in Fractions /\ b3 \in Fractions
      /\ c1 \in Fractions /\ c2 \in Fractions /\ c3 \in Fractions
      /\ v1 \in Fractions /\ v2 \in Fractions /\ v3 \in Fractions
      /\ g1 \in Fractions /\ g2 \in Fractions /\ g3 \in Fractions
      /\ Zero \in Fractions /\ One \in Fractions
  BY Closed DEF Central
<1>0. /\ R = <<<<a1, a2, a3, Zero>>, <<b1, b2, b3, Zero>>,
               <<c1, c2, c3, Zero>>, <<Zero, Zero, Zero, One>>>>
      /\ v[1] = v1 /\ v[2] = v2 /\ v[3] = v3
      /\ g[1] = g1 /\ g[2] = g2 /\ g[3] = g3
  BY DEF Central
<1> HIDE DEF a1, a2, a3, b1, b2, b3, c1, c2, c3, v1, v2, v3, g1, g2, g3
<1> DEFINE T == matrix_float4x4_translation(v)
           G == matrix_float4x4_translation(g)
<1>2. Product(T, R) = M
  <2>1. ASSUME NEW x \in Fractions, NEW y \in Fractions, NEW z \in Fractions
        PROVE  Apply(T, <<x, y, z, Zero>>) = <<x, y, z, Zero>>
    BY <1>0, <1>1, DirectionStays
  <2>2. Product(T, R) =
          <<Apply(T, <<a1, a2, a3, Zero>>), Apply(T, <<b1, b2, b3, Zero>>),
            Apply(T, <<c1, c2, c3, Zero>>), Apply(T, <<Zero, Zero, Zero, One>>)>>
    BY <1>0, Product4
  <2> HIDE DEF T
  <2>3. Apply(T, <<Zero, Zero, Zero, One>>) = <<v1, v2, v3, One>>
    <3>1. Apply(T, <<Zero, Zero, Zero, One>>) =
            <<Zero \oplus v1, Zero \oplus v2, Zero \oplus v3, One>>
      BY <1>0, <1>1, PointMoves DEF T
    <3> QED  BY <1>1, <3>1, Sparse
  <2>4. /\ Apply(T, <<a1, a2, a3, Zero>>) = <<a1, a2, a3, Zero>>
        /\ Apply(T, <<b1, b2, b3, Zero>>) = <<b1, b2, b3, Zero>>
        /\ Apply(T, <<c1, c2, c3, Zero>>) = <<c1, c2, c3, Zero>>
    BY <1>1, <2>1
  <2> QED  BY <2>2, <2>3, <2>4
<1>3. Product(M, G) =
        <<Apply(M, <<One, Zero, Zero, Zero>>), Apply(M, <<Zero, One, Zero, Zero>>),
          Apply(M, <<Zero, Zero, One, Zero>>), Apply(M, <<g1, g2, g3, One>>)>>
  <2>1. G = <<<<One, Zero, Zero, Zero>>, <<Zero, One, Zero, Zero>>,
              <<Zero, Zero, One, Zero>>, <<g1, g2, g3, One>>>>
    BY <1>0 DEF matrix_float4x4_translation
  <2> DEFINE e1 == <<One, Zero, Zero, Zero>>
             e2 == <<Zero, One, Zero, Zero>>
             e3 == <<Zero, Zero, One, Zero>>
             p == <<g1, g2, g3, One>>
  <2>2. G = <<e1, e2, e3, p>>  BY <2>1
  <2> HIDE DEF M, G, e1, e2, e3, p
  <2>3. Product(M, G) = <<Apply(M, e1), Apply(M, e2), Apply(M, e3), Apply(M, p)>>
    BY <2>2, Product4
  <2> QED  BY <2>3, Zenon DEF e1, e2, e3, p
<1>4. Apply(M, <<One, Zero, Zero, Zero>>) = <<a1, a2, a3, Zero>>
  BY <1>1, Apply4, Sparse
<1>5. Apply(M, <<Zero, One, Zero, Zero>>) = <<b1, b2, b3, Zero>>
  BY <1>1, Apply4, Sparse
<1>6. Apply(M, <<Zero, Zero, One, Zero>>) = <<c1, c2, c3, Zero>>
  BY <1>1, Apply4, Sparse
<1>7. Apply(M, <<g1, g2, g3, One>>) = <<w1 \oplus v1, w2 \oplus v2, w3 \oplus v3, One>>
  <2>1. Apply(M, <<g1, g2, g3, One>>) =
          <<w1 \oplus (v1 \otimes One), w2 \oplus (v2 \otimes One), w3 \oplus (v3 \otimes One),
            (((Zero \otimes g1) \oplus (Zero \otimes g2)) \oplus (Zero \otimes g3))
              \oplus (One \otimes One)>>
    BY Apply4
  <2>2. v1 \otimes One = v1 /\ v2 \otimes One = v2 /\ v3 \otimes One = v3
    BY <1>1, Sparse
  <2>3. (((Zero \otimes g1) \oplus (Zero \otimes g2)) \oplus (Zero \otimes g3))
              \oplus (One \otimes One) = One
    BY <1>1, Sparse
  <2> HIDE DEF w1, w2, w3
  <2> QED  BY <2>1, <2>2, <2>3
<1> HIDE DEF M, w1, w2, w3
<1>8. Product(M, G) = <<<<a1, a2, a3, Zero>>, <<b1, b2, b3, Zero>>, <<c1, c2, c3, Zero>>,
                        <<w1 \oplus v1, w2 \oplus v2, w3 \oplus v3, One>>>>
  BY <1>3, <1>4, <1>5, <1>6, <1>7, Zenon
<1> QED  BY <1>2, <1>8, Zenon DEF w1, w2, w3, a1, a2, a3, b1, b2, b3, c1, c2, c3, v1, v2, v3, g1, g2, g3

----------------------------------------------------------------------------
(* The rotations of Pose, and the angles found in them                     *)

(* A rotation about x by a, about y by b and about z by c, worked out.     *)
Turns(a, b, c) ==
  <<<<c[1] \otimes b[1], Negative(c[2]) \otimes b[1], b[2]>>,
    <<(c[2] \otimes a[1]) \oplus ((c[1] \otimes Negative(b[2])) \otimes Negative(a[2])),
      (c[1] \otimes a[1]) \oplus ((Negative(c[2]) \otimes Negative(b[2])) \otimes Negative(a[2])),
      b[1] \otimes Negative(a[2])>>,
    <<(c[2] \otimes a[2]) \oplus ((c[1] \otimes Negative(b[2])) \otimes a[1]),
      (c[1] \otimes a[2]) \oplus ((Negative(c[2]) \otimes Negative(b[2])) \otimes a[1]),
      b[1] \otimes a[1]>>>>

(* It is what matrix_float3x3_rotation makes of the three angles.          *)
LEMMA TurnsOne ==
  ASSUME NEW a, IsAngle(a), NEW b, IsAngle(b), NEW c, IsAngle(c)
  PROVE  matrix_float3x3_rotation_xyz(<<a, b, c>>) = Turns(a, b, c)
<1> DEFINE p == a[1]
           u == a[2]
           q == b[1]
           v == b[2]
           r == c[1]
           w == c[2]
           nu == Negative(u)
           nv == Negative(v)
           nw == Negative(w)
           X == <<<<One, Zero, Zero>>, <<Zero, p, nu>>, <<Zero, u, p>>>>
           Y == <<<<q, Zero, v>>, <<Zero, One, Zero>>, <<nv, Zero, q>>>>
           Z == <<<<r, nw, Zero>>, <<w, r, Zero>>, <<Zero, Zero, One>>>>
           ZY == <<<<r \otimes q, nw \otimes q, v>>, <<w, r, Zero>>,
                   <<r \otimes nv, nw \otimes nv, q>>>>
<1>1. /\ p \in Fractions /\ u \in Fractions /\ q \in Fractions /\ v \in Fractions
      /\ r \in Fractions /\ w \in Fractions
  BY DEF IsAngle
<1>2. /\ nu \in Fractions /\ nv \in Fractions /\ nw \in Fractions
      /\ r \otimes q \in Fractions /\ nw \otimes q \in Fractions
      /\ r \otimes nv \in Fractions /\ nw \otimes nv \in Fractions
  <2>1. nu \in Fractions /\ nv \in Fractions /\ nw \in Fractions  BY <1>1, Closed
  <2> QED  BY <1>1, <2>1, Closed
<1>3. matrix_float3x3_rotation(xAxis, a) = X  BY AxisRotations, Zenon
<1>4. matrix_float3x3_rotation(yAxis, b) = Y  BY AxisRotations, Zenon
<1>5. matrix_float3x3_rotation(zAxis, c) = Z  BY AxisRotations, Zenon
<1> HIDE DEF p, u, q, v, r, w, nu, nv, nw
<1>6. Product(Z, Y) = ZY
  <2>1. Product(Z, Y) = <<Apply(Z, <<q, Zero, v>>), Apply(Z, <<Zero, One, Zero>>),
                          Apply(Z, <<nv, Zero, q>>)>>
    BY Product3
  <2>2. Apply(Z, <<q, Zero, v>>) = <<r \otimes q, nw \otimes q, v>>
    BY <1>1, <1>2, Apply3, Sparse
  <2>3. Apply(Z, <<Zero, One, Zero>>) = <<w, r, Zero>>
    BY <1>1, <1>2, Apply3, Sparse
  <2>4. Apply(Z, <<nv, Zero, q>>) = <<r \otimes nv, nw \otimes nv, q>>
    BY <1>1, <1>2, Apply3, Sparse
  <2> QED  BY <2>1, <2>2, <2>3, <2>4
<1>7. Product(ZY, X) =
        <<<<r \otimes q, nw \otimes q, v>>,
          <<(w \otimes p) \oplus ((r \otimes nv) \otimes nu),
            (r \otimes p) \oplus ((nw \otimes nv) \otimes nu), q \otimes nu>>,
          <<(w \otimes u) \oplus ((r \otimes nv) \otimes p),
            (r \otimes u) \oplus ((nw \otimes nv) \otimes p), q \otimes p>>>>
  <2>1. Product(ZY, X) = <<Apply(ZY, <<One, Zero, Zero>>), Apply(ZY, <<Zero, p, nu>>),
                           Apply(ZY, <<Zero, u, p>>)>>
    BY Product3
  <2>2. Apply(ZY, <<One, Zero, Zero>>) = <<r \otimes q, nw \otimes q, v>>
    BY <1>1, <1>2, Apply3, Sparse
  <2>3. Apply(ZY, <<Zero, p, nu>>) =
          <<(w \otimes p) \oplus ((r \otimes nv) \otimes nu),
            (r \otimes p) \oplus ((nw \otimes nv) \otimes nu), q \otimes nu>>
    BY <1>1, <1>2, Apply3, Sparse
  <2>4. Apply(ZY, <<Zero, u, p>>) =
          <<(w \otimes u) \oplus ((r \otimes nv) \otimes p),
            (r \otimes u) \oplus ((nw \otimes nv) \otimes p), q \otimes p>>
    BY <1>1, <1>2, Apply3, Sparse
  <2> QED  BY <2>1, <2>2, <2>3, <2>4
<1> HIDE DEF X, Y, Z, ZY
<1>8. matrix_float3x3_rotation_xyz(<<a, b, c>>) = Product(ZY, X)
  <2>1. matrix_float3x3_rotation_xyz(<<a, b, c>>) =
          Product(Product(matrix_float3x3_rotation(zAxis, c),
                          matrix_float3x3_rotation(yAxis, b)),
                  matrix_float3x3_rotation(xAxis, a))
    BY DEF matrix_float3x3_rotation_xyz
  <2> QED  BY <1>3, <1>4, <1>5, <1>6, <2>1, Zenon
<1> QED  BY <1>7, <1>8, Zenon DEF Turns, p, u, q, v, r, w, nu, nv, nw

(* The sum of the squares of an angle's parts, in integers.                *)
LEMMA SquaresSum ==
  ASSUME NEW a, IsAngle(a), NEW m, NEW n, NEW d, Is(a[1], m, d), Is(a[2], n, d)
  PROVE  m * m + n * n = d * d
<1>1. (a[1] \otimes a[1]) \oplus (a[2] \otimes a[2]) = One  BY DEF IsAngle, cos, sin
<1>2. m \in Int /\ n \in Int /\ d \in Nat \ {0} /\ d * d \in Nat \ {0}  BY DEF Is
<1>3. Is(a[1] \otimes a[1], m * m, d * d) /\ Is(a[2] \otimes a[2], n * n, d * d)
  BY ProductIs, Zenon
<1>4. Is(One, m * m + n * n, d * d)  BY <1>1, <1>3, SumIs, Zenon
<1>5. Is(One, d * d, d * d)  BY <1>2, ZeroIs, Zenon
<1> QED  BY <1>4, <1>5, OrderIs

(* atan2 finds an angle in its sine and cosine times a positive number.    *)
LEMMA AngleOfScaled ==
  ASSUME NEW a, IsAngle(a), NEW q \in Fractions, Less(Zero, q)
  PROVE  atan2(a[2] \otimes q, a[1] \otimes q) = {a}
<1> DEFINE c == a[1]
           s == a[2]
           x == c \otimes q
           y == s \otimes q
<1>1. c \in Fractions /\ s \in Fractions /\ a = <<c, s>> /\ (c \otimes c) \oplus (s \otimes s) = One
  BY DEF IsAngle, cos, sin
<1> HIDE DEF c, s
<1>2. x \oslash q = c /\ y \oslash q = s  BY <1>1, QuotientLaws
<1>3. ~(x = Zero /\ y = Zero)
  <2>1. SUFFICES ASSUME x = Zero, y = Zero PROVE FALSE  OBVIOUS
  <2>2. Zero \oslash q = Zero
    <3>1. Zero \in Fractions /\ Zero \otimes q = Zero  BY Sparse
    <3> QED  BY <3>1, QuotientLaws, Zenon
  <2>3. c = Zero /\ s = Zero  BY <1>2, <2>1, <2>2, Zenon
  <2>4. (Zero \otimes Zero) \oplus (Zero \otimes Zero) = Zero  BY Sparse
  <2>5. Zero = One  BY <1>1, <2>3, <2>4
  <2> QED  BY <2>5 DEF Zero, One, Q
<1>4. (x \otimes x) \oplus (y \otimes y) = q \otimes q
  <2>1. PICK C \in Int, S \in Int, K \in Int, d \in Nat \ {0} :
          Is(c, C, d) /\ Is(s, S, d) /\ Is(q, K, d)
    BY <1>1, Common
  <2> DEFINE d2 == d * d
  <2>2. d2 \in Nat \ {0}  OBVIOUS
  <2>3. Is(x, C * K, d2) /\ Is(y, S * K, d2) /\ Is(q \otimes q, K * K, d2)
    BY <2>1, ProductIs, Zenon
  <2>4. Is(x \otimes x, (C * K) * (C * K), d2 * d2) /\ Is(y \otimes y, (S * K) * (S * K), d2 * d2)
    BY <2>3, ProductIs, Zenon
  <2>5. Is((x \otimes x) \oplus (y \otimes y), (C * K) * (C * K) + (S * K) * (S * K), d2 * d2)
    BY <2>4, SumIs, Zenon
  <2>6. Is(q \otimes q, (K * K) * d2, d2 * d2)  BY <2>2, <2>3, ScaledIs, Zenon
  <2>7. C * C + S * S = d2  BY <2>1, SquaresSum DEF c, s
  <2>8. (C * K) * (C * K) + (S * K) * (S * K) = (K * K) * d2
    <3>1. (C * K) * (C * K) + (S * K) * (S * K) = (K * K) * (C * C + S * S)  OBVIOUS
    <3> QED  BY <2>7, <3>1
  <2> QED  BY <2>5, <2>6, <2>8, SameIs, Zenon
<1>5. Root(q \otimes q) = q
  <2>1. q[1] > 0 /\ q[1] \in Int  BY SignLaws, FractionParts
  <2> QED  BY <2>1, RootOfSquare
<1> HIDE DEF x, y
<1>6. atan2(y, x) = {<<x \oslash q, y \oslash q>>}  BY <1>3, <1>4, <1>5, Zenon DEF atan2
<1>7. atan2(y, x) = {a}  BY <1>1, <1>2, <1>6
<1> QED  BY <1>7, Zenon DEF x, y, c, s

(* atan2 finds an angle in its sine and cosine.                            *)
LEMMA AngleOfAngle ==
  ASSUME NEW x \in Fractions, NEW y \in Fractions, (x \otimes x) \oplus (y \otimes y) = One
  PROVE  IsAngle(<<x, y>>) /\ atan2(y, x) = {<<x, y>>}
<1>1. IsAngle(<<x, y>>)  BY DEF IsAngle, cos, sin
<1>2. One \in Fractions /\ Less(Zero, One) /\ x \otimes One = x /\ y \otimes One = y
  <2>1. Less(Zero, One)  BY DEF Less, Zero, One, Q
  <2> QED  BY <2>1, Sparse
<1> DEFINE a == <<x, y>>
<1>3. a[1] = x /\ a[2] = y  OBVIOUS
<1> HIDE DEF a
<1>4. atan2(a[2] \otimes One, a[1] \otimes One) = {a}
  BY <1>1, <1>2, AngleOfScaled, Zenon DEF a
<1>5. atan2(y, x) = {a}  BY <1>2, <1>3, <1>4, Zenon
<1> QED  BY <1>1, <1>5 DEF a

(* Turned half round about x and z, and mirrored about y, it is the same.  *)
Turned180(a) == <<Negative(a[1]), Negative(a[2])>>
Mirrored(a) == <<Negative(a[1]), a[2]>>

(* Two signs cancel.                                                       *)
LEMMA NegativeSquare ==
  ASSUME NEW a \in Fractions, NEW b \in Fractions
  PROVE  Negative(a) \otimes Negative(b) = a \otimes b
<1>1. Negative(b) \in Fractions /\ a \otimes b \in Fractions  BY Closed
<1>2. Negative(a) \otimes Negative(b) = Negative(a \otimes Negative(b))  BY <1>1, ProductLaws, Zenon
<1>3. a \otimes Negative(b) = Negative(a \otimes b)  BY ProductLaws, Zenon
<1>4. Negative(Negative(a \otimes b)) = a \otimes b  BY <1>1, NeutralLaws
<1> QED  BY <1>2, <1>3, <1>4, Zenon

(* Turned, mirrored and taken backwards an angle is still one.             *)
LEMMA OtherAngles ==
  ASSUME NEW a, IsAngle(a)
  PROVE  IsAngle(Turned180(a)) /\ IsAngle(Mirrored(a)) /\ IsAngle(Opposite(a))
         /\ a = <<a[1], a[2]>>
<1>1. /\ a[1] \in Fractions /\ a[2] \in Fractions /\ a = <<a[1], a[2]>>
      /\ (a[1] \otimes a[1]) \oplus (a[2] \otimes a[2]) = One
  BY DEF IsAngle, cos, sin
<1>2. Negative(a[1]) \in Fractions /\ Negative(a[2]) \in Fractions  BY <1>1, Closed
<1>3. /\ Negative(a[1]) \otimes Negative(a[1]) = a[1] \otimes a[1]
      /\ Negative(a[2]) \otimes Negative(a[2]) = a[2] \otimes a[2]
  BY <1>1, NegativeSquare
<1> QED  BY <1>1, <1>2, <1>3 DEF IsAngle, cos, sin, Turned180, Mirrored, Opposite

(* The three together make no difference to the rotation.                  *)
LEMMA OtherTurns ==
  ASSUME NEW a, IsAngle(a), NEW b, IsAngle(b), NEW c, IsAngle(c)
  PROVE  Turns(Turned180(a), Mirrored(b), Turned180(c)) = Turns(a, b, c)
<1> DEFINE p == a[1]
           u == a[2]
           q == b[1]
           v == b[2]
           r == c[1]
           w == c[2]
           np == Negative(p)
           nu == Negative(u)
           nq == Negative(q)
           nv == Negative(v)
           nr == Negative(r)
           nw == Negative(w)
<1>1. /\ p \in Fractions /\ u \in Fractions /\ q \in Fractions /\ v \in Fractions
      /\ r \in Fractions /\ w \in Fractions
  BY DEF IsAngle
<1>2. /\ np \in Fractions /\ nu \in Fractions /\ nq \in Fractions /\ nv \in Fractions
      /\ nr \in Fractions /\ nw \in Fractions
  BY <1>1, Closed
<1>3. Turns(a, b, c) =
        <<<<r \otimes q, nw \otimes q, v>>,
          <<(w \otimes p) \oplus ((r \otimes nv) \otimes nu),
            (r \otimes p) \oplus ((nw \otimes nv) \otimes nu), q \otimes nu>>,
          <<(w \otimes u) \oplus ((r \otimes nv) \otimes p),
            (r \otimes u) \oplus ((nw \otimes nv) \otimes p), q \otimes p>>>>
  BY DEF Turns
<1>4. Turns(Turned180(a), Mirrored(b), Turned180(c)) =
        <<<<nr \otimes nq, Negative(nw) \otimes nq, v>>,
          <<(nw \otimes np) \oplus ((nr \otimes nv) \otimes Negative(nu)),
            (nr \otimes np) \oplus ((Negative(nw) \otimes nv) \otimes Negative(nu)),
            nq \otimes Negative(nu)>>,
          <<(nw \otimes nu) \oplus ((nr \otimes nv) \otimes np),
            (nr \otimes nu) \oplus ((Negative(nw) \otimes nv) \otimes np), nq \otimes np>>>>
  BY DEF Turns, Turned180, Mirrored
<1>5. Negative(nw) = w /\ Negative(nu) = u  BY <1>1, NeutralLaws
<1> HIDE DEF p, u, q, v, r, w
<1>6. /\ nr \otimes nq = r \otimes q /\ nw \otimes np = w \otimes p
      /\ nr \otimes np = r \otimes p /\ nw \otimes nu = w \otimes u
      /\ nr \otimes nu = r \otimes u /\ nq \otimes np = q \otimes p
  BY <1>1, NegativeSquare
<1>7. /\ w \otimes nq = nw \otimes q /\ nq \otimes u = q \otimes nu
  <2>1. w \otimes nq = Negative(w \otimes q) /\ nw \otimes q = Negative(w \otimes q)
    BY <1>1, ProductLaws, Zenon
  <2>2. nq \otimes u = Negative(q \otimes u) /\ q \otimes nu = Negative(q \otimes u)
    BY <1>1, ProductLaws, Zenon
  <2> QED  BY <2>1, <2>2, Zenon
<1>8. ASSUME NEW x \in Fractions, NEW y \in Fractions, NEW z \in Fractions
      PROVE  (Negative(x) \otimes y) \otimes Negative(z) = (x \otimes y) \otimes z
  <2>1. Negative(x) \otimes y = Negative(x \otimes y)  BY <1>8, ProductLaws, Zenon
  <2>2. x \otimes y \in Fractions  BY <1>8, Closed
  <2> QED  BY <1>8, <2>1, <2>2, NegativeSquare
<1>9. /\ (nr \otimes nv) \otimes u = (r \otimes nv) \otimes nu
      /\ (w \otimes nv) \otimes u = (nw \otimes nv) \otimes nu
      /\ (nr \otimes nv) \otimes np = (r \otimes nv) \otimes p
      /\ (w \otimes nv) \otimes np = (nw \otimes nv) \otimes p
  <2>1. (nr \otimes nv) \otimes Negative(nu) = (r \otimes nv) \otimes nu
    BY <1>1, <1>2, <1>8
  <2>2. (Negative(nw) \otimes nv) \otimes Negative(nu) = (nw \otimes nv) \otimes nu
    BY <1>1, <1>2, <1>8
  <2>3. (nr \otimes nv) \otimes np = (r \otimes nv) \otimes p
    BY <1>1, <1>2, <1>8
  <2>4. (Negative(nw) \otimes nv) \otimes np = (nw \otimes nv) \otimes p
    BY <1>1, <1>2, <1>8
  <2> QED  BY <1>5, <2>1, <2>2, <2>3, <2>4
<1> HIDE DEF np, nu, nq, nv, nr, nw
<1> QED  BY <1>3, <1>4, <1>5, <1>6, <1>7, <1>9

(* The entries of Turns over powers of one denominator.                    *)
LEMMA TurnsIs ==
  ASSUME NEW p, NEW u, NEW v, NEW r, NEW w,
         NEW P, NEW U, NEW V, NEW R, NEW W, NEW d,
         Is(p, P, d), Is(u, U, d), Is(v, V, d), Is(r, R, d), Is(w, W, d)
  PROVE  /\ Is((w \otimes p) \oplus ((r \otimes Negative(v)) \otimes Negative(u)),
               (W * P) * d + (R * (-V)) * (-U), (d * d) * d)
         /\ Is((r \otimes p) \oplus ((Negative(w) \otimes Negative(v)) \otimes Negative(u)),
               (R * P) * d + ((-W) * (-V)) * (-U), (d * d) * d)
         /\ Is((w \otimes u) \oplus ((r \otimes Negative(v)) \otimes p),
               (W * U) * d + (R * (-V)) * P, (d * d) * d)
         /\ Is((r \otimes u) \oplus ((Negative(w) \otimes Negative(v)) \otimes p),
               (R * U) * d + ((-W) * (-V)) * P, (d * d) * d)
<1>1. d \in Nat \ {0}  BY DEF Is
<1>2. Is(Negative(u), -U, d) /\ Is(Negative(v), -V, d) /\ Is(Negative(w), -W, d)
  BY NegativeIs, Zenon
<1>3. /\ Is(w \otimes p, W * P, d * d) /\ Is(r \otimes p, R * P, d * d)
      /\ Is(w \otimes u, W * U, d * d) /\ Is(r \otimes u, R * U, d * d)
      /\ Is(r \otimes Negative(v), R * (-V), d * d)
      /\ Is(Negative(w) \otimes Negative(v), (-W) * (-V), d * d)
  BY <1>2, ProductIs, Zenon
<1>4. /\ Is(w \otimes p, (W * P) * d, (d * d) * d) /\ Is(r \otimes p, (R * P) * d, (d * d) * d)
      /\ Is(w \otimes u, (W * U) * d, (d * d) * d) /\ Is(r \otimes u, (R * U) * d, (d * d) * d)
  BY <1>1, <1>3, ScaledIs, Zenon
<1>5. /\ Is((r \otimes Negative(v)) \otimes Negative(u), (R * (-V)) * (-U), (d * d) * d)
      /\ Is((Negative(w) \otimes Negative(v)) \otimes Negative(u),
            ((-W) * (-V)) * (-U), (d * d) * d)
      /\ Is((r \otimes Negative(v)) \otimes p, (R * (-V)) * P, (d * d) * d)
      /\ Is((Negative(w) \otimes Negative(v)) \otimes p, ((-W) * (-V)) * P, (d * d) * d)
  BY <1>2, <1>3, ProductIs, Zenon
<1> QED  BY <1>4, <1>5, SumIs, Zenon

(* Turning back about z leaves what the other two angles made.             *)
LEMMA TurnedBack ==
  ASSUME NEW a, IsAngle(a), NEW b, IsAngle(b), NEW c, IsAngle(c)
  PROVE  \A M : M = Turns(a, b, c) =>
           /\ (M[1][1] \otimes c[1]) \oplus (M[1][2] \otimes Negative(c[2])) = b[1]
           /\ (M[3][1] \otimes Negative(c[2])) \ominus (M[3][2] \otimes c[1]) = Negative(a[2])
           /\ (M[2][2] \otimes c[1]) \ominus (M[2][1] \otimes Negative(c[2])) = a[1]
<1> DEFINE p == a[1]
           u == a[2]
           q == b[1]
           v == b[2]
           r == c[1]
           w == c[2]
           m11 == r \otimes q
           m12 == Negative(w) \otimes q
           m21 == (w \otimes p) \oplus ((r \otimes Negative(v)) \otimes Negative(u))
           m22 == (r \otimes p) \oplus ((Negative(w) \otimes Negative(v)) \otimes Negative(u))
           m31 == (w \otimes u) \oplus ((r \otimes Negative(v)) \otimes p)
           m32 == (r \otimes u) \oplus ((Negative(w) \otimes Negative(v)) \otimes p)
           M == Turns(a, b, c)
<1>1. /\ p \in Fractions /\ u \in Fractions /\ q \in Fractions /\ v \in Fractions
      /\ r \in Fractions /\ w \in Fractions
  BY DEF IsAngle
<1>2. /\ M[1][1] = m11 /\ M[1][2] = m12 /\ M[2][1] = m21 /\ M[2][2] = m22
      /\ M[3][1] = m31 /\ M[3][2] = m32
  BY DEF Turns
<1>3. PICK P, U, Q0, V, R, W \in Int, d \in Nat \ {0} :
        /\ Is(p, P, d) /\ Is(u, U, d) /\ Is(q, Q0, d)
        /\ Is(v, V, d) /\ Is(r, R, d) /\ Is(w, W, d)
  <2> DEFINE f == <<p, u, q, v, r, w>>
  <2>1. \A i \in 1 .. 6 : f[i] \in Fractions  BY <1>1
  <2>2. f[1] = p /\ f[2] = u /\ f[3] = q /\ f[4] = v /\ f[5] = r /\ f[6] = w  OBVIOUS
  <2> HIDE DEF f, p, u, q, v, r, w
  <2>3. PICK n, d : d \in Nat \ {0} /\ \A i \in 1 .. 6 : n[i] \in Int /\ Is(f[i], n[i], d)
    BY <2>1, Common6
  <2>4. /\ n[1] \in Int /\ n[2] \in Int /\ n[3] \in Int
        /\ n[4] \in Int /\ n[5] \in Int /\ n[6] \in Int
        /\ Is(p, n[1], d) /\ Is(u, n[2], d) /\ Is(q, n[3], d)
        /\ Is(v, n[4], d) /\ Is(r, n[5], d) /\ Is(w, n[6], d)
    BY <2>2, <2>3
  <2> QED  BY <2>3, <2>4, Zenon
<1>4. R * R + W * W = d * d  BY <1>3, SquaresSum
<1> HIDE DEF p, u, q, v, r, w
<1> DEFINE d2 == d * d
           d3 == d2 * d
           N21 == (W * P) * d + (R * (-V)) * (-U)
           N22 == (R * P) * d + ((-W) * (-V)) * (-U)
           N31 == (W * U) * d + (R * (-V)) * P
           N32 == (R * U) * d + ((-W) * (-V)) * P
<1>5. d2 \in Nat \ {0} /\ d3 \in Nat \ {0} /\ d3 * d = d * d3 /\ d2 * d = d * d2
  OBVIOUS
<1>6. Is(Negative(w), -W, d) /\ Is(Negative(u), -U, d)  BY <1>3, NegativeIs, Zenon
<1>7. /\ Is(m11, R * Q0, d2) /\ Is(m12, (-W) * Q0, d2)
  BY <1>3, <1>6, ProductIs, Zenon
<1>8. Is(m21, N21, d3) /\ Is(m22, N22, d3) /\ Is(m31, N31, d3) /\ Is(m32, N32, d3)
  BY <1>3, TurnsIs, Zenon
<1> HIDE DEF m11, m12, m21, m22, m31, m32
<1>9. (m11 \otimes r) \oplus (m12 \otimes Negative(w)) = q
  <2>1. Is(m11 \otimes r, (R * Q0) * R, d2 * d) /\ Is(m12 \otimes Negative(w), ((-W) * Q0) * (-W), d2 * d)
    BY <1>3, <1>6, <1>7, ProductIs, Zenon
  <2>2. Is((m11 \otimes r) \oplus (m12 \otimes Negative(w)),
           (R * Q0) * R + ((-W) * Q0) * (-W), d2 * d)
    BY <2>1, SumIs, Zenon
  <2>3. (R * Q0) * R + ((-W) * Q0) * (-W) = Q0 * d2
    <3>1. (R * Q0) * R + ((-W) * Q0) * (-W) = Q0 * (R * R + W * W)  OBVIOUS
    <3> QED  BY <1>4, <3>1
  <2>4. Is(q, Q0 * d2, d * d2)  BY <1>3, <1>5, ScaledIs, Zenon
  <2> QED  BY <1>5, <2>2, <2>3, <2>4, SameIs, Zenon
<1>10. (m31 \otimes Negative(w)) \ominus (m32 \otimes r) = Negative(u)
  <2>1. Is(m31 \otimes Negative(w), N31 * (-W), d3 * d) /\ Is(m32 \otimes r, N32 * R, d3 * d)
    BY <1>3, <1>6, <1>8, ProductIs, Zenon
  <2>2. Is((m31 \otimes Negative(w)) \ominus (m32 \otimes r), N31 * (-W) - N32 * R, d3 * d)
    BY <2>1, SumIs, Zenon
  <2>3. N31 * (-W) - N32 * R = (-U) * d3
    <3>1. N31 * (-W) - N32 * R = (-U) * (d * (R * R + W * W))  OBVIOUS
    <3>2. d * d2 = d3  OBVIOUS
    <3> QED  BY <1>4, <3>1, <3>2
  <2>4. Is(Negative(u), (-U) * d3, d * d3)  BY <1>5, <1>6, ScaledIs, Zenon
  <2> QED  BY <1>5, <2>2, <2>3, <2>4, SameIs, Zenon
<1>11. (m22 \otimes r) \ominus (m21 \otimes Negative(w)) = p
  <2>1. Is(m22 \otimes r, N22 * R, d3 * d) /\ Is(m21 \otimes Negative(w), N21 * (-W), d3 * d)
    BY <1>3, <1>6, <1>8, ProductIs, Zenon
  <2>2. Is((m22 \otimes r) \ominus (m21 \otimes Negative(w)), N22 * R - N21 * (-W), d3 * d)
    BY <2>1, SumIs, Zenon
  <2>3. N22 * R - N21 * (-W) = P * d3
    <3>1. N22 * R - N21 * (-W) = P * (d * (R * R + W * W))  OBVIOUS
    <3>2. d * d2 = d3  OBVIOUS
    <3> QED  BY <1>4, <3>1, <3>2
  <2>4. Is(p, P * d3, d * d3)  BY <1>3, <1>5, ScaledIs, Zenon
  <2> QED  BY <1>5, <2>2, <2>3, <2>4, SameIs, Zenon
<1> HIDE DEF M
<1>12. /\ (M[1][1] \otimes r) \oplus (M[1][2] \otimes Negative(w)) = q
       /\ (M[3][1] \otimes Negative(w)) \ominus (M[3][2] \otimes r) = Negative(u)
       /\ (M[2][2] \otimes r) \ominus (M[2][1] \otimes Negative(w)) = p
  BY <1>2, <1>9, <1>10, <1>11, Zenon
<1> QED  BY <1>12, Zenon DEF M, p, u, q, r, w

(* The angles found where the one about y is less than a quarter turn.     *)
LEMMA RegularFound ==
  ASSUME NEW a, IsAngle(a), NEW b, IsAngle(b), NEW c, IsAngle(c), Less(Zero, b[1]),
         NEW M, \A j, i \in 1 .. 3 : M[j][i] = Turns(a, b, c)[j][i]
  PROVE  matrix_eulerian_angle(M) = {<<a, b, c>>}
<1> DEFINE T == Turns(a, b, c)
           z1 == Opposite(a)
           y1 == Opposite(b)
           e == Opposite(c)
<1>1. /\ T[1][1] = c[1] \otimes b[1] /\ T[1][2] = Negative(c[2]) \otimes b[1] /\ T[1][3] = b[2]
  BY DEF Turns
<1>2. /\ e[1] = c[1] /\ e[2] = Negative(c[2]) /\ e = <<c[1], Negative(c[2])>>
      /\ y1 = <<b[1], Negative(b[2])>> /\ z1 = <<a[1], Negative(a[2])>>
  BY DEF Opposite, cos, sin
<1>3. IsAngle(e) /\ IsAngle(y1) /\ IsAngle(z1) /\ b[1] \in Fractions
  BY OtherAngles DEF IsAngle
<1>4. atan2(T[1][2], T[1][1]) = {e}
  <2>1. atan2(e[2] \otimes b[1], e[1] \otimes b[1]) = {e}
    <3> HIDE DEF e
    <3> QED  BY <1>3, AngleOfScaled
  <2> QED  BY <1>1, <1>2, <2>1, Zenon
<1>5. ASSUME NEW x, IsAngle(x) PROVE atan2(x[2], x[1]) = {x}
  <2>1. /\ x = <<x[1], x[2]>> /\ x[1] \in Fractions /\ x[2] \in Fractions
        /\ (x[1] \otimes x[1]) \oplus (x[2] \otimes x[2]) = One
    BY <1>5 DEF IsAngle, cos, sin
  <2> QED  BY <2>1, AngleOfAngle
<1>6. atan2(Negative(T[1][3]), (T[1][1] \otimes e[1]) \oplus (T[1][2] \otimes e[2])) = {y1}
  <2>1. (T[1][1] \otimes e[1]) \oplus (T[1][2] \otimes e[2]) = b[1]
    <3>1. (T[1][1] \otimes c[1]) \oplus (T[1][2] \otimes Negative(c[2])) = b[1]
      BY TurnedBack
    <3> HIDE DEF T, e
    <3> QED  BY <1>2, <3>1
  <2>2. y1[1] = b[1] /\ y1[2] = Negative(b[2])  BY <1>2
  <2> HIDE DEF y1, T
  <2> QED  BY <1>1, <1>3, <1>5, <2>1, <2>2
<1>7. atan2((T[3][1] \otimes e[2]) \ominus (T[3][2] \otimes e[1]),
            (T[2][2] \otimes e[1]) \ominus (T[2][1] \otimes e[2])) = {z1}
  <2>1. /\ (T[3][1] \otimes e[2]) \ominus (T[3][2] \otimes e[1]) = Negative(a[2])
        /\ (T[2][2] \otimes e[1]) \ominus (T[2][1] \otimes e[2]) = a[1]
    <3>1. /\ (T[3][1] \otimes Negative(c[2])) \ominus (T[3][2] \otimes c[1]) = Negative(a[2])
          /\ (T[2][2] \otimes c[1]) \ominus (T[2][1] \otimes Negative(c[2])) = a[1]
      BY TurnedBack
    <3> HIDE DEF T, e
    <3> QED  BY <1>2, <3>1
  <2>2. z1[1] = a[1] /\ z1[2] = Negative(a[2])  BY <1>2
  <2> HIDE DEF z1, T
  <2> QED  BY <1>3, <1>5, <2>1, <2>2
<1>8. Opposite(e) = c /\ Opposite(y1) = b /\ Opposite(z1) = a
  <2>1. ASSUME NEW x, IsAngle(x) PROVE Opposite(Opposite(x)) = x
    <3>1. x = <<x[1], x[2]>> /\ x[2] \in Fractions  BY <2>1 DEF IsAngle
    <3>2. Negative(Negative(x[2])) = x[2]  BY <3>1, NeutralLaws
    <3> QED  BY <3>1, <3>2 DEF Opposite, cos, sin
  <2> QED  BY <2>1
<1> HIDE DEF T, e, y1, z1
<1>9. /\ M[1][1] = T[1][1] /\ M[1][2] = T[1][2] /\ M[1][3] = T[1][3]
      /\ M[2][1] = T[2][1] /\ M[2][2] = T[2][2] /\ M[3][1] = T[3][1] /\ M[3][2] = T[3][2]
  BY DEF T
<1> DEFINE Found(e1) ==
             LET e2 == atan2(Negative(M[1][3]),
                         (M[1][1] \otimes cos(e1)) \oplus (M[1][2] \otimes sin(e1)))
                 e3 == atan2((M[3][1] \otimes sin(e1)) \ominus (M[3][2] \otimes cos(e1)),
                         (M[2][2] \otimes cos(e1)) \ominus (M[2][1] \otimes sin(e1)))
             IN  {<<Opposite(z), Opposite(y), Opposite(e1)>> : y \in e2, z \in e3}
<1>10. matrix_eulerian_angle(M) = UNION {Found(e1) : e1 \in atan2(M[1][2], M[1][1])}
  BY DEF matrix_eulerian_angle
<1>11. /\ atan2(M[1][2], M[1][1]) = {e}
       /\ atan2(Negative(M[1][3]),
                (M[1][1] \otimes cos(e)) \oplus (M[1][2] \otimes sin(e))) = {y1}
       /\ atan2((M[3][1] \otimes sin(e)) \ominus (M[3][2] \otimes cos(e)),
                (M[2][2] \otimes cos(e)) \ominus (M[2][1] \otimes sin(e))) = {z1}
  BY <1>4, <1>6, <1>7, <1>9 DEF cos, sin
<1>12. Found(e) = {<<Opposite(z), Opposite(y), Opposite(e)>> : y \in {y1}, z \in {z1}}
  BY <1>11
<1> HIDE DEF Found
<1>13. Found(e) = {<<a, b, c>>}  BY <1>8, <1>12
<1>14. UNION {Found(e1) : e1 \in {e}} = Found(e)  OBVIOUS
<1> QED  BY <1>10, <1>11, <1>13, <1>14, Zenon

(* Where the angle about y is a quarter turn, the second column of the     *)
(* rotation and the quarter's sign give all of it.                         *)
LEMMA QuarterEntries ==
  ASSUME NEW a, IsAngle(a), NEW b, IsAngle(b), NEW c, IsAngle(c), b[1] = Zero,
         NEW m, m = Turns(a, b, c)[2][1], NEW n, n = Turns(a, b, c)[2][2]
  PROVE  /\ m \in Fractions /\ n \in Fractions /\ (m \otimes m) \oplus (n \otimes n) = One
         /\ b[2] \otimes b[2] = One
         /\ Turns(a, b, c) = <<<<Zero, Zero, b[2]>>, <<m, n, Zero>>,
                               <<Negative(b[2] \otimes n), b[2] \otimes m, Zero>>>>
<1> DEFINE p == a[1]
           u == a[2]
           v == b[2]
           r == c[1]
           w == c[2]
           m21 == (w \otimes p) \oplus ((r \otimes Negative(v)) \otimes Negative(u))
           m22 == (r \otimes p) \oplus ((Negative(w) \otimes Negative(v)) \otimes Negative(u))
           m31 == (w \otimes u) \oplus ((r \otimes Negative(v)) \otimes p)
           m32 == (r \otimes u) \oplus ((Negative(w) \otimes Negative(v)) \otimes p)
<1>1. /\ p \in Fractions /\ u \in Fractions /\ v \in Fractions
      /\ r \in Fractions /\ w \in Fractions
  BY DEF IsAngle
<1>2. /\ Turns(a, b, c) = <<<<r \otimes Zero, Negative(w) \otimes Zero, v>>,
                            <<m21, m22, Zero \otimes Negative(u)>>,
                            <<m31, m32, Zero \otimes p>>>>
      /\ m = m21 /\ n = m22
  BY DEF Turns
<1>3. /\ r \otimes Zero = Zero /\ Negative(w) \otimes Zero = Zero
      /\ Zero \otimes Negative(u) = Zero /\ Zero \otimes p = Zero
  BY <1>1, Closed, Sparse
<1>4. PICK P \in Int, U \in Int, V \in Int, R \in Int, W \in Int, d \in Nat \ {0} :
        /\ Is(p, P, d) /\ Is(u, U, d) /\ Is(v, V, d) /\ Is(r, R, d) /\ Is(w, W, d)
  <2> DEFINE f == <<p, u, v, r, w, w>>
  <2>1. \A i \in 1 .. 6 : f[i] \in Fractions  BY <1>1
  <2>2. f[1] = p /\ f[2] = u /\ f[3] = v /\ f[4] = r /\ f[5] = w  OBVIOUS
  <2> HIDE DEF f, p, u, v, r, w
  <2>3. PICK k, d : d \in Nat \ {0} /\ \A i \in 1 .. 6 : k[i] \in Int /\ Is(f[i], k[i], d)
    BY <2>1, Common6
  <2>4. /\ k[1] \in Int /\ k[2] \in Int /\ k[3] \in Int /\ k[4] \in Int /\ k[5] \in Int
        /\ Is(p, k[1], d) /\ Is(u, k[2], d) /\ Is(v, k[3], d) /\ Is(r, k[4], d)
        /\ Is(w, k[5], d)
    BY <2>2, <2>3
  <2> QED  BY <2>3, <2>4, Zenon
<1> DEFINE d2 == d * d
           d3 == d2 * d
           N21 == (W * P) * d + (R * (-V)) * (-U)
           N22 == (R * P) * d + ((-W) * (-V)) * (-U)
           N31 == (W * U) * d + (R * (-V)) * P
           N32 == (R * U) * d + ((-W) * (-V)) * P
<1>5. R * R + W * W = d2 /\ P * P + U * U = d2 /\ V * V = d2
  <2>1. Is(b[1], 0, d)  BY ZeroIs
  <2>2. 0 * 0 + V * V = d2  BY <1>4, <2>1, SquaresSum
  <2>3. R * R + W * W = d2 /\ P * P + U * U = d2  BY <1>4, SquaresSum
  <2> QED  BY <2>2, <2>3
<1> HIDE DEF p, u, v, r, w
<1>6. Is(m21, N21, d3) /\ Is(m22, N22, d3) /\ Is(m31, N31, d3) /\ Is(m32, N32, d3)
  BY <1>4, TurnsIs, Zenon
<1>7. m \in Fractions /\ n \in Fractions  BY <1>2, <1>6 DEF Is
<1> HIDE DEF m21, m22, m31, m32
<1>8. d2 \in Nat \ {0} /\ d3 \in Nat \ {0} /\ d3 * d = d * d3 /\ d * d2 = d3 /\ d3 * d3 \in Nat \ {0}
  OBVIOUS
<1>9. m31 = Negative(v \otimes m22)
  <2>1. Is(v \otimes m22, V * N22, d * d3)  BY <1>4, <1>6, ProductIs, Zenon
  <2>2. Is(Negative(v \otimes m22), -(V * N22), d * d3)  BY <2>1, NegativeIs, Zenon
  <2>3. Is(m31, N31 * d, d3 * d)  BY <1>4, <1>6, ScaledIs, Zenon
  <2>4. N31 * d = -(V * N22)
    <3>1. -(V * N22) = -((R * P) * (d * V)) + (W * U) * (V * V)  OBVIOUS
    <3>2. N31 * d = (W * U) * d2 - (R * P) * (d * V)  OBVIOUS
    <3> QED  BY <1>5, <3>1, <3>2
  <2> QED  BY <1>8, <2>2, <2>3, <2>4, SameIs, Zenon
<1>10. m32 = v \otimes m21
  <2>1. Is(v \otimes m21, V * N21, d * d3)  BY <1>4, <1>6, ProductIs, Zenon
  <2>2. Is(m32, N32 * d, d3 * d)  BY <1>4, <1>6, ScaledIs, Zenon
  <2>3. N32 * d = V * N21
    <3>1. V * N21 = (W * P) * (d * V) + (R * U) * (V * V)  OBVIOUS
    <3>2. N32 * d = (R * U) * d2 + (W * P) * (d * V)  OBVIOUS
    <3> QED  BY <1>5, <3>1, <3>2
  <2> QED  BY <1>8, <2>1, <2>2, <2>3, SameIs, Zenon
<1>11. (m21 \otimes m21) \oplus (m22 \otimes m22) = One
  <2>1. Is(m21 \otimes m21, N21 * N21, d3 * d3) /\ Is(m22 \otimes m22, N22 * N22, d3 * d3)
    BY <1>6, ProductIs, Zenon
  <2>2. Is((m21 \otimes m21) \oplus (m22 \otimes m22), N21 * N21 + N22 * N22, d3 * d3)
    BY <2>1, SumIs, Zenon
  <2>3. Is(One, d3 * d3, d3 * d3)  BY <1>8, ZeroIs, Zenon
  <2>4. N21 * N21 + N22 * N22 = d3 * d3
    <3> DEFINE A == W * P
               B == R * U
               C == R * P
               D == W * U
    <3>1. N21 = A * d + B * V /\ N22 = C * d - D * V /\ A * B = C * D  OBVIOUS
    <3>2. A \in Int /\ B \in Int /\ C \in Int /\ D \in Int  OBVIOUS
    <3>3. (A * A + C * C) + (B * B + D * D) = d2 * d2
      <4>1. (A * A + C * C) + (B * B + D * D) = (P * P + U * U) * (R * R + W * W)  OBVIOUS
      <4> QED  BY <1>5, <4>1
    <3> HIDE DEF A, B, C, D, N21, N22
    <3>4. N21 * N21 + N22 * N22 =
            (A * A + C * C) * d2 + (B * B + D * D) * (V * V) + 2 * ((A * B - C * D) * (d * V))
      BY <3>1, <3>2
    <3>5. (A * B - C * D) * (d * V) = 0  BY <3>1, <3>2
    <3>6. N21 * N21 + N22 * N22 = (A * A + C * C) * d2 + (B * B + D * D) * d2
      BY <1>5, <3>2, <3>4, <3>5
    <3>7. (A * A + C * C) * d2 + (B * B + D * D) * d2 =
            ((A * A + C * C) + (B * B + D * D)) * d2
      BY <3>2
    <3>8. d3 * d3 = (d2 * d2) * d2  OBVIOUS
    <3> QED  BY <3>3, <3>6, <3>7, <3>8
  <2> QED  BY <2>2, <2>3, <2>4, SameIs, Zenon
<1>12. v \otimes v = One
  <2>1. Is(v \otimes v, V * V, d2) /\ Is(One, d2, d2)  BY <1>4, <1>8, ProductIs, ZeroIs, Zenon
  <2> QED  BY <1>5, <2>1, SameIs
<1>13. Turns(a, b, c) = <<<<Zero, Zero, v>>, <<m, n, Zero>>,
                          <<Negative(v \otimes n), v \otimes m, Zero>>>>
  BY <1>2, <1>3, <1>9, <1>10
<1> QED  BY <1>2, <1>7, <1>11, <1>12, <1>13, Zenon DEF v

(* A fraction whose square is 1, twice.                                    *)
LEMMA TwiceUnit ==
  ASSUME NEW x \in Fractions, NEW v \in Fractions, NEW k \in Fractions, v \otimes v = One
  PROVE  (x \otimes Negative(v)) \otimes Negative(v \otimes k) = x \otimes k
<1>1. PICK X, V, K \in Int, d \in Nat \ {0} : Is(x, X, d) /\ Is(v, V, d) /\ Is(k, K, d)
  BY Common
<1> DEFINE d2 == d * d
<1>2. d2 \in Nat \ {0}  OBVIOUS
<1>3. V * V = d2
  <2>1. Is(v \otimes v, V * V, d2) /\ Is(One, d2, d2)  BY <1>1, <1>2, ProductIs, ZeroIs, Zenon
  <2>2. Is(One, V * V, d2)  BY <2>1, Zenon
  <2> QED  BY <2>1, <2>2, OrderIs
<1>4. Is(Negative(v), -V, d) /\ Is(v \otimes k, V * K, d2) /\ Is(x \otimes k, X * K, d2)
  BY <1>1, NegativeIs, ProductIs, Zenon
<1>5. Is(x \otimes Negative(v), X * (-V), d2) /\ Is(Negative(v \otimes k), -(V * K), d2)
  BY <1>1, <1>4, NegativeIs, ProductIs, Zenon
<1>6. Is((x \otimes Negative(v)) \otimes Negative(v \otimes k), (X * (-V)) * (-(V * K)), d2 * d2)
  BY <1>5, ProductIs, Zenon
<1>7. Is(x \otimes k, (X * K) * d2, d2 * d2)  BY <1>2, <1>4, ScaledIs, Zenon
<1>8. (X * (-V)) * (-(V * K)) = (X * K) * d2
  <2>1. (X * (-V)) * (-(V * K)) = (X * K) * (V * V)  OBVIOUS
  <2> QED  BY <1>3, <2>1
<1> QED  BY <1>6, <1>7, <1>8, SameIs, Zenon

(* Two perpendicular pairs of unit length, one turned by the other and     *)
(* back.                                                                   *)
LEMMA PairTurned ==
  ASSUME NEW m \in Fractions, NEW n \in Fractions, (m \otimes m) \oplus (n \otimes n) = One,
         NEW c \in Fractions, NEW s \in Fractions, (c \otimes c) \oplus (s \otimes s) = One,
         NEW x, x = (n \otimes c) \ominus (m \otimes s),
         NEW k, k = (n \otimes s) \oplus (m \otimes c)
  PROVE  /\ x \in Fractions /\ k \in Fractions
         /\ (x \otimes x) \oplus (k \otimes k) = One
         /\ (Negative(s) \otimes x) \oplus (c \otimes k) = m
         /\ (c \otimes x) \oplus (s \otimes k) = n
<1>1. PICK M, N, C, S \in Int, d \in Nat \ {0} :
        Is(m, M, d) /\ Is(n, N, d) /\ Is(c, C, d) /\ Is(s, S, d)
  BY Common4
<1> DEFINE d2 == d * d
           d3 == d * d2
           X == N * C - M * S
           K == N * S + M * C
<1>2. M * M + N * N = d2 /\ C * C + S * S = d2
  <2>1. IsAngle(<<m, n>>) /\ IsAngle(<<c, s>>)  BY AngleOfAngle
  <2>2. /\ <<m, n>>[1] = m /\ <<m, n>>[2] = n /\ <<c, s>>[1] = c /\ <<c, s>>[2] = s
    OBVIOUS
  <2> QED  BY <1>1, <2>1, <2>2, SquaresSum
<1>3. /\ Is(n \otimes c, N * C, d2) /\ Is(m \otimes s, M * S, d2)
      /\ Is(n \otimes s, N * S, d2) /\ Is(m \otimes c, M * C, d2)
      /\ Is(Negative(s), -S, d)
  BY <1>1, ProductIs, NegativeIs, Zenon
<1>4. Is(x, X, d2) /\ Is(k, K, d2)
  <2>1. /\ Is((n \otimes c) \ominus (m \otimes s), X, d2)
        /\ Is((n \otimes s) \oplus (m \otimes c), K, d2)
    BY <1>3, SumIs, Zenon
  <2> QED  BY <2>1, Zenon
<1>5. x \in Fractions /\ k \in Fractions  BY <1>4 DEF Is
<1>6. d2 \in Nat \ {0} /\ d3 \in Nat \ {0} /\ d2 * d2 \in Nat \ {0}  OBVIOUS
<1>7. (x \otimes x) \oplus (k \otimes k) = One
  <2>1. Is(x \otimes x, X * X, d2 * d2) /\ Is(k \otimes k, K * K, d2 * d2)
    BY <1>4, ProductIs, Zenon
  <2>2. Is((x \otimes x) \oplus (k \otimes k), X * X + K * K, d2 * d2)  BY <2>1, SumIs, Zenon
  <2>3. X * X + K * K = d2 * d2
    <3>1. X * X + K * K = (M * M + N * N) * (C * C + S * S)  OBVIOUS
    <3> QED  BY <1>2, <3>1
  <2>4. Is(One, d2 * d2, d2 * d2)  BY <1>6, ZeroIs, Zenon
  <2> QED  BY <2>2, <2>3, <2>4, SameIs, Zenon
<1>8. (Negative(s) \otimes x) \oplus (c \otimes k) = m
  <2>1. Is(Negative(s) \otimes x, (-S) * X, d3) /\ Is(c \otimes k, C * K, d3)
    BY <1>1, <1>3, <1>4, ProductIs, Zenon
  <2>2. Is((Negative(s) \otimes x) \oplus (c \otimes k), (-S) * X + C * K, d3)
    BY <2>1, SumIs, Zenon
  <2>3. (-S) * X + C * K = M * d2
    <3>1. (-S) * X + C * K = M * (C * C + S * S)  OBVIOUS
    <3> QED  BY <1>2, <3>1
  <2>4. Is(m, M * d2, d3)  BY <1>1, <1>6, ScaledIs, Zenon
  <2> QED  BY <2>2, <2>3, <2>4, SameIs, Zenon
<1>9. (c \otimes x) \oplus (s \otimes k) = n
  <2>1. Is(c \otimes x, C * X, d3) /\ Is(s \otimes k, S * K, d3)
    BY <1>1, <1>4, ProductIs, Zenon
  <2>2. Is((c \otimes x) \oplus (s \otimes k), C * X + S * K, d3)
    BY <2>1, SumIs, Zenon
  <2>3. C * X + S * K = N * d2
    <3>1. C * X + S * K = N * (C * C + S * S)  OBVIOUS
    <3> QED  BY <1>2, <3>1
  <2>4. Is(n, N * d2, d3)  BY <1>1, <1>6, ScaledIs, Zenon
  <2> QED  BY <2>2, <2>3, <2>4, SameIs, Zenon
<1> QED  BY <1>5, <1>7, <1>8, <1>9, Zenon

(* The same factor, taken out.                                             *)
LEMMA FactorOut ==
  ASSUME NEW v \in Fractions, NEW m \in Fractions, NEW n \in Fractions,
         NEW c \in Fractions, NEW s \in Fractions
  PROVE  (Negative(v \otimes n) \otimes s) \ominus ((v \otimes m) \otimes c) =
           Negative(v \otimes ((n \otimes s) \oplus (m \otimes c)))
<1> DEFINE x == n \otimes s
           y == m \otimes c
<1>1. x \in Fractions /\ y \in Fractions /\ v \otimes n \in Fractions  BY Closed
<1>2. Negative(v \otimes n) \otimes s = Negative((v \otimes n) \otimes s)
  BY <1>1, ProductLaws, Zenon
<1>3. (v \otimes n) \otimes s = v \otimes x /\ (v \otimes m) \otimes c = v \otimes y
  <2>1. (v \otimes n) \otimes s = v \otimes (n \otimes s)  BY ProductLaws
  <2>2. (v \otimes m) \otimes c = v \otimes (m \otimes c)  BY ProductLaws
  <2> QED  BY <2>1, <2>2
<1> HIDE DEF x, y
<1>4. Negative(v \otimes x) \ominus (v \otimes y) = Negative(v \otimes (x \oplus y))
  <2>1. PICK V, X, Y \in Int, d \in Nat \ {0} : Is(v, V, d) /\ Is(x, X, d) /\ Is(y, Y, d)
    BY <1>1, Common
  <2>2. Is(v \otimes x, V * X, d * d) /\ Is(v \otimes y, V * Y, d * d) /\ Is(x \oplus y, X + Y, d)
    BY <2>1, ProductIs, SumIs, Zenon
  <2>3. /\ Is(Negative(v \otimes x), -(V * X), d * d)
        /\ Is(v \otimes (x \oplus y), V * (X + Y), d * d)
    BY <2>1, <2>2, ProductIs, NegativeIs, Zenon
  <2>4. /\ Is(Negative(v \otimes x) \ominus (v \otimes y), -(V * X) - V * Y, d * d)
        /\ Is(Negative(v \otimes (x \oplus y)), -(V * (X + Y)), d * d)
    BY <2>2, <2>3, SumIs, NegativeIs, Zenon
  <2>5. -(V * X) - V * Y = -(V * (X + Y))  OBVIOUS
  <2> QED  BY <2>4, <2>5, SameIs, Zenon
<1> QED  BY <1>2, <1>3, <1>4, Zenon DEF x, y

(* A sign, squared, is gone.                                               *)
LEMMA UnitSquare ==
  ASSUME NEW v \in Fractions, NEW k \in Fractions, v \otimes v = One
  PROVE  (v \otimes k) \otimes (v \otimes k) = k \otimes k
<1>1. v \otimes k \in Fractions /\ k \otimes k \in Fractions  BY Closed
<1>2. (v \otimes k) \otimes (v \otimes k) = v \otimes (k \otimes (v \otimes k))
  BY <1>1, ProductLaws, Zenon
<1>3. k \otimes (v \otimes k) = (v \otimes k) \otimes k  BY <1>1, ProductLaws, Zenon
<1>4. (v \otimes k) \otimes k = v \otimes (k \otimes k)  BY ProductLaws, Zenon
<1>5. v \otimes (v \otimes (k \otimes k)) = (v \otimes v) \otimes (k \otimes k)
  BY <1>1, ProductLaws, Zenon
<1>6. One \otimes (k \otimes k) = k \otimes k  BY <1>1, Sparse
<1> QED  BY <1>2, <1>3, <1>4, <1>5, <1>6, Zenon

(* The angles found where the one about y is a quarter turn: any first     *)
(* angle is made up for.                                                   *)
LEMMA QuarterFound ==
  ASSUME NEW a, IsAngle(a), NEW b, IsAngle(b), NEW c, IsAngle(c), b[1] = Zero,
         NEW M, \A j, i \in 1 .. 3 : M[j][i] = Turns(a, b, c)[j][i],
         NEW f, f \in matrix_eulerian_angle(M)
  PROVE  \E x, y, z : /\ f = <<x, y, z>> /\ IsAngle(x) /\ IsAngle(y) /\ IsAngle(z)
                      /\ Turns(x, y, z) = Turns(a, b, c)
<1> DEFINE T == Turns(a, b, c)
           m == T[2][1]
           n == T[2][2]
           v == b[2]
<1>1. /\ m \in Fractions /\ n \in Fractions /\ (m \otimes m) \oplus (n \otimes n) = One
      /\ v \otimes v = One
      /\ T = <<<<Zero, Zero, v>>, <<m, n, Zero>>,
               <<Negative(v \otimes n), v \otimes m, Zero>>>>
  BY QuarterEntries
<1>2. v \in Fractions /\ Negative(v) \in Fractions /\ Zero \in Fractions
  BY Closed DEF IsAngle
<1>3. /\ M[1][1] = Zero /\ M[1][2] = Zero /\ M[1][3] = v /\ M[2][1] = m /\ M[2][2] = n
      /\ M[3][1] = Negative(v \otimes n) /\ M[3][2] = v \otimes m
  <2> HIDE DEF m, n, v
  <2> QED  BY <1>1
<1> DEFINE Found(e1) ==
             LET e2 == atan2(Negative(M[1][3]),
                         (M[1][1] \otimes cos(e1)) \oplus (M[1][2] \otimes sin(e1)))
                 e3 == atan2((M[3][1] \otimes sin(e1)) \ominus (M[3][2] \otimes cos(e1)),
                         (M[2][2] \otimes cos(e1)) \ominus (M[2][1] \otimes sin(e1)))
             IN  {<<Opposite(z), Opposite(y), Opposite(e1)>> : y \in e2, z \in e3}
<1>4. matrix_eulerian_angle(M) = UNION {Found(e1) : e1 \in atan2(M[1][2], M[1][1])}
  BY DEF matrix_eulerian_angle
<1>5. atan2(M[1][2], M[1][1]) = Angles  BY <1>3 DEF atan2
<1>6. PICK e \in Angles : f \in Found(e)
  <2> HIDE DEF Found
  <2> QED  BY <1>4, <1>5
<1> DEFINE c1 == e[1]
           s1 == e[2]
           x == (n \otimes c1) \ominus (m \otimes s1)
           k == (n \otimes s1) \oplus (m \otimes c1)
           xa == <<x, v \otimes k>>
           ya == <<Zero, v>>
           za == <<c1, Negative(s1)>>
<1>7. /\ IsAngle(e) /\ c1 \in Fractions /\ s1 \in Fractions
      /\ (c1 \otimes c1) \oplus (s1 \otimes s1) = One
      /\ cos(e) = c1 /\ sin(e) = s1 /\ za = Opposite(e)
  BY AnglesAssumption DEF IsAngle, Opposite, cos, sin
<1> HIDE DEF T, m, n, v, c1, s1
<1>8. /\ x \in Fractions /\ k \in Fractions /\ (x \otimes x) \oplus (k \otimes k) = One
      /\ (Negative(s1) \otimes x) \oplus (c1 \otimes k) = m
      /\ (c1 \otimes x) \oplus (s1 \otimes k) = n
  BY <1>1, <1>7, PairTurned
<1>9. (Negative(v \otimes n) \otimes s1) \ominus ((v \otimes m) \otimes c1) = Negative(v \otimes k)
  BY <1>1, <1>2, <1>7, FactorOut
<1> DEFINE Y == (M[3][1] \otimes sin(e)) \ominus (M[3][2] \otimes cos(e))
           X == (M[2][2] \otimes cos(e)) \ominus (M[2][1] \otimes sin(e))
<1>10. X = x /\ Y = Negative(v \otimes k)  BY <1>3, <1>7, <1>9, Zenon
<1> HIDE DEF x, k
<1>11. /\ v \otimes k \in Fractions /\ Negative(v \otimes k) \in Fractions
       /\ (v \otimes k) \otimes (v \otimes k) = k \otimes k
       /\ Negative(v \otimes k) \otimes Negative(v \otimes k) = (v \otimes k) \otimes (v \otimes k)
       /\ Negative(v) \otimes Negative(v) = v \otimes v
  <2>1. v \otimes k \in Fractions  BY <1>2, <1>8, Closed
  <2> QED  BY <1>1, <1>2, <1>8, <2>1, UnitSquare, NegativeSquare, Closed
<1>12. atan2(Y, X) = {<<x, Negative(v \otimes k)>>}
  <2>1. (x \otimes x) \oplus (Negative(v \otimes k) \otimes Negative(v \otimes k)) = One
    BY <1>8, <1>11, Zenon
  <2> HIDE DEF X, Y
  <2> QED  BY <1>8, <1>10, <1>11, <2>1, AngleOfAngle
<1>13. atan2(Negative(M[1][3]), (M[1][1] \otimes cos(e)) \oplus (M[1][2] \otimes sin(e))) =
         {<<Zero, Negative(v)>>}
  <2>1. (Zero \otimes c1) \oplus (Zero \otimes s1) = Zero  BY <1>7, Sparse
  <2>2. One \in Fractions /\ Zero \otimes Zero = Zero /\ Zero \oplus One = One  BY Sparse
  <2>3. (Zero \otimes Zero) \oplus (Negative(v) \otimes Negative(v)) = One
    BY <1>1, <1>11, <2>2, Zenon
  <2>4. atan2(Negative(v), Zero) = {<<Zero, Negative(v)>>}
    BY <1>2, <2>3, AngleOfAngle
  <2>5. /\ Negative(M[1][3]) = Negative(v)
        /\ (M[1][1] \otimes cos(e)) \oplus (M[1][2] \otimes sin(e)) = Zero
    BY <1>3, <1>7, <2>1, Zenon
  <2> QED  BY <2>4, <2>5, Zenon
<1>14. f = <<xa, ya, za>>
  <2> DEFINE z3 == <<x, Negative(v \otimes k)>>
             y3 == <<Zero, Negative(v)>>
  <2>1. Found(e) = {<<Opposite(z), Opposite(y), Opposite(e)>> : y \in {y3}, z \in {z3}}
    BY <1>12, <1>13
  <2>2. Opposite(z3) = xa /\ Opposite(y3) = ya
    <3>1. Negative(Negative(v \otimes k)) = v \otimes k /\ Negative(Negative(v)) = v
      BY <1>2, <1>11, NeutralLaws
    <3> QED  BY <3>1 DEF Opposite, cos, sin
  <2> HIDE DEF Found, z3, y3, xa, ya, za
  <2> QED  BY <1>6, <1>7, <2>1, <2>2
<1>15. IsAngle(xa) /\ IsAngle(ya) /\ IsAngle(za)
  <2>1. (x \otimes x) \oplus ((v \otimes k) \otimes (v \otimes k)) = One  BY <1>8, <1>11, Zenon
  <2>2. IsAngle(xa)  BY <1>8, <1>11, <2>1, AngleOfAngle
  <2>3. IsAngle(ya)
    <3>1. One \in Fractions /\ Zero \otimes Zero = Zero /\ Zero \oplus One = One  BY Sparse
    <3>2. (Zero \otimes Zero) \oplus (v \otimes v) = One  BY <1>1, <3>1, Zenon
    <3> QED  BY <1>2, <3>2, AngleOfAngle
  <2> QED  BY <1>7, <2>2, <2>3, OtherAngles
<1>16. Turns(xa, ya, za)[2][1] = m /\ Turns(xa, ya, za)[2][2] = n
  <2>1. /\ Turns(xa, ya, za)[2][1] =
             (Negative(s1) \otimes x) \oplus ((c1 \otimes Negative(v)) \otimes Negative(v \otimes k))
        /\ Turns(xa, ya, za)[2][2] =
             (c1 \otimes x) \oplus ((Negative(Negative(s1)) \otimes Negative(v))
                                      \otimes Negative(v \otimes k))
    BY DEF Turns
  <2>2. Negative(Negative(s1)) = s1  BY <1>7, NeutralLaws
  <2>3. /\ (c1 \otimes Negative(v)) \otimes Negative(v \otimes k) = c1 \otimes k
        /\ (s1 \otimes Negative(v)) \otimes Negative(v \otimes k) = s1 \otimes k
    BY <1>1, <1>2, <1>7, <1>8, TwiceUnit
  <2> HIDE DEF xa, ya, za
  <2> QED  BY <1>8, <2>1, <2>2, <2>3
<1>17. Turns(xa, ya, za) = T
  <2>1. ya[1] = Zero /\ ya[2] = v  OBVIOUS
  <2> HIDE DEF xa, ya, za
  <2>2. Turns(xa, ya, za) = <<<<Zero, Zero, ya[2]>>, <<m, n, Zero>>,
                             <<Negative(ya[2] \otimes n), ya[2] \otimes m, Zero>>>>
    BY <1>15, <1>16, <2>1, QuarterEntries
  <2> QED  BY <1>1, <2>1, <2>2
<1> HIDE DEF xa, ya, za
<1> QED  BY <1>14, <1>15, <1>17, Zenon DEF T

----------------------------------------------------------------------------
(* Pose                                                                    *)

(* What matrix_transform_extract takes out of a transform, and what the    *)
(* transform made of that again holds.                                     *)
LEMMA Extracted ==
  ASSUME NEW v, NEW t \in Fractions \X Fractions \X Fractions,
         NEW M, M = Composed(v, t)
  PROVE  /\ matrix_transform_extract(M).translate = t
         /\ \A j, i \in 1 .. 3 :
              matrix_transform_compose(matrix_transform_extract(M).rotate, t)[j][i] =
                matrix_float3x3_rotation_xyz(v)[j][i]
         /\ M[4] = <<t[1], t[2], t[3], One>>
<1> DEFINE R == matrix_float3x3_rotation_xyz(v)
           e == matrix_transform_extract(M)
<1>1. M = <<<<R[1][1], R[1][2], R[1][3], Zero>>, <<R[2][1], R[2][2], R[2][3], Zero>>,
            <<R[3][1], R[3][2], R[3][3], Zero>>, <<t[1], t[2], t[3], One>>>>
  BY DEF Composed, matrix_transform_compose
<1> HIDE DEF R
<1>2. t = <<t[1], t[2], t[3]>>  OBVIOUS
<1>3. M[4] = <<t[1], t[2], t[3], One>>  BY <1>1
<1>4. /\ M[1] = <<R[1][1], R[1][2], R[1][3], Zero>> /\ M[2] = <<R[2][1], R[2][2], R[2][3], Zero>>
      /\ M[3] = <<R[3][1], R[3][2], R[3][3], Zero>>
  BY <1>1
<1>5. /\ e.translate = <<M[4][1], M[4][2], M[4][3]>>
      /\ e.rotate = [j \in 1 .. 3 |-> <<M[j][1], M[j][2], M[j][3]>>]
  BY DEF matrix_transform_extract
<1> HIDE DEF e
<1>6. e.translate = t  BY <1>2, <1>3, <1>5
<1>7. ASSUME NEW j \in 1 .. 3, NEW i \in 1 .. 3
      PROVE  matrix_transform_compose(e.rotate, t)[j][i] = R[j][i]
  <2> DEFINE E == e.rotate
  <2>1. E[j][i] = R[j][i]  BY <1>4, <1>5
  <2> HIDE DEF E
  <2>2. matrix_transform_compose(E, t) =
          <<<<E[1][1], E[1][2], E[1][3], Zero>>, <<E[2][1], E[2][2], E[2][3], Zero>>,
            <<E[3][1], E[3][2], E[3][3], Zero>>, <<t[1], t[2], t[3], One>>>>
    BY DEF matrix_transform_compose
  <2>3. matrix_transform_compose(E, t)[j][i] = E[j][i]
    <3>1. j \in {1, 2, 3} /\ i \in {1, 2, 3}  OBVIOUS
    <3> QED  BY <2>2, <3>1
  <2> QED  BY <2>1, <2>3 DEF E
<1> QED  BY <1>3, <1>6, <1>7 DEF e, R

(* What matrix_eulerian_angle may find in a rotation are three angles that *)
(* make the same one, and where the one about y is less than a quarter     *)
(* turn those it was made of.                                              *)
THEOREM EulerianFound ==
  ASSUME NEW a, IsAngle(a), NEW b, IsAngle(b), NEW c, IsAngle(c),
         NEW M, \A j, i \in 1 .. 3 : M[j][i] = Turns(a, b, c)[j][i],
         NEW f, f \in matrix_eulerian_angle(M)
  PROVE  /\ \E x, y, z : /\ f = <<x, y, z>> /\ IsAngle(x) /\ IsAngle(y) /\ IsAngle(z)
                         /\ Turns(x, y, z) = Turns(a, b, c)
         /\ Less(Zero, b[1]) => f = <<a, b, c>>
<1>1. b[1] \in Fractions  BY DEF IsAngle
<1>2. \/ Less(Zero, b[1]) \/ b[1] = Zero \/ Less(Zero, Negative(b[1]))
  BY <1>1, SignLaws
<1>3. CASE Less(Zero, b[1])
  <2>1. f = <<a, b, c>>  BY <1>3, RegularFound
  <2> QED  BY <2>1
<1>4. CASE b[1] = Zero
  <2>1. ~Less(Zero, Zero)  BY DEF Less, Zero, Q
  <2>2. \E x, y, z : /\ f = <<x, y, z>> /\ IsAngle(x) /\ IsAngle(y) /\ IsAngle(z)
                     /\ Turns(x, y, z) = Turns(a, b, c)
    BY <1>4, QuarterFound
  <2> QED  BY <1>4, <2>1, <2>2, Zenon
<1>5. CASE Less(Zero, Negative(b[1]))
  <2> DEFINE x == Turned180(a)
             y == Mirrored(b)
             z == Turned180(c)
  <2>1. IsAngle(x) /\ IsAngle(y) /\ IsAngle(z)  BY OtherAngles
  <2>2. Less(Zero, y[1])  BY <1>5 DEF Mirrored
  <2>3. Turns(x, y, z) = Turns(a, b, c)  BY OtherTurns
  <2> HIDE DEF x, y, z
  <2>4. f = <<x, y, z>>
    <3>1. \A j, i \in 1 .. 3 : M[j][i] = Turns(x, y, z)[j][i]  BY <2>3
    <3>2. matrix_eulerian_angle(M) = {<<x, y, z>>}  BY <2>1, <2>2, <3>1, RegularFound
    <3> QED  BY <3>2
  <2>5. ~Less(Zero, b[1])
    <3>1. PICK n \in Int, d \in Nat \ {0} : Is(b[1], n, d)  BY <1>1, Common
    <3>2. Is(Negative(b[1]), -n, d) /\ Is(Zero, 0, d)  BY <3>1, NegativeIs, ZeroIs, Zenon
    <3>3. 0 < -n  BY <1>5, <3>2, OrderIs
    <3> QED  BY <3>1, <3>2, <3>3, OrderIs
  <2> QED  BY <2>1, <2>3, <2>4, <2>5, Zenon
<1> QED  BY <1>2, <1>3, <1>4, <1>5

----------------------------------------------------------------------------
(* What every state of Pose has: the angles, whichever they are, make the  *)
(* transform.                                                              *)
PoseIInv ==
  /\ form \in {"angles", "transform"}
  /\ angles = <<angles[1], angles[2], angles[3]>>
  /\ \A i \in 1 .. 3 : IsAngle(angles[i])
  /\ translate \in Translations
  /\ transform = Composed(angles, translate)
  /\ transform = given

(* Where bodies are is given in fractions.                                 *)
LEMMA Placed ==
  \A t \in Translations : t \in Fractions \X Fractions \X Fractions
BY PosesAssumption DEF Translations

(* It holds to begin with, and every step keeps it.                        *)
LEMMA PoseIInvInit == PoseInit => PoseIInv
<1> SUFFICES ASSUME PoseInit PROVE PoseIInv  OBVIOUS
<1>1. PICK p \in Poses : angles = p[1] /\ translate = p[2]  BY DEF PoseInit
<1>2. p[1] \in Angles \X Angles \X Angles  BY PosesAssumption
<1>3. p[1] = <<p[1][1], p[1][2], p[1][3]>> /\ \A i \in 1 .. 3 : p[1][i] \in Angles
  <2>1. p[1][1] \in Angles /\ p[1][2] \in Angles /\ p[1][3] \in Angles  BY <1>2
  <2>2. p[1] = <<p[1][1], p[1][2], p[1][3]>>  BY <1>2
  <2>3. \A i \in 1 .. 3 : i \in {1, 2, 3}  OBVIOUS
  <2> QED  BY <2>1, <2>2, <2>3
<1>4. \A i \in 1 .. 3 : IsAngle(p[1][i])  BY <1>3, AnglesAssumption
<1>5. translate \in Translations  BY <1>1 DEF Translations
<1> QED  BY <1>1, <1>3, <1>4, <1>5 DEF PoseInit, PoseIInv

(* Taking a pose apart.                                                    *)
LEMMA Decomposed ==
  ASSUME PoseIInv, Decompose
  PROVE  PoseIInv' /\ (Less(Zero, cos(angles[2])) => angles' = angles)
<1> DEFINE a == angles[1]
           b == angles[2]
           c == angles[3]
           E == matrix_transform_compose(matrix_transform_extract(transform).rotate, translate)
<1>1. IsAngle(a) /\ IsAngle(b) /\ IsAngle(c) /\ angles = <<a, b, c>>
  BY DEF PoseIInv
<1>2. translate \in Fractions \X Fractions \X Fractions  BY Placed DEF PoseIInv
<1>3. /\ matrix_transform_extract(transform).translate = translate
      /\ \A j, i \in 1 .. 3 : E[j][i] = matrix_float3x3_rotation_xyz(angles)[j][i]
  <2>1. transform = Composed(angles, translate)  BY DEF PoseIInv
  <2> QED  BY <1>2, <2>1, Extracted
<1>4. translate' = translate  BY <1>3 DEF Decompose
<1>5. angles' \in matrix_eulerian_angle(E)  BY <1>4 DEF Decompose
<1>6. matrix_float3x3_rotation_xyz(angles) = Turns(a, b, c)
  <2> HIDE DEF a, b, c
  <2> QED  BY <1>1, TurnsOne
<1>7. \A j, i \in 1 .. 3 : E[j][i] = Turns(a, b, c)[j][i]
  BY <1>3, <1>6
<1> HIDE DEF a, b, c, E
<1>8. PICK x, y, z : /\ angles' = <<x, y, z>> /\ IsAngle(x) /\ IsAngle(y) /\ IsAngle(z)
                     /\ Turns(x, y, z) = Turns(a, b, c)
  BY <1>1, <1>5, <1>7, EulerianFound
<1>9. Less(Zero, b[1]) => angles' = <<a, b, c>>
  BY <1>1, <1>5, <1>7, EulerianFound
<1>10. matrix_float3x3_rotation_xyz(angles') = matrix_float3x3_rotation_xyz(angles)
  BY <1>6, <1>8, TurnsOne
<1>11. Composed(angles', translate') = Composed(angles, translate)
  BY <1>4, <1>10 DEF Composed
<1>12. transform' = transform /\ given' = given /\ form' = "angles"  BY DEF Decompose
<1>13. PoseIInv'
  <2>1. angles' = <<angles'[1], angles'[2], angles'[3]>>  BY <1>8
  <2>2. \A i \in 1 .. 3 : IsAngle(angles'[i])
    <3>1. \A i \in 1 .. 3 : i \in {1, 2, 3}  OBVIOUS
    <3> QED  BY <1>8, <3>1
  <2>3. transform' = Composed(angles', translate')
    BY <1>11, <1>12 DEF PoseIInv
  <2>4. translate' \in Translations  BY <1>4 DEF PoseIInv
  <2> QED  BY <1>12, <2>1, <2>2, <2>3, <2>4 DEF PoseIInv, Translations
<1> QED  BY <1>1, <1>9, <1>13 DEF b, cos

LEMMA PoseIInvNext == PoseIInv /\ [PoseNext]_poseVars => PoseIInv'
<1> SUFFICES ASSUME PoseIInv, [PoseNext]_poseVars PROVE PoseIInv'  OBVIOUS
<1>1. CASE Decompose  BY <1>1, Decomposed
<1>2. CASE Compose  BY <1>2 DEF Compose, PoseIInv, Translations
<1>3. CASE UNCHANGED poseVars  BY <1>3 DEF poseVars, PoseIInv, Translations
<1> QED  BY <1>1, <1>2, <1>3 DEF PoseNext

(* However often matrix_transform_extract and matrix_eulerian_angle take a *)
(* pose apart and matrix_transform_compose puts it together, its transform *)
(* stays the one it was given as, for every pose and every answer of atan2 *)
(* at the poles.                                                           *)
THEOREM AlwaysPose == PoseSpec => []PoseInv
<1>1. PoseIInv => PoseInv
  BY DEF PoseIInv, PoseInv, PoseTypeOK, PoseStands, IsAngle
<1> QED  BY <1>1, PoseIInvInit, PoseIInvNext, PTL DEF PoseSpec

(* The three angles matrix_eulerian_angle finds are those composed, unless *)
(* the one about y is a quarter turn or more.                              *)
THEOREM AlwaysAnglesFound == PoseSpec => AnglesFound
<1>1. PoseIInv /\ [PoseNext]_poseVars =>
        [Decompose /\ Less(Zero, cos(angles[2])) => angles' = angles]_poseVars
  <2> SUFFICES ASSUME PoseIInv, [PoseNext]_poseVars, Decompose, Less(Zero, cos(angles[2]))
               PROVE  angles' = angles
    OBVIOUS
  <2> QED  BY Decomposed
<1> QED  BY <1>1, PoseIInvInit, PoseIInvNext, PTL DEF PoseSpec, AnglesFound

----------------------------------------------------------------------------
(* Frustum                                                                 *)

(* A transform without a projection: a 3x3 matrix and a place.             *)
IsBody(B) ==
  /\ B = <<<<B[1][1], B[1][2], B[1][3], Zero>>, <<B[2][1], B[2][2], B[2][3], Zero>>,
           <<B[3][1], B[3][2], B[3][3], Zero>>, <<B[4][1], B[4][2], B[4][3], One>>>>
  /\ \A j \in 1 .. 4, i \in 1 .. 3 : B[j][i] \in Fractions

(* The entries of a rotation are fractions.                                *)
LEMMA TurnsFractions ==
  ASSUME NEW a, IsAngle(a), NEW b, IsAngle(b), NEW c, IsAngle(c)
  PROVE  \A j, i \in 1 .. 3 : Turns(a, b, c)[j][i] \in Fractions
<1> DEFINE p == a[1]
           u == a[2]
           q == b[1]
           v == b[2]
           r == c[1]
           w == c[2]
<1>1. /\ p \in Fractions /\ u \in Fractions /\ q \in Fractions /\ v \in Fractions
      /\ r \in Fractions /\ w \in Fractions
  BY DEF IsAngle
<1> DEFINE T == <<<<r \otimes q, Negative(w) \otimes q, v>>,
    <<(w \otimes p) \oplus ((r \otimes Negative(v)) \otimes Negative(u)),
      (r \otimes p) \oplus ((Negative(w) \otimes Negative(v)) \otimes Negative(u)),
      q \otimes Negative(u)>>,
    <<(w \otimes u) \oplus ((r \otimes Negative(v)) \otimes p),
      (r \otimes u) \oplus ((Negative(w) \otimes Negative(v)) \otimes p),
      q \otimes p>>>>
<1>2. Turns(a, b, c) = T  BY DEF Turns
<1> HIDE DEF p, u, q, v, r, w
<1>3. Negative(u) \in Fractions /\ Negative(v) \in Fractions /\ Negative(w) \in Fractions
  BY <1>1, Closed
<1>4. /\ r \otimes Negative(v) \in Fractions /\ Negative(w) \otimes Negative(v) \in Fractions
      /\ w \otimes p \in Fractions /\ r \otimes p \in Fractions
      /\ w \otimes u \in Fractions /\ r \otimes u \in Fractions
  BY <1>1, <1>3, Closed
<1>5. /\ (r \otimes Negative(v)) \otimes Negative(u) \in Fractions
      /\ (Negative(w) \otimes Negative(v)) \otimes Negative(u) \in Fractions
      /\ (r \otimes Negative(v)) \otimes p \in Fractions
      /\ (Negative(w) \otimes Negative(v)) \otimes p \in Fractions
  BY <1>1, <1>3, <1>4, Closed
<1>6. /\ T[1][1] \in Fractions /\ T[1][2] \in Fractions /\ T[1][3] \in Fractions
      /\ T[2][1] \in Fractions /\ T[2][2] \in Fractions /\ T[2][3] \in Fractions
      /\ T[3][1] \in Fractions /\ T[3][2] \in Fractions /\ T[3][3] \in Fractions
  BY <1>1, <1>3, <1>4, <1>5, Closed
<1> HIDE DEF T
<1>7. \A i \in 1 .. 3 : i \in {1, 2, 3}  OBVIOUS
<1> QED  BY <1>2, <1>6, <1>7

(* Every pose's transform is one.                                          *)
LEMMA TransformIsBody == PoseIInv => IsBody(transform)
<1> SUFFICES ASSUME PoseIInv PROVE IsBody(transform)  OBVIOUS
<1> DEFINE R == matrix_float3x3_rotation_xyz(angles)
           t == translate
<1>1. transform = <<<<R[1][1], R[1][2], R[1][3], Zero>>, <<R[2][1], R[2][2], R[2][3], Zero>>,
                    <<R[3][1], R[3][2], R[3][3], Zero>>, <<t[1], t[2], t[3], One>>>>
  BY DEF PoseIInv, Composed, matrix_transform_compose
<1>2. \A j, i \in 1 .. 3 : R[j][i] \in Fractions
  <2> DEFINE a == angles[1]
             b == angles[2]
             c == angles[3]
  <2>1. IsAngle(a) /\ IsAngle(b) /\ IsAngle(c) /\ angles = <<a, b, c>>  BY DEF PoseIInv
  <2> HIDE DEF a, b, c
  <2>2. R = Turns(a, b, c)  BY <2>1, TurnsOne
  <2> HIDE DEF R
  <2> QED  BY <2>1, <2>2, TurnsFractions
<1>3. t[1] \in Fractions /\ t[2] \in Fractions /\ t[3] \in Fractions
  <2>1. t \in Fractions \X Fractions \X Fractions  BY Placed DEF PoseIInv
  <2> QED  BY <2>1
<1> HIDE DEF R, t
<1>4. /\ \A j, i \in 1 .. 3 : transform[j][i] = R[j][i]
      /\ transform[4] = <<t[1], t[2], t[3], One>>
  <2>1. \A i \in 1 .. 3 : i \in {1, 2, 3}  OBVIOUS
  <2>2. /\ transform[1] = <<R[1][1], R[1][2], R[1][3], Zero>>
        /\ transform[2] = <<R[2][1], R[2][2], R[2][3], Zero>>
        /\ transform[3] = <<R[3][1], R[3][2], R[3][3], Zero>>
        /\ transform[4] = <<t[1], t[2], t[3], One>>
    BY <1>1
  <2> QED  BY <2>1, <2>2
<1>5. \A j \in 1 .. 4, i \in 1 .. 3 : transform[j][i] \in Fractions
  <2>1. \A i \in 1 .. 3 : transform[4][i] \in Fractions
    <3>1. \A i \in 1 .. 3 : i \in {1, 2, 3}  OBVIOUS
    <3> QED  BY <1>3, <1>4, <3>1
  <2>2. \A j \in 1 .. 4 : j \in 1 .. 3 \/ j = 4  OBVIOUS
  <2> QED  BY <1>2, <1>4, <2>1, <2>2
<1>6. transform[4][1] = t[1] /\ transform[4][2] = t[2] /\ transform[4][3] = t[3]
  BY <1>4
<1> QED  BY <1>1, <1>4, <1>5, <1>6 DEF IsBody

(* Where a body is, and where one is that was moved along z.               *)
LEMMA OriginOf ==
  ASSUME NEW B, IsBody(B)
  PROVE  Origin(B) = <<B[4][1], B[4][2], B[4][3], One>>
<1> DEFINE a1 == B[1][1]
           a2 == B[1][2]
           a3 == B[1][3]
           b1 == B[2][1]
           b2 == B[2][2]
           b3 == B[2][3]
           c1 == B[3][1]
           c2 == B[3][2]
           c3 == B[3][3]
           x == B[4][1]
           y == B[4][2]
           z == B[4][3]
<1>1. B = <<<<a1, a2, a3, Zero>>, <<b1, b2, b3, Zero>>, <<c1, c2, c3, Zero>>, <<x, y, z, One>>>>
  BY DEF IsBody
<1>2. /\ a1 \in Fractions /\ a2 \in Fractions /\ a3 \in Fractions
      /\ b1 \in Fractions /\ b2 \in Fractions /\ b3 \in Fractions
      /\ c1 \in Fractions /\ c2 \in Fractions /\ c3 \in Fractions
      /\ x \in Fractions /\ y \in Fractions /\ z \in Fractions
  BY DEF IsBody
<1> HIDE DEF a1, a2, a3, b1, b2, b3, c1, c2, c3, x, y, z
<1>3. Apply(<<<<a1, a2, a3, Zero>>, <<b1, b2, b3, Zero>>, <<c1, c2, c3, Zero>>,
              <<x, y, z, One>>>>, <<Zero, Zero, Zero, One>>) = <<x, y, z, One>>
  BY <1>2, Apply4, Sparse
<1>4. Origin(B) = <<x, y, z, One>>  BY <1>1, <1>3 DEF Origin
<1> QED  BY <1>4 DEF x, y, z

(* A body moved along z.                                                   *)
LEMMA MovedOrigin ==
  ASSUME NEW B, IsBody(B), NEW z \in Fractions
  PROVE  /\ IsBody(MovedTo(B, z))
         /\ Origin(MovedTo(B, z)) = <<B[4][1], B[4][2], z, One>>
<1> DEFINE a1 == B[1][1]
           a2 == B[1][2]
           a3 == B[1][3]
           b1 == B[2][1]
           b2 == B[2][2]
           b3 == B[2][3]
           c1 == B[3][1]
           c2 == B[3][2]
           c3 == B[3][3]
           x == B[4][1]
           y == B[4][2]
           w == B[4][3]
           by == <<Zero, Zero, z \ominus w>>
           T == matrix_float4x4_translation(by)
           M == MovedTo(B, z)
<1>1. B = <<<<a1, a2, a3, Zero>>, <<b1, b2, b3, Zero>>, <<c1, c2, c3, Zero>>, <<x, y, w, One>>>>
  BY DEF IsBody
<1>2. /\ a1 \in Fractions /\ a2 \in Fractions /\ a3 \in Fractions
      /\ b1 \in Fractions /\ b2 \in Fractions /\ b3 \in Fractions
      /\ c1 \in Fractions /\ c2 \in Fractions /\ c3 \in Fractions
      /\ x \in Fractions /\ y \in Fractions /\ w \in Fractions
  BY DEF IsBody
<1>3. M = Product(T, B)
  <2>1. Origin(B)[3] = w  BY OriginOf
  <2> QED  BY <2>1 DEF MovedTo
<1> HIDE DEF a1, a2, a3, b1, b2, b3, c1, c2, c3, x, y, w, M
<1>4. /\ by[1] = Zero /\ by[2] = Zero /\ by[3] = z \ominus w
      /\ Zero \in Fractions /\ z \ominus w \in Fractions
  BY <1>2, Closed
<1> HIDE DEF by
<1>5. ASSUME NEW r \in Fractions, NEW s \in Fractions, NEW t \in Fractions
      PROVE  Apply(T, <<r, s, t, Zero>>) = <<r, s, t, Zero>>
  BY <1>4, DirectionStays
<1>6. Apply(T, <<x, y, w, One>>) = <<x, y, z, One>>
  <2>1. Apply(T, <<x, y, w, One>>) =
          <<x \oplus by[1], y \oplus by[2], w \oplus by[3], One>>
    BY <1>2, <1>4, PointMoves
  <2>2. w \oplus (z \ominus w) = z
    <3>1. PICK W, Z, o \in Int, d \in Nat \ {0} : Is(w, W, d) /\ Is(z, Z, d) /\ Is(Zero, o, d)
      BY <1>2, <1>4, Common
    <3>2. Is(z \ominus w, Z - W, d)  BY <3>1, SumIs, Zenon
    <3>3. Is(w \oplus (z \ominus w), W + (Z - W), d)  BY <3>1, <3>2, SumIs, Zenon
    <3>4. W + (Z - W) = Z  OBVIOUS
    <3> QED  BY <3>1, <3>3, <3>4, SameIs, Zenon
  <2> QED  BY <1>2, <1>4, <2>1, <2>2, Sparse
<1> HIDE DEF T
<1>7. M = <<<<a1, a2, a3, Zero>>, <<b1, b2, b3, Zero>>, <<c1, c2, c3, Zero>>, <<x, y, z, One>>>>
  <2>1. Product(T, B) = <<Apply(T, <<a1, a2, a3, Zero>>), Apply(T, <<b1, b2, b3, Zero>>),
                          Apply(T, <<c1, c2, c3, Zero>>), Apply(T, <<x, y, w, One>>)>>
    BY <1>1, Product4
  <2>2. /\ Apply(T, <<a1, a2, a3, Zero>>) = <<a1, a2, a3, Zero>>
        /\ Apply(T, <<b1, b2, b3, Zero>>) = <<b1, b2, b3, Zero>>
        /\ Apply(T, <<c1, c2, c3, Zero>>) = <<c1, c2, c3, Zero>>
    BY <1>2, <1>5, Zenon
  <2> QED  BY <1>3, <1>6, <2>1, <2>2, Zenon
<1>8. IsBody(M)
  <2>1. /\ M[1][1] = a1 /\ M[1][2] = a2 /\ M[1][3] = a3
        /\ M[2][1] = b1 /\ M[2][2] = b2 /\ M[2][3] = b3
        /\ M[3][1] = c1 /\ M[3][2] = c2 /\ M[3][3] = c3
        /\ M[4][1] = x /\ M[4][2] = y /\ M[4][3] = z
    BY <1>7
  <2>2. \A j \in 1 .. 4, i \in 1 .. 3 : j \in {1, 2, 3, 4} /\ i \in {1, 2, 3}  OBVIOUS
  <2>3. \A j \in 1 .. 4, i \in 1 .. 3 : M[j][i] \in Fractions  BY <1>2, <2>1, <2>2
  <2> QED  BY <1>7, <2>1, <2>3 DEF IsBody
<1>9. M[4][1] = x /\ M[4][2] = y /\ M[4][3] = z  BY <1>7
<1> QED  BY <1>8, <1>9, OriginOf DEF M, x, y

(* What is assumed of a lens.                                              *)
IsLens(l) ==
  /\ l \in [aspect : Fractions, tanHalf : Fractions, near : Fractions, far : Fractions]
  /\ Less(Zero, l.aspect) /\ Less(Zero, l.tanHalf)
  /\ Less(Zero, l.near) /\ Less(l.near, l.far)

(* The two entries of the matrix that z is under, as quotients.            *)
Slope(n, f) == Negative(f \oplus n) \oslash (f \ominus n)
Offset(n, f) == ((Q(-2) \otimes f) \otimes n) \oslash (f \ominus n)

(* The third clip coordinate of what is z away, over what Slope is over.   *)
LEMMA ClipDepthIs ==
  ASSUME NEW n, NEW f, NEW z, NEW N, NEW F, NEW Z, NEW d,
         Is(n, N, d), Is(f, F, d), Is(z, Z, d), N < F
  PROVE  Is((Slope(n, f) \otimes z) \oplus Offset(n, f),
            (-(F + N)) * Z + (-2 * F) * N, (F - N) * d)
<1> DEFINE g == f \ominus n
           G == F - N
           S == Slope(n, f)
           O == Offset(n, f)
<1>1. N \in Int /\ F \in Int /\ Z \in Int /\ d \in Nat \ {0} /\ d * d \in Nat \ {0}
  BY DEF Is
<1>2. G > 0 /\ G * d > 0 /\ d * G = G * d
  BY <1>1
<1>3. Is(g, G, d) /\ Is(f \oplus n, F + N, d)  BY SumIs, Zenon
<1>4. Is(Negative(f \oplus n), -(F + N), d)  BY <1>3, NegativeIs, Zenon
<1> HIDE DEF g, G
<1>5. Is(Negative(f \oplus n) \oslash g, -(F + N), G)  BY <1>2, <1>3, <1>4, QuotientIs, Zenon
<1>6. Is(S, -(F + N), G)  BY <1>5 DEF Slope, g
<1>7. Is(S \otimes z, (-(F + N)) * Z, G * d)  BY <1>6, ProductIs, Zenon
<1>8. Is(Q(-2), -2 * d, d)
  <2>1. -2 \in Int  OBVIOUS
  <2> QED  BY <1>1, <2>1, WholeIs
<1>9. Is((Q(-2) \otimes f) \otimes n, ((-2 * d) * F) * N, (d * d) * d)
  <2>1. Is(Q(-2) \otimes f, (-2 * d) * F, d * d)  BY <1>8, ProductIs, Zenon
  <2> QED  BY <2>1, ProductIs, Zenon
<1>10. Is(g, G * (d * d), (d * d) * d)
  <2>1. Is(g, G * (d * d), d * (d * d))  BY <1>1, <1>3, ScaledIs, Zenon
  <2>2. d * (d * d) = (d * d) * d  BY <1>1
  <2> QED  BY <2>1, <2>2, Zenon
<1>11. G \in Int /\ G * (d * d) > 0
  <2>1. G \in Int  BY <1>1 DEF G
  <2> QED  BY <1>1, <1>2, <2>1
<1>12. Is(((Q(-2) \otimes f) \otimes n) \oslash g, ((-2 * d) * F) * N, G * (d * d))
  BY <1>9, <1>10, <1>11, QuotientIs, Zenon
<1>13. Is(O, ((-2 * d) * F) * N, G * (d * d))  BY <1>12 DEF Offset, g
<1> HIDE DEF S, O
<1>14. Is(S \otimes z, ((-(F + N)) * Z) * d, G * (d * d))
  <2>1. Is(S \otimes z, ((-(F + N)) * Z) * d, (G * d) * d)  BY <1>1, <1>7, ScaledIs, Zenon
  <2>2. (G * d) * d = G * (d * d)  BY <1>1, <1>11
  <2> QED  BY <2>1, <2>2, Zenon
<1> DEFINE c == (S \otimes z) \oplus O
           k == (-(F + N)) * Z + (-2 * F) * N
<1>15. Is(c, ((-(F + N)) * Z) * d + ((-2 * d) * F) * N, G * (d * d))
  BY <1>13, <1>14, SumIs, Zenon
<1>16. k \in Int /\ ((-(F + N)) * Z) * d + ((-2 * d) * F) * N = k * d
  BY <1>1
<1> HIDE DEF c, k
<1>17. Is(c, k * d, (G * d) * d)
  <2>1. (G * d) * d = G * (d * d)  BY <1>1, <1>11
  <2> QED  BY <1>15, <1>16, <2>1, Zenon
<1>18. Is(c, k, G * d)
  <2>1. /\ c \in Fractions /\ k * d \in Int /\ (G * d) * d \in Nat \ {0}
        /\ c[1] * ((G * d) * d) = (k * d) * c[2]
    BY <1>17 DEF Is
  <2>2. c[1] \in Int /\ c[2] \in Nat \ {0}  BY <2>1, FractionParts
  <2>3. (c[1] * (G * d)) * d = (k * c[2]) * d
    BY <1>1, <1>11, <1>16, <2>1, <2>2
  <2>4. c[1] * (G * d) \in Int /\ k * c[2] \in Int /\ d \in Int \ {0}
    BY <1>1, <1>11, <1>16, <2>2
  <2>5. c[1] * (G * d) = k * c[2]  BY <2>3, <2>4, Cancel
  <2>6. G * d \in Nat \ {0}  BY <1>1, <1>2, <1>11
  <2> QED  BY <1>16, <2>1, <2>5, <2>6 DEF Is
<1> QED  BY <1>18 DEF c, k, S, O, G

(* What the matrices make of a place.                                      *)
LEMMA ClipOf ==
  ASSUME NEW l, IsLens(l), NEW k \in Fractions,
         NEW x \in Fractions, NEW y \in Fractions, NEW z \in Fractions,
         NEW B, Origin(B) = <<x, y, z, One>>
  PROVE  Clip(l, k, B) =
           <<((One \oslash l.tanHalf) \oslash l.aspect) \otimes (k \otimes x),
             (One \oslash l.tanHalf) \otimes (k \otimes y),
             (Slope(l.near, l.far) \otimes (k \otimes z)) \oplus Offset(l.near, l.far),
             Negative(k \otimes z)>>
<1> DEFINE a == (One \oslash l.tanHalf) \oslash l.aspect
           t == One \oslash l.tanHalf
           s == Slope(l.near, l.far)
           o == Offset(l.near, l.far)
           m == Q(-1)
           X == k \otimes x
           Y == k \otimes y
           W == k \otimes z
<1>1. /\ l.aspect \in Fractions /\ l.tanHalf \in Fractions
      /\ l.near \in Fractions /\ l.far \in Fractions
      /\ Less(Zero, l.aspect) /\ Less(Zero, l.tanHalf)
      /\ Less(Zero, l.near) /\ Less(l.near, l.far)
  BY DEF IsLens
<1>2. t \in Fractions /\ a \in Fractions
  <2>1. t \in Fractions  BY <1>1, QuotientLaws, Closed
  <2> QED  BY <1>1, <2>1, QuotientLaws
<1>3. s \in Fractions /\ o \in Fractions
  <2> DEFINE g == l.far \ominus l.near
  <2>1. g \in Fractions /\ Less(Zero, g)
    <3>1. PICK N, F, q \in Int, d \in Nat \ {0} :
            Is(l.near, N, d) /\ Is(l.far, F, d) /\ Is(Zero, q, d)
      BY <1>1, Closed, Common
    <3>2. Is(Zero, 0, d)  BY ZeroIs
    <3>3. Is(g, F - N, d)  BY <3>1, SumIs, Zenon
    <3>4. N < F  BY <1>1, <3>1, OrderIs
    <3>5. 0 < F - N  BY <3>4
    <3> HIDE DEF g
    <3> QED  BY <3>2, <3>3, <3>5, OrderIs DEF Is
  <2> HIDE DEF g
  <2>2. Negative(l.far \oplus l.near) \in Fractions  BY <1>1, Closed
  <2>3. (Q(-2) \otimes l.far) \otimes l.near \in Fractions
    <3>1. -2 \in Int  OBVIOUS
    <3>2. Q(-2) \in Fractions  BY <3>1, Closed
    <3>3. Q(-2) \otimes l.far \in Fractions  BY <1>1, <3>2, Closed
    <3> QED  BY <1>1, <3>3, Closed
  <2>4. Negative(l.far \oplus l.near) \oslash g \in Fractions  BY <2>1, <2>2, QuotientLaws
  <2>5. ((Q(-2) \otimes l.far) \otimes l.near) \oslash g \in Fractions
    BY <2>1, <2>3, QuotientLaws
  <2> QED  BY <2>4, <2>5 DEF Slope, Offset, g
<1>4. m \in Fractions /\ X \in Fractions /\ Y \in Fractions /\ W \in Fractions
  <2>1. -1 \in Int  OBVIOUS
  <2> QED  BY <2>1, Closed
<1> DEFINE P == <<<<a, Zero, Zero, Zero>>, <<Zero, t, Zero, Zero>>,
                  <<Zero, Zero, s, m>>, <<Zero, Zero, o, Zero>>>>
           S == <<<<k, Zero, Zero, Zero>>, <<Zero, k, Zero, Zero>>,
                  <<Zero, Zero, k, Zero>>, <<Zero, Zero, Zero, One>>>>
<1>5. matrix_float4x4_perspective(l.aspect, l.tanHalf, l.near, l.far) = P
  BY DEF matrix_float4x4_perspective, Slope, Offset
<1>6. matrix_float4x4_uniform_scale(k) = S  BY DEF matrix_float4x4_uniform_scale
<1>7. Clip(l, k, B) = Apply(P, Apply(S, <<x, y, z, One>>))
  <2> HIDE DEF P, S
  <2> QED  BY <1>5, <1>6 DEF Clip
<1> HIDE DEF a, t, s, o, m
<1>8. Apply(S, <<x, y, z, One>>) = <<X, Y, W, One>>
  BY <1>4, Apply4, Sparse
<1> HIDE DEF X, Y, W, S
<1>9. Apply(P, <<X, Y, W, One>>) = <<a \otimes X, t \otimes Y, (s \otimes W) \oplus o, m \otimes W>>
  <2>1. s \otimes W \in Fractions /\ m \otimes W \in Fractions
        /\ a \otimes X \in Fractions /\ t \otimes Y \in Fractions
    BY <1>2, <1>3, <1>4, Closed
  <2> QED  BY <1>2, <1>3, <1>4, <2>1, Apply4, Sparse
<1> HIDE DEF P
<1>10. m \otimes W = Negative(W)  BY <1>4, MinusOne DEF m
<1>11. Clip(l, k, B) = <<a \otimes X, t \otimes Y, (s \otimes W) \oplus o, Negative(W)>>
  BY <1>7, <1>8, <1>9, <1>10, Zenon
<1> QED  BY <1>11, Zenon DEF a, t, s, o, X, Y, W

(* A positive number as factor keeps order.                                *)
LEMMA OrderTimes ==
  ASSUME NEW a \in Fractions, NEW b \in Fractions, NEW q \in Fractions, Less(Zero, q)
  PROVE  Less(a \otimes q, b \otimes q) <=> Less(a, b)
<1>1. PICK A, B, C \in Int, d \in Nat \ {0} : Is(a, A, d) /\ Is(b, B, d) /\ Is(q, C, d)
  BY Common
<1>2. C > 0
  <2>1. Is(Zero, 0, d)  BY ZeroIs
  <2> QED  BY <1>1, <2>1, OrderIs
<1>3. Is(a \otimes q, A * C, d * d) /\ Is(b \otimes q, B * C, d * d)
  BY <1>1, ProductIs, Zenon
<1>4. A * C < B * C <=> A < B
  <2>1. ASSUME A < B PROVE A * C < B * C
    <3>1. (B - A) * C > 0  BY <1>2, <2>1
    <3>2. (B - A) * C = B * C - A * C  OBVIOUS
    <3> QED  BY <3>1, <3>2
  <2>2. ASSUME A >= B PROVE A * C >= B * C
    <3>1. (A - B) * C >= 0  BY <1>2, <2>2
    <3>2. (A - B) * C = A * C - B * C  OBVIOUS
    <3> QED  BY <3>1, <3>2
  <2> QED  BY <2>1, <2>2
<1>5. Less(a \otimes q, b \otimes q) <=> A * C < B * C  BY <1>3, OrderIs
<1>6. Less(a, b) <=> A < B  BY <1>1, OrderIs
<1> QED  BY <1>4, <1>5, <1>6

(* A factor may go to the bound's side.                                    *)
LEMMA WithinTimes ==
  ASSUME NEW r \in Fractions, NEW q \in Fractions, r \otimes q = One, Less(Zero, q),
         NEW x \in Fractions, NEW w \in Fractions
  PROVE  Within(r \otimes x, w) <=> Within(x, w \otimes q)
<1>1. /\ r \otimes x \in Fractions /\ Negative(w) \in Fractions /\ q \otimes r \in Fractions
      /\ x \otimes q \in Fractions
  BY Closed
<1>2. (r \otimes x) \otimes q = x
  <2>1. (r \otimes x) \otimes q = r \otimes (x \otimes q)  BY ProductLaws
  <2>2. x \otimes q = q \otimes x  BY ProductLaws, Zenon
  <2>3. (r \otimes q) \otimes x = r \otimes (q \otimes x)  BY ProductLaws
  <2>4. One \otimes x = x  BY Sparse
  <2> QED  BY <2>1, <2>2, <2>3, <2>4, Zenon
<1>3. Negative(w) \otimes q = Negative(w \otimes q)  BY ProductLaws, Zenon
<1>4. Less(w \otimes q, (r \otimes x) \otimes q) <=> Less(w, r \otimes x)
  BY <1>1, OrderTimes
<1>5. Less((r \otimes x) \otimes q, Negative(w) \otimes q) <=> Less(r \otimes x, Negative(w))
  BY <1>1, OrderTimes
<1> QED  BY <1>2, <1>3, <1>4, <1>5, Zenon DEF Within, NotMore

(* The product of positive fractions, and their quotients.                 *)
LEMMA PositiveTimes ==
  ASSUME NEW a \in Fractions, Less(Zero, a), NEW b \in Fractions, Less(Zero, b)
  PROVE  Less(Zero, a \otimes b)
<1>1. Zero \in Fractions /\ Zero \otimes b = Zero  BY Sparse
<1> QED  BY <1>1, OrderTimes

(* What the matrix divides by, multiplied again.                           *)
LEMMA QuotientsUndone ==
  ASSUME NEW a \in Fractions, Less(Zero, a), NEW t \in Fractions, Less(Zero, t)
  PROVE  /\ One \oslash t \in Fractions /\ (One \oslash t) \oslash a \in Fractions
         /\ (One \oslash t) \otimes t = One
         /\ ((One \oslash t) \oslash a) \otimes (t \otimes a) = One
<1> DEFINE r == One \oslash t
           s == r \oslash a
<1>1. One \in Fractions  BY Closed
<1>2. r \in Fractions /\ r \otimes t = One  BY <1>1, QuotientLaws
<1> HIDE DEF r
<1>3. s \in Fractions /\ s \otimes a = r  BY <1>2, QuotientLaws
<1> HIDE DEF s
<1>4. t \otimes a = a \otimes t  BY ProductLaws, Zenon
<1>5. (s \otimes a) \otimes t = s \otimes (a \otimes t)  BY <1>3, ProductLaws, Zenon
<1>6. s \otimes (t \otimes a) = One  BY <1>2, <1>3, <1>4, <1>5, Zenon
<1> QED  BY <1>2, <1>3, <1>6 DEF s, r

(* The third clip coordinate is within the fourth between near and far.    *)
LEMMA DepthWithin ==
  ASSUME NEW n \in Fractions, NEW f \in Fractions, Less(Zero, n), Less(n, f),
         NEW z \in Fractions
  PROVE  Within((Slope(n, f) \otimes z) \oplus Offset(n, f), Negative(z)) <=>
           NotMore(n, Negative(z)) /\ NotMore(Negative(z), f)
<1>1. PICK N, F, Z \in Int, d \in Nat \ {0} : Is(n, N, d) /\ Is(f, F, d) /\ Is(z, Z, d)
  BY Common
<1> DEFINE w == Negative(z)
           c == (Slope(n, f) \otimes z) \oplus Offset(n, f)
           W == -Z
           K == (-(F + N)) * Z + (-2 * F) * N
           G == F - N
<1>2. 0 < N /\ N < F
  <2>1. Is(Zero, 0, d)  BY ZeroIs
  <2> QED  BY <1>1, <2>1, OrderIs
<1>3. Is(c, K, G * d)  BY <1>1, <1>2, ClipDepthIs, Zenon
<1>4. Is(w, W, d)  BY <1>1, NegativeIs, Zenon
<1>5. G \in Nat \ {0} /\ W \in Int /\ K \in Int  BY <1>2
<1>6. Is(w, W * G, G * d) /\ Is(Negative(w), -(W * G), G * d)
  <2> HIDE DEF w, W, G
  <2>1. Is(w, W * G, d * G)  BY <1>4, <1>5, ScaledIs, Zenon
  <2>2. d * G = G * d  BY <1>5
  <2>3. Is(w, W * G, G * d)  BY <2>1, <2>2, Zenon
  <2> QED  BY <2>3, NegativeIs, Zenon
<1>7. W * G < K <=> F < W
  <2>1. K - W * G = (2 * N) * (W - F)  OBVIOUS
  <2>2. (2 * N) * (W - F) > 0 <=> W - F > 0
    <3> DEFINE D == W - F
               M == 2 * N
    <3>1. D \in Int /\ M \in Nat \ {0}  BY <1>2
    <3> HIDE DEF D, M
    <3>2. M * D > 0 <=> D > 0  BY <3>1
    <3> QED  BY <3>2 DEF D, M
  <2> HIDE DEF K, G
  <2>3. W * G \in Int  BY <1>5
  <2>4. K - W * G > 0 <=> W - F > 0  BY <2>1, <2>2, Zenon
  <2> QED  BY <1>5, <2>3, <2>4
<1>8. K < -(W * G) <=> W < N
  <2>1. -(W * G) - K = (2 * F) * (N - W)  OBVIOUS
  <2>2. (2 * F) * (N - W) > 0 <=> N - W > 0
    <3> DEFINE D == N - W
               M == 2 * F
    <3>1. D \in Int /\ M \in Nat \ {0}  BY <1>2
    <3> HIDE DEF D, M
    <3>2. M * D > 0 <=> D > 0  BY <3>1
    <3> QED  BY <3>2 DEF D, M
  <2> HIDE DEF K, G
  <2>3. W * G \in Int  BY <1>5
  <2>4. -(W * G) - K > 0 <=> N - W > 0  BY <2>1, <2>2, Zenon
  <2> QED  BY <1>5, <2>3, <2>4
<1> HIDE DEF c, w, K, W, G
<1>9. (Less(w, c) <=> W * G < K) /\ (Less(c, Negative(w)) <=> K < -(W * G))
  BY <1>3, <1>6, OrderIs
<1>10. (Less(f, w) <=> F < W) /\ (Less(w, n) <=> W < N)  BY <1>1, <1>4, OrderIs
<1>11. (Less(w, c) <=> Less(f, w)) /\ (Less(c, Negative(w)) <=> Less(w, n))
  BY <1>7, <1>8, <1>9, <1>10, Zenon
<1> QED  BY <1>11, Zenon DEF Within, NotMore, c, w

----------------------------------------------------------------------------
(* The lenses are such lenses.                                             *)
LEMMA LensIs == \A l \in Lenses : IsLens(l)
BY LensesAssumption DEF IsLens

(* The three parts of Projects, for any body.                              *)
LEMMA BodyKeepsFrustum == IsBody(transform) => KeepsFrustum
<1> SUFFICES ASSUME IsBody(transform), NEW l \in Lenses
             PROVE  LET c == Clip(l, One, transform)
                    IN  InFrustum(l, Origin(transform)) <=>
                          \A i \in 1 .. 3 : Within(c[i], c[4])
  BY DEF KeepsFrustum
<1> DEFINE x == transform[4][1]
           y == transform[4][2]
           z == transform[4][3]
           w == Negative(z)
           a == l.aspect
           t == l.tanHalf
           n == l.near
           f == l.far
           c == Clip(l, One, transform)
           p == Origin(transform)
           dz == (Slope(n, f) \otimes z) \oplus Offset(n, f)
<1>1. /\ IsLens(l) /\ a \in Fractions /\ t \in Fractions /\ n \in Fractions /\ f \in Fractions
      /\ Less(Zero, a) /\ Less(Zero, t) /\ Less(Zero, n) /\ Less(n, f)
  BY LensIs DEF IsLens
<1>2. x \in Fractions /\ y \in Fractions /\ z \in Fractions /\ w \in Fractions
  <2>1. x \in Fractions /\ y \in Fractions /\ z \in Fractions  BY DEF IsBody
  <2> QED  BY <2>1, Closed
<1>3. p = <<x, y, z, One>>  BY OriginOf
<1> HIDE DEF x, y, z, p
<1>4. /\ One \in Fractions
      /\ One \otimes x = x /\ One \otimes y = y /\ One \otimes z = z
  BY <1>2, Sparse
<1>5. c = <<((One \oslash t) \oslash a) \otimes x, (One \oslash t) \otimes y, dz, w>>
  <2>1. c = <<((One \oslash t) \oslash a) \otimes (One \otimes x),
              (One \oslash t) \otimes (One \otimes y),
              (Slope(n, f) \otimes (One \otimes z)) \oplus Offset(n, f),
              Negative(One \otimes z)>>
    BY <1>1, <1>2, <1>3, <1>4, ClipOf DEF p
  <2> QED  BY <1>4, <2>1, Zenon
<1> HIDE DEF c, a, t, n, f
<1>6. Within(((One \oslash t) \oslash a) \otimes x, w) <=> Within(x, (w \otimes t) \otimes a)
  <2>1. (w \otimes t) \otimes a = w \otimes (t \otimes a)  BY <1>1, <1>2, ProductLaws
  <2>2. t \otimes a \in Fractions /\ Less(Zero, t \otimes a)
    BY <1>1, PositiveTimes, Closed
  <2>3. /\ (One \oslash t) \oslash a \in Fractions
        /\ ((One \oslash t) \oslash a) \otimes (t \otimes a) = One
    BY <1>1, QuotientsUndone
  <2>4. Within(((One \oslash t) \oslash a) \otimes x, w) <=> Within(x, w \otimes (t \otimes a))
    BY <1>2, <2>2, <2>3, WithinTimes
  <2> QED  BY <2>1, <2>4, Zenon
<1>7. Within((One \oslash t) \otimes y, w) <=> Within(y, w \otimes t)
  <2>1. One \oslash t \in Fractions /\ (One \oslash t) \otimes t = One
    BY <1>1, QuotientsUndone
  <2> QED  BY <1>1, <1>2, <2>1, WithinTimes
<1>8. Within(dz, w) <=> NotMore(n, w) /\ NotMore(w, f)
  BY <1>1, <1>2, DepthWithin
<1> HIDE DEF w, dz
<1>9. InFrustum(l, p) <=> /\ NotMore(n, w) /\ NotMore(w, f) /\ Within(y, w \otimes t)
                          /\ Within(x, (w \otimes t) \otimes a)
  BY <1>3 DEF InFrustum, w, n, f, t, a
<1>10. (\A i \in 1 .. 3 : Within(c[i], c[4])) <=>
         /\ Within(((One \oslash t) \oslash a) \otimes x, w)
         /\ Within((One \oslash t) \otimes y, w) /\ Within(dz, w)
  <2>1. \A i \in 1 .. 3 : i \in {1, 2, 3}  OBVIOUS
  <2>2. /\ c[1] = ((One \oslash t) \oslash a) \otimes x /\ c[2] = (One \oslash t) \otimes y
        /\ c[3] = dz /\ c[4] = w
    BY <1>5
  <2>3. (\A i \in 1 .. 3 : Within(c[i], c[4])) <=>
          Within(c[1], c[4]) /\ Within(c[2], c[4]) /\ Within(c[3], c[4])
    BY <2>1
  <2> QED  BY <2>2, <2>3, Zenon
<1>11. InFrustum(l, p) <=> \A i \in 1 .. 3 : Within(c[i], c[4])
  BY <1>6, <1>7, <1>8, <1>9, <1>10, Zenon
<1> QED  BY <1>11 DEF c, p

(* The first two clip coordinates of the larger world, over the fourth,    *)
(* are those of the smaller.                                               *)
LEMMA SideScaled ==
  ASSUME NEW s \in Fractions, NEW k \in Fractions, NEW x \in Fractions, NEW z \in Fractions
  PROVE  (s \otimes x) \otimes Negative(k \otimes z) =
           (s \otimes (k \otimes x)) \otimes Negative(z)
<1>1. PICK S, K, X, Z \in Int, d \in Nat \ {0} :
        Is(s, S, d) /\ Is(k, K, d) /\ Is(x, X, d) /\ Is(z, Z, d)
  BY Common4
<1> DEFINE d2 == d * d
<1>2. /\ Is(s \otimes x, S * X, d2) /\ Is(k \otimes z, K * Z, d2) /\ Is(k \otimes x, K * X, d2)
      /\ Is(Negative(z), -Z, d)
  BY <1>1, ProductIs, NegativeIs, Zenon
<1>3. Is(Negative(k \otimes z), -(K * Z), d2) /\ Is(s \otimes (k \otimes x), S * (K * X), d * d2)
  BY <1>1, <1>2, ProductIs, NegativeIs, Zenon
<1>4. /\ Is((s \otimes x) \otimes Negative(k \otimes z), (S * X) * (-(K * Z)), d2 * d2)
      /\ Is((s \otimes (k \otimes x)) \otimes Negative(z), (S * (K * X)) * (-Z), (d * d2) * d)
  BY <1>2, <1>3, ProductIs, Zenon
<1>5. (S * X) * (-(K * Z)) = (S * (K * X)) * (-Z)  OBVIOUS
<1>6. d2 * d2 = (d * d2) * d  OBVIOUS
<1> QED  BY <1>4, <1>5, <1>6, SameIs, Zenon

(* And so is the third.                                                    *)
LEMMA DepthScaled ==
  ASSUME NEW n \in Fractions, NEW f \in Fractions, Less(n, f),
         NEW k \in Fractions, Less(Zero, k), NEW z \in Fractions
  PROVE  ((Slope(n, f) \otimes z) \oplus Offset(n, f)) \otimes Negative(k \otimes z) =
           ((Slope(k \otimes n, k \otimes f) \otimes (k \otimes z)) \oplus
              Offset(k \otimes n, k \otimes f)) \otimes Negative(z)
<1>1. PICK N, F, K, Z \in Int, d \in Nat \ {0} :
        Is(n, N, d) /\ Is(f, F, d) /\ Is(k, K, d) /\ Is(z, Z, d)
  BY Common4
<1>2. N < F /\ K > 0
  <2>1. Is(Zero, 0, d)  BY ZeroIs
  <2> QED  BY <1>1, <2>1, OrderIs
<1> DEFINE d2 == d * d
           G == F - N
           H == K * F - K * N
           A == (-(F + N)) * Z + (-2 * F) * N
           L == (-(K * F + K * N)) * (K * Z) + (-2 * (K * F)) * (K * N)
           c == (Slope(n, f) \otimes z) \oplus Offset(n, f)
           b == (Slope(k \otimes n, k \otimes f) \otimes (k \otimes z)) \oplus
                  Offset(k \otimes n, k \otimes f)
<1>3. Is(c, A, G * d)  BY <1>1, <1>2, ClipDepthIs, Zenon
<1>4. /\ Is(k \otimes n, K * N, d2) /\ Is(k \otimes f, K * F, d2) /\ Is(k \otimes z, K * Z, d2)
      /\ Is(Negative(z), -Z, d)
  BY <1>1, ProductIs, NegativeIs, Zenon
<1>5. K * N < K * F
  <2>1. K * (F - N) > 0  BY <1>2
  <2>2. K * (F - N) = K * F - K * N  OBVIOUS
  <2> QED  BY <2>1, <2>2
<1>6. Is(b, L, H * d2)  BY <1>4, <1>5, ClipDepthIs, Zenon
<1>7. Is(Negative(k \otimes z), -(K * Z), d2)  BY <1>4, NegativeIs, Zenon
<1> HIDE DEF c, b, A, L, H, G
<1>8. /\ Is(c \otimes Negative(k \otimes z), A * (-(K * Z)), (G * d) * d2)
      /\ Is(b \otimes Negative(z), L * (-Z), (H * d2) * d)
  BY <1>3, <1>4, <1>6, <1>7, ProductIs, Zenon
<1>9. Is(c \otimes Negative(k \otimes z), (A * (-(K * Z))) * K, ((G * d) * d2) * K)
  <2>1. K \in Nat \ {0}  BY <1>2
  <2> QED  BY <1>8, <2>1, ScaledIs, Zenon
<1>10. (A * (-(K * Z))) * K = L * (-Z)
  <2>1. L = (K * K) * A  BY DEF L, A
  <2>2. A \in Int  BY DEF A
  <2> QED  BY <2>1, <2>2
<1>11. ((G * d) * d2) * K = (H * d2) * d
  <2>1. H = K * G  BY DEF H, G
  <2>2. G \in Int  BY DEF G
  <2> QED  BY <2>1, <2>2
<1>12. c \otimes Negative(k \otimes z) = b \otimes Negative(z)
  BY <1>8, <1>9, <1>10, <1>11, SameIs, Zenon
<1> QED  BY <1>12 DEF c, b

LEMMA BodyScaleUnseen == IsBody(transform) => ScaleUnseen
<1> SUFFICES ASSUME IsBody(transform), NEW l \in Lenses, NEW k \in Scales
             PROVE  LET small == Clip(l, One, transform)
                        large == Clip(Larger(l, k), k, transform)
                    IN  \A i \in 1 .. 3 : small[i] \otimes large[4] = large[i] \otimes small[4]
  BY DEF ScaleUnseen
<1> DEFINE x == transform[4][1]
           y == transform[4][2]
           z == transform[4][3]
           a == l.aspect
           t == l.tanHalf
           n == l.near
           f == l.far
           m == Larger(l, k)
           s == (One \oslash t) \oslash a
           r == One \oslash t
           small == Clip(l, One, transform)
           large == Clip(m, k, transform)
           sd == (Slope(n, f) \otimes z) \oplus Offset(n, f)
           ld == (Slope(k \otimes n, k \otimes f) \otimes (k \otimes z)) \oplus
                   Offset(k \otimes n, k \otimes f)
<1>1. /\ IsLens(l) /\ a \in Fractions /\ t \in Fractions /\ n \in Fractions /\ f \in Fractions
      /\ Less(Zero, a) /\ Less(Zero, t) /\ Less(Zero, n) /\ Less(n, f)
  BY LensIs DEF IsLens
<1>2. k \in Fractions /\ Less(Zero, k)  BY ScalesAssumption
<1>3. m.aspect = a /\ m.tanHalf = t /\ m.near = k \otimes n /\ m.far = k \otimes f
      /\ m \in [aspect : Fractions, tanHalf : Fractions, near : Fractions, far : Fractions]
  <2>1. k \otimes n \in Fractions /\ k \otimes f \in Fractions  BY <1>1, <1>2, Closed
  <2>2. l \in [aspect : Fractions, tanHalf : Fractions, near : Fractions, far : Fractions]
    BY <1>1 DEF IsLens
  <2> QED  BY <2>1, <2>2 DEF Larger
<1>4. IsLens(m)
  <2>1. Less(Zero, k \otimes n)  BY <1>1, <1>2, PositiveTimes
  <2>2. Less(k \otimes n, k \otimes f)
    <3>1. k \otimes n = n \otimes k /\ k \otimes f = f \otimes k  BY <1>1, <1>2, ProductLaws
    <3>2. Less(n \otimes k, f \otimes k)  BY <1>1, <1>2, OrderTimes
    <3> QED  BY <3>1, <3>2, Zenon
  <2> QED  BY <1>1, <1>3, <2>1, <2>2 DEF IsLens
<1>5. x \in Fractions /\ y \in Fractions /\ z \in Fractions  BY DEF IsBody
<1>6. Origin(transform) = <<x, y, z, One>>  BY OriginOf
<1> HIDE DEF x, y, z, m
<1>7. /\ One \in Fractions
      /\ One \otimes x = x /\ One \otimes y = y /\ One \otimes z = z
  BY <1>5, Sparse
<1>8. small = <<s \otimes x, r \otimes y, sd, Negative(z)>>
  <2>1. small = <<s \otimes (One \otimes x), r \otimes (One \otimes y),
                  (Slope(n, f) \otimes (One \otimes z)) \oplus Offset(n, f),
                  Negative(One \otimes z)>>
    BY <1>1, <1>5, <1>6, <1>7, ClipOf
  <2> QED  BY <1>7, <2>1, Zenon
<1>9. large = <<s \otimes (k \otimes x), r \otimes (k \otimes y), ld, Negative(k \otimes z)>>
  <2>1. large = <<((One \oslash m.tanHalf) \oslash m.aspect) \otimes (k \otimes x),
                  (One \oslash m.tanHalf) \otimes (k \otimes y),
                  (Slope(m.near, m.far) \otimes (k \otimes z)) \oplus Offset(m.near, m.far),
                  Negative(k \otimes z)>>
    BY <1>2, <1>4, <1>5, <1>6, ClipOf
  <2> HIDE DEF a, t, n, f
  <2> QED  BY <1>3, <2>1, Zenon
<1>10. s \in Fractions /\ r \in Fractions  BY <1>1, QuotientsUndone
<1> HIDE DEF s, r, a, t, n, f, small, large
<1>11. (s \otimes x) \otimes Negative(k \otimes z) = (s \otimes (k \otimes x)) \otimes Negative(z)
  BY <1>2, <1>5, <1>10, SideScaled
<1>12. (r \otimes y) \otimes Negative(k \otimes z) = (r \otimes (k \otimes y)) \otimes Negative(z)
  BY <1>2, <1>5, <1>10, SideScaled
<1>13. sd \otimes Negative(k \otimes z) = ld \otimes Negative(z)
  BY <1>1, <1>2, <1>5, DepthScaled
<1> HIDE DEF sd, ld
<1>14. \A i \in 1 .. 3 : small[i] \otimes large[4] = large[i] \otimes small[4]
  <2>1. \A i \in 1 .. 3 : i \in {1, 2, 3}  OBVIOUS
  <2>2. /\ small[1] = s \otimes x /\ small[2] = r \otimes y /\ small[3] = sd
        /\ small[4] = Negative(z)
    BY <1>8
  <2>3. /\ large[1] = s \otimes (k \otimes x) /\ large[2] = r \otimes (k \otimes y)
        /\ large[3] = ld /\ large[4] = Negative(k \otimes z)
    BY <1>9
  <2>4. /\ small[1] \otimes large[4] = large[1] \otimes small[4]
        /\ small[2] \otimes large[4] = large[2] \otimes small[4]
        /\ small[3] \otimes large[4] = large[3] \otimes small[4]
    BY <1>11, <1>12, <1>13, <2>2, <2>3, Zenon
  <2> QED  BY <2>1, <2>4
<1> QED  BY <1>14 DEF small, large, m

(* Of two places before the camera the nearer one has less depth.          *)
LEMMA NearerDepth ==
  ASSUME NEW n \in Fractions, NEW f \in Fractions, Less(Zero, n), Less(n, f),
         NEW y \in Fractions, NEW z \in Fractions, Less(y, z), Less(z, Zero)
  PROVE  Less(((Slope(n, f) \otimes z) \oplus Offset(n, f)) \oslash Negative(z),
              ((Slope(n, f) \otimes y) \oplus Offset(n, f)) \oslash Negative(y))
<1>1. PICK N, F, Y, Z \in Int, d \in Nat \ {0} :
        Is(n, N, d) /\ Is(f, F, d) /\ Is(y, Y, d) /\ Is(z, Z, d)
  BY Common4
<1>2. 0 < N /\ N < F /\ Y < Z /\ Z < 0
  <2>1. Is(Zero, 0, d)  BY ZeroIs
  <2> QED  BY <1>1, <2>1, OrderIs
<1> DEFINE G == F - N
           Of(v) == (-(F + N)) * v + (-2 * F) * N
<1>3. G \in Nat \ {0}  BY <1>2
<1>4. ASSUME NEW v, NEW V \in Int, Is(v, V, d), V < 0
      PROVE  Is(((Slope(n, f) \otimes v) \oplus Offset(n, f)) \oslash Negative(v),
                Of(V), (-V) * G)
  <2> DEFINE c == (Slope(n, f) \otimes v) \oplus Offset(n, f)
  <2>1. Is(c, Of(V), G * d)  BY <1>1, <1>2, <1>4, ClipDepthIs, Zenon
  <2>2. Is(Negative(v), -V, d)  BY <1>4, NegativeIs, Zenon
  <2> HIDE DEF c, G, Of
  <2>3. Is(Negative(v), (-V) * G, d * G)  BY <1>3, <2>2, ScaledIs, Zenon
  <2>4. d * G = G * d /\ (-V) * G > 0  BY <1>3, <1>4
  <2>5. Is(Negative(v), (-V) * G, G * d)  BY <2>3, <2>4, Zenon
  <2>6. Is(c \oslash Negative(v), Of(V), (-V) * G)  BY <2>1, <2>4, <2>5, QuotientIs, Zenon
  <2> QED  BY <2>6 DEF c
<1> DEFINE p == ((Slope(n, f) \otimes z) \oplus Offset(n, f)) \oslash Negative(z)
           q == ((Slope(n, f) \otimes y) \oplus Offset(n, f)) \oslash Negative(y)
           U == -Z
           V == -Y
<1>5. Is(p, Of(Z), U * G) /\ Is(q, Of(Y), V * G)
  <2>1. Y < 0  BY <1>2
  <2> QED  BY <1>1, <1>2, <1>4, <2>1, Zenon
<1>6. U \in Nat \ {0} /\ V \in Nat \ {0} /\ Of(Z) \in Int /\ Of(Y) \in Int
  BY <1>2
<1>7. Of(Z) * V < Of(Y) * U
  <2>1. Of(Y) * U - Of(Z) * V = (2 * (F * N)) * (Z - Y)  OBVIOUS
  <2>2. F * N > 0 /\ Z - Y > 0  BY <1>2
  <2>3. (2 * (F * N)) * (Z - Y) > 0
    <3> DEFINE M == F * N
               D == Z - Y
    <3>1. M \in Nat \ {0} /\ D \in Nat \ {0}  BY <2>2
    <3> HIDE DEF M, D
    <3>2. (2 * M) * D > 0  BY <3>1
    <3> QED  BY <3>2 DEF M, D
  <2> HIDE DEF Of, U, V
  <2>4. Of(Y) * U \in Int /\ Of(Z) * V \in Int  BY <1>6
  <2>5. Of(Y) * U - Of(Z) * V > 0  BY <2>1, <2>3, Zenon
  <2> QED  BY <2>4, <2>5
<1> HIDE DEF p, q, Of, U, V, G
<1>8. Is(p, Of(Z) * V, (U * G) * V) /\ Is(q, Of(Y) * U, (V * G) * U)
  BY <1>5, <1>6, ScaledIs, Zenon
<1>9. (V * G) * U = (U * G) * V  BY <1>3, <1>6
<1>10. Is(q, Of(Y) * U, (U * G) * V)  BY <1>8, <1>9, Zenon
<1>11. Less(p, q)  BY <1>7, <1>8, <1>10, OrderIs
<1> QED  BY <1>11 DEF p, q

(* The depth of a body is that of its place.                               *)
LEMMA DepthOf ==
  ASSUME NEW l, IsLens(l), NEW x \in Fractions, NEW y \in Fractions, NEW z \in Fractions,
         NEW B, Origin(B) = <<x, y, z, One>>
  PROVE  Depth(l, B) = ((Slope(l.near, l.far) \otimes z) \oplus Offset(l.near, l.far))
                         \oslash Negative(z)
<1> DEFINE c == Clip(l, One, B)
           e == (Slope(l.near, l.far) \otimes z) \oplus Offset(l.near, l.far)
           s == ((One \oslash l.tanHalf) \oslash l.aspect) \otimes (One \otimes x)
           r == (One \oslash l.tanHalf) \otimes (One \otimes y)
<1>1. One \in Fractions /\ One \otimes z = z  BY Sparse
<1>2. c = <<s, r, (Slope(l.near, l.far) \otimes (One \otimes z)) \oplus Offset(l.near, l.far),
            Negative(One \otimes z)>>
  BY <1>1, ClipOf
<1>3. c = <<s, r, e, Negative(z)>>  BY <1>1, <1>2, Zenon
<1> HIDE DEF c, s, r, e
<1>4. c[3] = e /\ c[4] = Negative(z)  BY <1>3
<1>5. Depth(l, B) = c[3] \oslash c[4]  BY DEF Depth, c
<1>6. Depth(l, B) = e \oslash Negative(z)  BY <1>4, <1>5, Zenon
<1> QED  BY <1>6 DEF e

LEMMA BodyDepthKeepsOrder == IsBody(transform) => DepthKeepsOrder
<1> SUFFICES ASSUME IsBody(transform), NEW z \in Depths,
                    Less(Origin(transform)[3], z), Less(z, Zero), NEW l \in Lenses
             PROVE  Less(Depth(l, MovedTo(transform, z)), Depth(l, transform))
  BY DEF DepthKeepsOrder
<1> DEFINE x == transform[4][1]
           y == transform[4][2]
           w == transform[4][3]
           M == MovedTo(transform, z)
           n == l.near
           f == l.far
<1>1. /\ IsLens(l) /\ n \in Fractions /\ f \in Fractions /\ Less(Zero, n) /\ Less(n, f)
  BY LensIs DEF IsLens
<1>2. x \in Fractions /\ y \in Fractions /\ w \in Fractions  BY DEF IsBody
<1>3. z \in Fractions  BY DepthsAssumption
<1>4. Origin(transform) = <<x, y, w, One>>  BY OriginOf
<1>5. Origin(M) = <<x, y, z, One>>  BY <1>3, MovedOrigin
<1>6. Less(w, z)
  <2> HIDE DEF x, y, w
  <2> QED  BY <1>4
<1> HIDE DEF x, y, w, M
<1>7. Depth(l, transform) = ((Slope(n, f) \otimes w) \oplus Offset(n, f)) \oslash Negative(w)
  BY <1>1, <1>2, <1>4, DepthOf
<1>8. Depth(l, M) = ((Slope(n, f) \otimes z) \oplus Offset(n, f)) \oslash Negative(z)
  BY <1>1, <1>2, <1>3, <1>5, DepthOf
<1> HIDE DEF n, f
<1>9. Less(((Slope(n, f) \otimes z) \oplus Offset(n, f)) \oslash Negative(z),
           ((Slope(n, f) \otimes w) \oplus Offset(n, f)) \oslash Negative(w))
  BY <1>1, <1>2, <1>3, <1>6, NearerDepth
<1>10. Less(Depth(l, M), Depth(l, transform))  BY <1>7, <1>8, <1>9, Zenon
<1> QED  BY <1>10 DEF M

(* Through every lens, matrix_float4x4_perspective clips every pose's body *)
(* as the lens' frustum does, looks the same at every scale, and gives the *)
(* nearer of two places less depth.                                        *)
THEOREM AlwaysProjects == PoseSpec => []Projects
<1>1. PoseIInv => Projects
  BY TransformIsBody, BodyKeepsFrustum, BodyScaleUnseen, BodyDepthKeepsOrder DEF Projects
<1> QED  BY <1>1, PoseIInvInit, PoseIInvNext, PTL DEF PoseSpec

----------------------------------------------------------------------------
(* OrbitControl                                                            *)

USE VelocityAssumption, RangeAssumption, RoundingAssumption, PointsAssumption,
    NaNAssumption

----------------------------------------------------------------------------
(* The lifted arithmetic stays within the floats, and is ordinary on       *)
(* integers.                                                               *)
LEMMA FloatArithmetic ==
  ASSUME NEW x \in Floats, NEW y \in Floats
  PROVE  /\ Plus(x, y) \in Floats /\ Minus(x, y) \in Floats
         /\ AtLeast(x, y) \in Floats /\ AtMost(x, y) \in Floats
         /\ Length(x) \in Floats /\ Normalize(x) \in {-1, 1, NaN}
  BY DEF Floats, Plus, Minus, AtLeast, AtMost, Length, Normalize

LEMMA IntegerArithmetic ==
  ASSUME NEW x \in Int, NEW y \in Int
  PROVE  Plus(x, y) = x + y /\ Minus(x, y) = x - y
  BY DEF Plus, Minus

LEMMA Clamp ==
  ASSUME NEW x \in Int, NEW y \in Int
  PROVE  /\ AtLeast(x, y) \in {x, y} /\ AtLeast(x, y) >= y
         /\ AtMost(x, y) \in {x, y} /\ AtMost(x, y) <= y
  BY DEF AtLeast, AtMost

(* A clamped step of an angle stays in its range, rounded or not: its      *)
(* error is less than the step.                                            *)
LEMMA ClampedStep ==
  ASSUME NEW v \in Nat, NEW limit \in Nat, NEW x \in -limit .. limit,
         Rounding \in Nat, Rounding < v
  PROVE  /\ \A y \in Rounded(x - v) : y \in Int /\ AtLeast(y, -limit) \in -limit .. limit
         /\ \A y \in Rounded(x + v) : y \in Int /\ AtMost(y, limit) \in -limit .. limit
<1>1. ASSUME NEW y \in Rounded(x - v)
      PROVE  y \in Int /\ AtLeast(y, -limit) \in -limit .. limit
  <2>1. y \in Int /\ y < x  BY <1>1 DEF Rounded
  <2>2. -limit \in Int /\ x \in Int  OBVIOUS
  <2>3. AtLeast(y, -limit) \in {y, -limit} /\ AtLeast(y, -limit) >= -limit
    BY <2>1, <2>2, Clamp
  <2> QED  BY <2>1, <2>2, <2>3
<1>2. ASSUME NEW y \in Rounded(x + v)
      PROVE  y \in Int /\ AtMost(y, limit) \in -limit .. limit
  <2>1. y \in Int /\ y > x  BY <1>2 DEF Rounded
  <2>2. AtMost(y, limit) \in {y, limit} /\ AtMost(y, limit) <= limit
    BY <2>1, Clamp
  <2> QED  BY <2>1, <2>2
<1> QED  BY <1>1, <1>2

LEMMA ConstantTypes ==
  /\ PitchVelocity \in Nat \ {0} /\ YawVelocity \in Nat \ {0} /\ Rounding \in Nat
  /\ DistVelocity \in Nat \ {0}
  /\ PitchLimit \in Nat /\ YawLimit \in Nat /\ Side \in Nat /\ DistSpan \in Nat
  /\ Int \subseteq Floats /\ Points \union {NaN} \subseteq Floats
  BY DEF Floats

USE ConstantTypes

(* What reset() derives from a target and a camera are floats, even where  *)
(* these hold whatever was in memory.                                      *)
LEMMA ResetTypes ==
  ASSUME NEW t \in Points \union {NaN}, NEW c \in Points \union {NaN}
  PROVE  /\ Length(Minus(t, c)) \in Floats
         /\ Minus(Length(Minus(t, c)), DistSpan) \in Floats
         /\ Plus(Length(Minus(t, c)), DistSpan) \in Floats
         /\ Normalize(Minus(t, c)) \in {-1, 1, NaN}
         /\ Minus(0, t) \in Floats
<1>1. t \in Floats /\ c \in Floats  OBVIOUS
<1>2. Minus(t, c) \in Floats  BY <1>1, FloatArithmetic
<1>3. Length(Minus(t, c)) \in Floats /\ Normalize(Minus(t, c)) \in {-1, 1, NaN}
  BY <1>2, FloatArithmetic
<1>4. DistSpan \in Floats /\ 0 \in Floats  OBVIOUS
<1> QED  BY <1>1, <1>2, <1>3, <1>4, FloatArithmetic

(* Type correctness.                                                       *)
THEOREM TypeCorrect == Spec => []TypeOK
<1>1. Init => TypeOK
  <2> SUFFICES ASSUME Init PROVE TypeOK  OBVIOUS
  <2>1. target \in Points \union {NaN} /\ camera \in Points \union {NaN}
    BY DEF Init
  <2>2. dist \in Floats /\ distRange \in Floats \X Floats
        /\ perDistTranslate \in {-1, 1, NaN} /\ preTranslate \in Floats
    BY <2>1, ResetTypes DEF Init
  <2>3. isInitted \in BOOLEAN  BY Zenon DEF Init
  <2>4. pitch \in Int /\ yaw \in Int  BY DEF Init
  <2> QED  BY <2>1, <2>2, <2>3, <2>4 DEF TypeOK
<1>2. TypeOK /\ [Next]_vars => TypeOK'
  <2> SUFFICES ASSUME TypeOK, [Next]_vars PROVE TypeOK'  OBVIOUS
  <2> USE DEF TypeOK
  <2>1. ASSUME NEW t \in Points, NEW c \in Points, init(t, c) PROVE TypeOK'
    BY <2>1, ResetTypes DEF init, ResetTo
  <2>2. CASE reset
    <3>1. target \in Points \union {NaN} /\ camera \in Points \union {NaN}
      OBVIOUS
    <3>2. dist' \in Floats /\ distRange' \in Floats \X Floats
          /\ perDistTranslate' \in {-1, 1, NaN} /\ preTranslate' \in Floats
      BY <2>2, <3>1, ResetTypes DEF reset, ResetTo
    <3> QED  BY <2>2, <3>2 DEF reset, ResetTo
  <2>3. CASE Rotate
    <3>1. ASSUME NEW x \in Int, NEW y \in Rounded(x) PROVE y \in Int
      BY <3>1 DEF Rounded
    <3>2. pitch' \in Int /\ yaw' \in Int
      <4>1. /\ yaw - YawVelocity \in Int /\ yaw + YawVelocity \in Int
            /\ pitch - PitchVelocity \in Int /\ pitch + PitchVelocity \in Int
            /\ -YawLimit \in Int /\ -PitchLimit \in Int
            /\ YawLimit \in Int /\ PitchLimit \in Int
        OBVIOUS
      <4>2. CASE rotateLeft  BY <3>1, <4>1, <4>2, Clamp DEF rotateLeft
      <4>3. CASE rotateRight  BY <3>1, <4>1, <4>3, Clamp DEF rotateRight
      <4>4. CASE rotateUp  BY <3>1, <4>1, <4>4, Clamp DEF rotateUp
      <4>5. CASE rotateDown  BY <3>1, <4>1, <4>5, Clamp DEF rotateDown
      <4> QED  BY <2>3, <4>2, <4>3, <4>4, <4>5 DEF Rotate
    <3> QED
      BY <2>3, <3>2 DEF Rotate, rotateLeft, rotateRight, rotateUp, rotateDown, Frame
  <2>4. CASE Zoom
    <3>1. DistVelocity \in Floats /\ distRange[1] \in Floats /\ distRange[2] \in Floats
      OBVIOUS
    <3>2. Minus(dist, DistVelocity) \in Floats /\ Plus(dist, DistVelocity) \in Floats
      BY <3>1, FloatArithmetic
    <3>3. dist' \in Floats
      BY <2>4, <3>1, <3>2, FloatArithmetic DEF Zoom, zoomIn, zoomOut
    <3> QED  BY <2>4, <3>3 DEF Zoom, zoomIn, zoomOut, Frame
  <2>5. CASE Nearest
    BY <2>5 DEF Nearest, toLeftNearest, toRightNearest, ToNearest, Frame
  <2>6. CASE UNCHANGED vars  BY <2>6 DEF vars
  <2> QED  BY <2>1, <2>2, <2>3, <2>4, <2>5, <2>6 DEF Next, Place
<1> QED  BY <1>1, <1>2, PTL DEF Spec

----------------------------------------------------------------------------
(* The ranges and what reset() derived hold together: a clamp keeps the    *)
(* distance in its range only because the range is one of numbers, which   *)
(* it is because init() gave target and camera their values first.         *)
OrbitInv == TypeOK /\ RangesKept /\ Coherent

(* What reset() derives from two points, as integers.                      *)
LEMMA ResetIntegers ==
  ASSUME NEW t \in Int, NEW c \in Int
  PROVE  /\ Length(t - c) \in Nat
         /\ Length(Minus(t, c)) = Length(t - c)
         /\ Normalize(Minus(t, c)) = Normalize(t - c)
         /\ Minus(Length(t - c), DistSpan) = Length(t - c) - DistSpan
         /\ Plus(Length(t - c), DistSpan) = Length(t - c) + DistSpan
         /\ Minus(0, t) = -t
<1>1. Minus(t, c) = t - c /\ t - c \in Int /\ Minus(0, t) = 0 - t
  BY IntegerArithmetic
<1>2. Length(t - c) \in Nat  BY <1>1 DEF Length
<1>3. Length(t - c) \in Int /\ DistSpan \in Int  BY <1>2
<1>4. /\ Minus(Length(t - c), DistSpan) = Length(t - c) - DistSpan
      /\ Plus(Length(t - c), DistSpan) = Length(t - c) + DistSpan
  BY <1>3, IntegerArithmetic
<1> QED  BY <1>1, <1>2, <1>4

(* Resetting to two points establishes the invariant.                      *)
LEMMA ResetCoherent ==
  ASSUME NEW t \in Int, NEW c \in Int, ResetTo(t, c), target' = t, camera' = c
  PROVE  dist' \in distRange'[1] .. distRange'[2] /\ Coherent'
<1>1. dist' = Length(t - c) /\ dist' \in Nat
  BY ResetIntegers DEF ResetTo
<1>2. distRange' = <<dist' - DistSpan, dist' + DistSpan>>
  BY <1>1, ResetIntegers DEF ResetTo
<1>3. perDistTranslate' = Normalize(t - c) /\ preTranslate' = -t
  BY ResetIntegers DEF ResetTo
<1> QED  BY <1>1, <1>2, <1>3 DEF Coherent

(* Every step keeps the invariant.                                         *)
LEMMA OrbitInvStep == OrbitInv /\ TypeOK' /\ [Next]_vars => OrbitInv'
<1> SUFFICES ASSUME OrbitInv, TypeOK', [Next]_vars PROVE RangesKept' /\ Coherent'
  BY DEF OrbitInv
<1> USE DEF OrbitInv
<1>1. ASSUME NEW t \in Points, NEW c \in Points, init(t, c)
      PROVE  RangesKept' /\ Coherent'
  <2>1. t \in Int /\ c \in Int  OBVIOUS
  <2>2. target' = t /\ camera' = c /\ ResetTo(t, c)  BY <1>1 DEF init
  <2>3. dist' \in distRange'[1] .. distRange'[2] /\ Coherent'
    BY <2>1, <2>2, ResetCoherent
  <2>4. pitch' = 0 /\ yaw' = 0  BY <1>1 DEF init, ResetTo
  <2> QED  BY <2>3, <2>4 DEF RangesKept
<1>2. CASE reset
  <2>1. isInitted => dist' \in distRange'[1] .. distRange'[2] /\ Coherent'
    BY <1>2, ResetCoherent DEF reset, Coherent
  <2>2. pitch' = 0 /\ yaw' = 0 /\ isInitted' = isInitted
    BY <1>2 DEF reset, ResetTo
  <2> QED  BY <2>1, <2>2 DEF RangesKept, Coherent
<1>3. CASE Rotate
  <2>1. Coherent'  BY <1>3 DEF Rotate, rotateLeft, rotateRight, rotateUp,
                               rotateDown, Frame, Coherent
  <2>2. pitch' \in -PitchLimit .. PitchLimit /\ yaw' \in -YawLimit .. YawLimit
    <3>1. pitch \in -PitchLimit .. PitchLimit /\ yaw \in -YawLimit .. YawLimit
      BY DEF RangesKept
    <3>2. CASE rotateLeft
      <4>1. \A y \in Rounded(yaw - YawVelocity) : AtLeast(y, -YawLimit) \in -YawLimit .. YawLimit
        BY <3>1, ClampedStep
      <4> QED  BY <3>1, <3>2, <4>1 DEF rotateLeft
    <3>3. CASE rotateRight
      <4>1. \A y \in Rounded(yaw + YawVelocity) : AtMost(y, YawLimit) \in -YawLimit .. YawLimit
        BY <3>1, ClampedStep
      <4> QED  BY <3>1, <3>3, <4>1 DEF rotateRight
    <3>4. CASE rotateUp
      <4>1. \A y \in Rounded(pitch - PitchVelocity) : AtLeast(y, -PitchLimit) \in -PitchLimit .. PitchLimit
        BY <3>1, ClampedStep
      <4> QED  BY <3>1, <3>4, <4>1 DEF rotateUp
    <3>5. CASE rotateDown
      <4>1. \A y \in Rounded(pitch + PitchVelocity) : AtMost(y, PitchLimit) \in -PitchLimit .. PitchLimit
        BY <3>1, ClampedStep
      <4> QED  BY <3>1, <3>5, <4>1 DEF rotateDown
    <3> QED  BY <1>3, <3>2, <3>3, <3>4, <3>5 DEF Rotate
  <2>3. UNCHANGED <<isInitted, dist, distRange>>
    BY <1>3 DEF Rotate, rotateLeft, rotateRight, rotateUp, rotateDown, Frame
  <2> QED  BY <2>1, <2>2, <2>3 DEF RangesKept
<1>4. CASE Zoom
  <2>1. UNCHANGED <<isInitted, pitch, yaw, distRange, target, camera,
                    perDistTranslate, preTranslate>>
    BY <1>4 DEF Zoom, zoomIn, zoomOut, Frame
  <2>2. ASSUME isInitted PROVE dist' \in distRange[1] .. distRange[2]
    <3>1. /\ dist \in Int /\ distRange[1] \in Int /\ distRange[2] \in Int
          /\ distRange[1] <= dist /\ dist <= distRange[2]
      <4>1. Length(target - camera) \in Nat  BY <2>2, ResetIntegers DEF Coherent
      <4> QED  BY <2>2, <4>1 DEF Coherent, RangesKept
    <3>2. CASE zoomIn
      <4>1. Minus(dist, DistVelocity) = dist - DistVelocity /\ dist - DistVelocity \in Int
        BY <3>1, IntegerArithmetic
      <4>2. dist' \in {dist - DistVelocity, distRange[1]} /\ dist' >= distRange[1]
        BY <3>1, <3>2, <4>1, Clamp DEF zoomIn
      <4> QED  BY <3>1, <4>2
    <3>3. CASE zoomOut
      <4>1. Plus(dist, DistVelocity) = dist + DistVelocity /\ dist + DistVelocity \in Int
        BY <3>1, IntegerArithmetic
      <4>2. dist' \in {dist + DistVelocity, distRange[2]} /\ dist' <= distRange[2]
        BY <3>1, <3>3, <4>1, Clamp DEF zoomOut
      <4> QED  BY <3>1, <4>2
    <3> QED  BY <1>4, <3>2, <3>3 DEF Zoom
  <2> QED  BY <2>1, <2>2 DEF RangesKept, Coherent
<1>5. CASE Nearest
  <2>1. UNCHANGED <<isInitted, distRange, target, camera,
                    perDistTranslate, preTranslate>>
        /\ pitch' = 0 /\ yaw' \in {-Side, Side} /\ dist' = distRange[1]
    BY <1>5 DEF Nearest, toLeftNearest, toRightNearest, ToNearest, Frame
  <2>2. ASSUME isInitted PROVE distRange[1] \in distRange[1] .. distRange[2]
    <3>1. Length(target - camera) \in Nat  BY <2>2, ResetIntegers DEF Coherent
    <3> QED  BY <2>2, <3>1 DEF Coherent
  <2> QED  BY <2>1, <2>2 DEF RangesKept, Coherent
<1>6. CASE UNCHANGED vars  BY <1>6 DEF vars, RangesKept, Coherent
<1> QED  BY <1>1, <1>2, <1>3, <1>4, <1>5, <1>6 DEF Next, Place

LEMMA OrbitInvHolds == Spec => []OrbitInv
<1>1. Init /\ TypeOK => OrbitInv
  BY DEF Init, OrbitInv, RangesKept, Coherent
<1> QED  BY <1>1, OrbitInvStep, TypeCorrect, PTL DEF Spec

(* No gesture leaves a range.                                              *)
THEOREM RangesAlwaysKept == Spec => []RangesKept
<1>1. OrbitInv => RangesKept  BY DEF OrbitInv
<1> QED  BY <1>1, OrbitInvHolds, PTL

(* What reset() derived is always that of the present target and camera.   *)
THEOREM AlwaysCoherent == Spec => []Coherent
<1>1. OrbitInv => Coherent  BY DEF OrbitInv
<1> QED  BY <1>1, OrbitInvHolds, PTL

(* The camera stays on its side of a target that is far enough away.       *)
THEOREM SideAlwaysKept == Spec => []KeepsSide
<1>1. OrbitInv => KeepsSide
  <2> SUFFICES ASSUME OrbitInv, isInitted, target # camera,
                      Length(target - camera) >= DistSpan
               PROVE  translateVector * (target - camera) >= 0
    BY DEF KeepsSide
  <2>1. target \in Int /\ camera \in Int  BY DEF OrbitInv, Coherent
  <2> DEFINE d == target - camera
  <2>2. d \in Int /\ d # 0  BY <2>1
  <2>3. dist \in Nat
    BY <2>1 DEF OrbitInv, RangesKept, Coherent, Length
  <2>4. \/ d > 0 /\ perDistTranslate = 1
        \/ d < 0 /\ perDistTranslate = -1
    BY <2>1, <2>2 DEF OrbitInv, Coherent, Normalize
  <2>5. translateVector = dist * perDistTranslate
    BY <2>3, <2>4 DEF translateVector
  <2> QED  BY <2>2, <2>3, <2>4, <2>5
<1> QED  BY <1>1, OrbitInvHolds, PTL

----------------------------------------------------------------------------
(* OrbitView                                                               *)

(* Places and ways on the line, as points and vectors of space.            *)
LEMMA LinePlaces ==
  ASSUME NEW k \in Int
  PROVE  /\ Along(k) = <<Along(k)[1], Along(k)[2], Along(k)[3]>>
         /\ At(k) = <<At(k)[1], At(k)[2], At(k)[3]>>
         /\ \A i \in 1 .. 3 :
              /\ Line[i] \in Fractions /\ Base[i] \in Fractions
              /\ Along(k)[i] = Q(k) \otimes Line[i] /\ Along(k)[i] \in Fractions
              /\ At(k)[i] = Base[i] \oplus Along(k)[i] /\ At(k)[i] \in Fractions
              /\ Scaled(Q(-1), At(k))[i] = Negative(At(k)[i])
<1>1. DOMAIN Line = 1 .. 3 /\ \A i \in 1 .. 3 : Line[i] \in Fractions /\ Base[i] \in Fractions
  BY LineAssumption
<1>2. /\ Along(k) = [i \in 1 .. 3 |-> Along(k)[i]]
      /\ \A i \in 1 .. 3 : Along(k)[i] = Q(k) \otimes Line[i]
  BY <1>1 DEF Along, Scaled
<1>3. /\ At(k) = [i \in 1 .. 3 |-> At(k)[i]]
      /\ \A i \in 1 .. 3 : At(k)[i] = Base[i] \oplus Along(k)[i]
      /\ DOMAIN At(k) = 1 .. 3
  BY DEF At
<1>4. Q(k) \in Fractions  BY Closed
<1>5. ASSUME NEW i \in 1 .. 3
      PROVE  Along(k)[i] \in Fractions /\ At(k)[i] \in Fractions
  <2>1. Along(k)[i] \in Fractions  BY <1>1, <1>2, <1>4, Closed
  <2>2. At(k)[i] = Base[i] \oplus Along(k)[i] /\ Base[i] \in Fractions  BY <1>1, <1>3
  <2>3. Base[i] \oplus Along(k)[i] \in Fractions
    <3> DEFINE p == Base[i]
               q == Along(k)[i]
    <3>1. p \in Fractions /\ q \in Fractions  BY <2>1, <2>2, Zenon
    <3> HIDE DEF p, q
    <3>2. p \oplus q \in Fractions  BY <3>1, Closed
    <3> QED  BY <3>2 DEF p, q
  <2> QED  BY <2>1, <2>2, <2>3, Zenon
<1>6. ASSUME NEW i \in 1 .. 3 PROVE Scaled(Q(-1), At(k))[i] = Negative(At(k)[i])
  <2>1. Scaled(Q(-1), At(k))[i] = Q(-1) \otimes At(k)[i]  BY <1>3 DEF Scaled
  <2> QED  BY <1>5, <2>1, MinusOne, Zenon
<1>7. Along(k) = <<Along(k)[1], Along(k)[2], Along(k)[3]>>  BY <1>2, Triple, Zenon
<1>8. At(k) = <<At(k)[1], At(k)[2], At(k)[3]>>  BY <1>3, Triple, Zenon
<1> QED  BY <1>1, <1>2, <1>3, <1>5, <1>6, <1>7, <1>8

(* The view, its rotation worked out.                                      *)
LEMMA ViewIs ==
  ASSUME OrbitInv, HasView
  PROVE  /\ IsAngle(AngleOf[pitch]) /\ IsAngle(AngleOf[yaw])
         /\ target \in Int /\ camera \in Int /\ translateVector \in Int
         /\ translateVector = dist * Normalize(target - camera)
         /\ getTransform =
              Product(Product(matrix_float4x4_translation(Along(translateVector)),
                              PitchedYaw(AngleOf[pitch], AngleOf[yaw])),
                      matrix_float4x4_translation(Scaled(Q(-1), At(target))))
<1>1. /\ pitch \in -PitchLimit .. PitchLimit /\ yaw \in -YawLimit .. YawLimit
      /\ dist \in distRange[1] .. distRange[2]
      /\ distRange = <<Length(target - camera) - DistSpan, Length(target - camera) + DistSpan>>
      /\ target \in Int /\ camera \in Int
      /\ perDistTranslate = Normalize(target - camera)
      /\ isInitted /\ perDistTranslate # NaN
      /\ -preTranslate = target
  BY DEF OrbitInv, RangesKept, Coherent, HasView
<1>2. IsAngle(AngleOf[pitch]) /\ IsAngle(AngleOf[yaw])
  BY <1>1, AngleOfAssumption
<1>3. translateVector \in Int /\ translateVector = dist * Normalize(target - camera)
  <2>1. perDistTranslate \in {-1, 1}  BY <1>1 DEF OrbitInv, TypeOK
  <2>2. dist \in Int  BY <1>1
  <2> QED  BY <1>1, <2>1, <2>2, NaNAssumption DEF translateVector
<1>4. rotation[pitch][yaw] = PitchedYaw(AngleOf[pitch], AngleOf[yaw])
  <2>1. rotation[pitch][yaw] = Product(rotationYaw(pitch, yaw), rotationPitch(pitch))
    BY <1>1 DEF rotation
  <2> DEFINE R == matrix_float4x4_rotation(xAxis, AngleOf[pitch])
             up == Apply(R, <<Zero, One, Zero, One>>)
  <2>2. Product(matrix_float4x4_rotation(<<up[1], up[2], up[3]>>, AngleOf[yaw]), R) =
          PitchedYaw(AngleOf[pitch], AngleOf[yaw])
    BY <1>2, OrbitRotation, Zenon
  <2>3. rotationPitch(pitch) = R  BY Zenon DEF rotationPitch, axisX, xAxis
  <2>4. upAxisY(pitch) = <<up[1], up[2], up[3]>>
    BY <2>3, Zenon DEF upAxisY, axisY4
  <2>5. rotationYaw(pitch, yaw) =
          matrix_float4x4_rotation(<<up[1], up[2], up[3]>>, AngleOf[yaw])
    BY <2>4, Zenon DEF rotationYaw
  <2> QED  BY <2>1, <2>2, <2>3, <2>5, Zenon
<1>5. getTransform =
        Product(Product(matrix_float4x4_translation(Along(translateVector)),
                        rotation[pitch][yaw]),
                preTranslateMatrix)
  BY <1>1, Zenon DEF getTransform
<1> QED  BY <1>1, <1>2, <1>3, <1>4, <1>5, Zenon DEF preTranslateMatrix

(* The view, entry by entry.                                               *)
LEMMA ViewMatrix ==
  ASSUME OrbitInv, HasView
  PROVE  LET a == AngleOf[pitch]
             b == AngleOf[yaw]
             v == Along(translateVector)
             g == Scaled(Q(-1), At(target))
         IN  getTransform =
               <<<<b[1], a[2] \otimes b[2], a[1] \otimes b[2], Zero>>,
                 <<Zero, a[1], Negative(a[2]), Zero>>,
                 <<Negative(b[2]), a[2] \otimes b[1], a[1] \otimes b[1], Zero>>,
                 <<(((b[1] \otimes g[1]) \oplus (Zero \otimes g[2]))
                      \oplus (Negative(b[2]) \otimes g[3])) \oplus v[1],
                   ((((a[2] \otimes b[2]) \otimes g[1]) \oplus (a[1] \otimes g[2]))
                      \oplus ((a[2] \otimes b[1]) \otimes g[3])) \oplus v[2],
                   ((((a[1] \otimes b[2]) \otimes g[1]) \oplus (Negative(a[2]) \otimes g[2]))
                      \oplus ((a[1] \otimes b[1]) \otimes g[3])) \oplus v[3],
                   One>>>>
<1> DEFINE a == AngleOf[pitch]
           b == AngleOf[yaw]
           p == a[1]
           t == a[2]
           c == b[1]
           s == b[2]
           v == Along(translateVector)
           g == Scaled(Q(-1), At(target))
<1>1. p \in Fractions /\ t \in Fractions /\ c \in Fractions /\ s \in Fractions
  BY ViewIs DEF IsAngle
<1>2. /\ t \otimes s \in Fractions /\ p \otimes s \in Fractions
      /\ t \otimes c \in Fractions /\ p \otimes c \in Fractions
      /\ Negative(t) \in Fractions /\ Negative(s) \in Fractions /\ Zero \in Fractions
  BY <1>1, Closed
<1>3. /\ v[1] \in Fractions /\ v[2] \in Fractions /\ v[3] \in Fractions
      /\ g[1] \in Fractions /\ g[2] \in Fractions /\ g[3] \in Fractions
  <2>1. target \in Int /\ translateVector \in Int  BY ViewIs
  <2> QED  BY <2>1, LinePlaces, Closed
<1> DEFINE R == PitchedYaw(a, b)
<1>4. getTransform = Product(Product(matrix_float4x4_translation(v), R),
                             matrix_float4x4_translation(g))
  BY ViewIs, Zenon
<1>5. /\ R[1][1] = c /\ R[1][2] = t \otimes s /\ R[1][3] = p \otimes s
      /\ R[2][1] = Zero /\ R[2][2] = p /\ R[2][3] = Negative(t)
      /\ R[3][1] = Negative(s) /\ R[3][2] = t \otimes c /\ R[3][3] = p \otimes c
      /\ R = <<<<R[1][1], R[1][2], R[1][3], Zero>>, <<R[2][1], R[2][2], R[2][3], Zero>>,
               <<R[3][1], R[3][2], R[3][3], Zero>>, <<Zero, Zero, Zero, One>>>>
  BY DEF PitchedYaw
<1> HIDE DEF p, t, c, s, v, g, R
<1>6. Central(R)
  <2>1. \A j, i \in 1 .. 3 : R[j][i] \in Fractions  BY <1>1, <1>2, <1>5
  <2> QED  BY <1>5, <2>1 DEF Central
<1>7. getTransform =
        <<<<R[1][1], R[1][2], R[1][3], Zero>>, <<R[2][1], R[2][2], R[2][3], Zero>>,
          <<R[3][1], R[3][2], R[3][3], Zero>>,
          <<(((R[1][1] \otimes g[1]) \oplus (R[2][1] \otimes g[2]))
               \oplus (R[3][1] \otimes g[3])) \oplus v[1],
            (((R[1][2] \otimes g[1]) \oplus (R[2][2] \otimes g[2]))
               \oplus (R[3][2] \otimes g[3])) \oplus v[2],
            (((R[1][3] \otimes g[1]) \oplus (R[2][3] \otimes g[2]))
               \oplus (R[3][3] \otimes g[3])) \oplus v[3],
            One>>>>
  BY <1>3, <1>4, <1>6, Between, Zenon
<1>8. getTransform =
        <<<<c, t \otimes s, p \otimes s, Zero>>, <<Zero, p, Negative(t), Zero>>,
          <<Negative(s), t \otimes c, p \otimes c, Zero>>,
          <<(((c \otimes g[1]) \oplus (Zero \otimes g[2]))
               \oplus (Negative(s) \otimes g[3])) \oplus v[1],
            ((((t \otimes s) \otimes g[1]) \oplus (p \otimes g[2]))
               \oplus ((t \otimes c) \otimes g[3])) \oplus v[2],
            ((((p \otimes s) \otimes g[1]) \oplus (Negative(t) \otimes g[2]))
               \oplus ((p \otimes c) \otimes g[3])) \oplus v[3],
            One>>>>
  BY <1>5, <1>7
<1> QED  BY <1>8, Zenon DEF p, t, c, s, v, g

(* However it is turned, the view is rigid and level.                      *)
LEMMA OrbitInvSteady == OrbitInv => Steady
<1> SUFFICES ASSUME OrbitInv, HasView PROVE Rigid /\ NoRoll
  BY DEF Steady, Rigid, NoRoll
<1> DEFINE a == AngleOf[pitch]
           b == AngleOf[yaw]
           x == <<b[1], a[2] \otimes b[2], a[1] \otimes b[2]>>
           y == <<Zero, a[1], Negative(a[2])>>
           z == <<Negative(b[2]), a[2] \otimes b[1], a[1] \otimes b[1]>>
           axes == Turned(getTransform)
<1>1. axes[1] = x /\ axes[2] = y /\ axes[3] = z
  BY ViewMatrix DEF Turned, matrix_transform_extract
<1>2. IsAngle(a) /\ IsAngle(b)  BY ViewIs
<1>3. /\ Dot(x, x) = One /\ Dot(y, y) = One /\ Dot(z, z) = One
      /\ Dot(x, y) = Zero /\ Dot(y, x) = Zero
      /\ Dot(x, z) = Zero /\ Dot(z, x) = Zero
      /\ Dot(y, z) = Zero /\ Dot(z, y) = Zero
      /\ z = Cross(x, y)
  BY <1>2, PitchedYawIsRigid, Zenon
<1>4. y[1] = Zero  OBVIOUS
<1> HIDE DEF a, b, x, y, z, axes
<1>5. /\ \A i, j \in 1 .. 3 : Dot(axes[i], axes[j]) = IF i = j THEN One ELSE Zero
      /\ axes[3] = Cross(axes[1], axes[2]) /\ axes[2][1] = Zero
  BY <1>1, <1>3, <1>4
<1> QED  BY <1>5 DEF Rigid, NoRoll, axes

(* Whatever the gestures, the matrix of getTransform never deforms the     *)
(* picture or tips it over, for every unit direction of the line and every *)
(* table of angles.                                                        *)
THEOREM AlwaysSteady == Spec => []Steady
BY OrbitInvSteady, OrbitInvHolds, PTL

(* Turned and turned back, only the translation is left.                   *)
LEMMA SumUndone ==
  ASSUME NEW x \in Fractions, NEW y \in Fractions, NEW z \in Fractions, NEW v \in Fractions
  PROVE  ((x \oplus y) \oplus z) \oplus
           ((((Negative(x) \oplus Negative(y)) \oplus Negative(z)) \oplus v) \otimes One) = v
<1>1. PICK k, l, m, n \in Int, d \in Nat \ {0} :
        Is(x, k, d) /\ Is(y, l, d) /\ Is(z, m, d) /\ Is(v, n, d)
  BY Common4
<1> DEFINE w == ((Negative(x) \oplus Negative(y)) \oplus Negative(z)) \oplus v
<1>2. Is(w, (((-k) + (-l)) + (-m)) + n, d)
  BY <1>1, NegativeIs, SumIs, Zenon
<1>3. w \in Fractions  BY <1>2 DEF Is
<1>4. w \otimes One = w  BY <1>3, NeutralLaws
<1>5. Is(((x \oplus y) \oplus z) \oplus w, ((k + l) + m) + ((((-k) + (-l)) + (-m)) + n), d)
  BY <1>1, <1>2, SumIs, Zenon
<1>6. ((k + l) + m) + ((((-k) + (-l)) + (-m)) + n) = n  OBVIOUS
<1>7. ((x \oplus y) \oplus z) \oplus w = v  BY <1>1, <1>5, <1>6, SameIs, Zenon
<1> QED  BY <1>4, <1>7, Zenon

(* A negative factor.                                                      *)
LEMMA NegativeProduct ==
  ASSUME NEW a \in Fractions, NEW p \in Fractions
  PROVE  a \otimes p \in Fractions /\ a \otimes Negative(p) = Negative(a \otimes p)
BY Closed, ProductLaws

(* From one place of the line to another and back to the origin.           *)
LEMMA WayBack ==
  ASSUME NEW b \in Fractions, NEW l \in Fractions, NEW t \in Int, NEW c \in Int
  PROVE  (b \oplus (Q(c) \otimes l)) \oplus
           (Negative(b \oplus (Q(t) \otimes l)) \oplus (Q(t - c) \otimes l)) = Zero
<1>1. PICK x \in Int, y \in Int, z \in Int, d \in Nat \ {0} :
        Is(b, x, d) /\ Is(l, y, d) /\ Is(b, z, d)
  BY Common
<1>2. ASSUME NEW k \in Int PROVE Is(Q(k) \otimes l, k * y, d)
  <2>1. Is(Q(k), k * 1, 1)  BY WholeIs
  <2>2. Is(Q(k) \otimes l, (k * 1) * y, 1 * d)  BY <1>1, <2>1, ProductIs, Zenon
  <2>3. (k * 1) * y = k * y /\ 1 * d = d  OBVIOUS
  <2> QED  BY <2>2, <2>3, Zenon
<1>3. t - c \in Int  OBVIOUS
<1>4. /\ Is(b \oplus (Q(c) \otimes l), x + c * y, d)
      /\ Is(Negative(b \oplus (Q(t) \otimes l)) \oplus (Q(t - c) \otimes l),
            -(x + t * y) + (t - c) * y, d)
  BY <1>1, <1>2, <1>3, SumIs, NegativeIs, Zenon
<1>5. Is((b \oplus (Q(c) \otimes l)) \oplus
           (Negative(b \oplus (Q(t) \otimes l)) \oplus (Q(t - c) \otimes l)),
         (x + c * y) + (-(x + t * y) + (t - c) * y), d)
  BY <1>4, SumIs, Zenon
<1>6. (x + c * y) + (-(x + t * y) + (t - c) * y) = 0  OBVIOUS
<1>7. Is(Zero, 0, d)  BY ZeroIs
<1> QED  BY <1>5, <1>6, <1>7, SameIs, Zenon

(* Where a matrix with a last column shows a point.                        *)
LEMMA SeenAt ==
  ASSUME NEW a1, NEW a2, NEW a3, NEW b1, NEW b2, NEW b3, NEW c1, NEW c2, NEW c3,
         NEW w1, NEW w2, NEW w3, NEW p
  PROVE  Seen(<<<<a1, a2, a3, Zero>>, <<b1, b2, b3, Zero>>, <<c1, c2, c3, Zero>>,
                <<w1, w2, w3, One>>>>, p) =
           <<(((a1 \otimes p[1]) \oplus (b1 \otimes p[2])) \oplus (c1 \otimes p[3]))
               \oplus (w1 \otimes One),
             (((a2 \otimes p[1]) \oplus (b2 \otimes p[2])) \oplus (c2 \otimes p[3]))
               \oplus (w2 \otimes One),
             (((a3 \otimes p[1]) \oplus (b3 \otimes p[2])) \oplus (c3 \otimes p[3]))
               \oplus (w3 \otimes One)>>
<1> DEFINE x == p[1]
           y == p[2]
           z == p[3]
           M == <<<<a1, a2, a3, Zero>>, <<b1, b2, b3, Zero>>, <<c1, c2, c3, Zero>>,
                  <<w1, w2, w3, One>>>>
           q == Apply(M, <<x, y, z, One>>)
<1> HIDE DEF x, y, z
<1>1. /\ q[1] = (((a1 \otimes x) \oplus (b1 \otimes y)) \oplus (c1 \otimes z)) \oplus (w1 \otimes One)
      /\ q[2] = (((a2 \otimes x) \oplus (b2 \otimes y)) \oplus (c2 \otimes z)) \oplus (w2 \otimes One)
      /\ q[3] = (((a3 \otimes x) \oplus (b3 \otimes y)) \oplus (c3 \otimes z)) \oplus (w3 \otimes One)
  BY Apply4
<1>2. Seen(M, p) = <<q[1], q[2], q[3]>>  BY Zenon DEF Seen, x, y, z
<1> HIDE DEF M, q
<1>3. Seen(M, p) =
        <<(((a1 \otimes x) \oplus (b1 \otimes y)) \oplus (c1 \otimes z)) \oplus (w1 \otimes One),
          (((a2 \otimes x) \oplus (b2 \otimes y)) \oplus (c2 \otimes z)) \oplus (w2 \otimes One),
          (((a3 \otimes x) \oplus (b3 \otimes y)) \oplus (c3 \otimes z)) \oplus (w3 \otimes One)>>
  BY <1>1, <1>2
<1> QED  BY <1>3, Zenon DEF M, x, y, z

(* The target stays where it was seen from the camera.                     *)
LEMMA TargetSeen ==
  ASSUME OrbitInv, HasView
  PROVE  Seen(getTransform, At(target)) = Along(translateVector)
<1> DEFINE a == AngleOf[pitch]
           b == AngleOf[yaw]
           p == a[1]
           t == a[2]
           c == b[1]
           s == b[2]
           ts == t \otimes s
           ps == p \otimes s
           tc == t \otimes c
           pc == p \otimes c
           nt == Negative(t)
           ns == Negative(s)
           v == Along(translateVector)
           o == At(target)
           g == Scaled(Q(-1), o)
           w1 == (((c \otimes g[1]) \oplus (Zero \otimes g[2])) \oplus (ns \otimes g[3])) \oplus v[1]
           w2 == (((ts \otimes g[1]) \oplus (p \otimes g[2])) \oplus (tc \otimes g[3])) \oplus v[2]
           w3 == (((ps \otimes g[1]) \oplus (nt \otimes g[2])) \oplus (pc \otimes g[3])) \oplus v[3]
           M == <<<<c, ts, ps, Zero>>, <<Zero, p, nt, Zero>>, <<ns, tc, pc, Zero>>,
                  <<w1, w2, w3, One>>>>
<1>1. p \in Fractions /\ t \in Fractions /\ c \in Fractions /\ s \in Fractions
  BY ViewIs DEF IsAngle
<1>2. /\ ts \in Fractions /\ ps \in Fractions /\ tc \in Fractions /\ pc \in Fractions
      /\ nt \in Fractions /\ ns \in Fractions /\ Zero \in Fractions
  BY <1>1, Closed
<1>3. /\ v[1] \in Fractions /\ v[2] \in Fractions /\ v[3] \in Fractions
      /\ o[1] \in Fractions /\ o[2] \in Fractions /\ o[3] \in Fractions
      /\ g[1] = Negative(o[1]) /\ g[2] = Negative(o[2]) /\ g[3] = Negative(o[3])
      /\ v = <<v[1], v[2], v[3]>>
  <2>1. target \in Int /\ translateVector \in Int  BY ViewIs
  <2> QED  BY <2>1, LinePlaces
<1>4. getTransform = M  BY ViewMatrix, Zenon
<1> HIDE DEF p, t, c, s, ts, ps, tc, pc, nt, ns, v, o, g
<1>5. /\ (((c \otimes o[1]) \oplus (Zero \otimes o[2])) \oplus (ns \otimes o[3]))
           \oplus (w1 \otimes One) = v[1]
      /\ (((ts \otimes o[1]) \oplus (p \otimes o[2])) \oplus (tc \otimes o[3]))
           \oplus (w2 \otimes One) = v[2]
      /\ (((ps \otimes o[1]) \oplus (nt \otimes o[2])) \oplus (pc \otimes o[3]))
           \oplus (w3 \otimes One) = v[3]
  <2> DEFINE o1 == o[1]
             o2 == o[2]
             o3 == o[3]
             v1 == v[1]
             v2 == v[2]
             v3 == v[3]
  <2>1. /\ o1 \in Fractions /\ o2 \in Fractions /\ o3 \in Fractions
        /\ v1 \in Fractions /\ v2 \in Fractions /\ v3 \in Fractions
    BY <1>3
  <2>2. /\ g[1] = Negative(o1) /\ g[2] = Negative(o2) /\ g[3] = Negative(o3)
        /\ v[1] = v1 /\ v[2] = v2 /\ v[3] = v3
    BY <1>3
  <2> HIDE DEF o1, o2, o3, v1, v2, v3
  <2>3. (((c \otimes o1) \oplus (Zero \otimes o2)) \oplus (ns \otimes o3))
          \oplus (w1 \otimes One) = v1
    <3> DEFINE x == c \otimes o1
               y == Zero \otimes o2
               z == ns \otimes o3
    <3>1. /\ x \in Fractions /\ y \in Fractions /\ z \in Fractions
          /\ c \otimes g[1] = Negative(x) /\ Zero \otimes g[2] = Negative(y)
          /\ ns \otimes g[3] = Negative(z)
      BY <1>1, <1>2, <2>1, <2>2, NegativeProduct
    <3>2. w1 = ((Negative(x) \oplus Negative(y)) \oplus Negative(z)) \oplus v1
      BY <2>2, <3>1
    <3> HIDE DEF x, y, z, w1
    <3>3. ((x \oplus y) \oplus z) \oplus (w1 \otimes One) = v1
      BY <2>1, <3>1, <3>2, SumUndone
    <3> QED  BY <3>3 DEF x, y, z
  <2>4. (((ts \otimes o1) \oplus (p \otimes o2)) \oplus (tc \otimes o3))
          \oplus (w2 \otimes One) = v2
    <3> DEFINE x == ts \otimes o1
               y == p \otimes o2
               z == tc \otimes o3
    <3>1. /\ x \in Fractions /\ y \in Fractions /\ z \in Fractions
          /\ ts \otimes g[1] = Negative(x) /\ p \otimes g[2] = Negative(y)
          /\ tc \otimes g[3] = Negative(z)
      BY <1>1, <1>2, <2>1, <2>2, NegativeProduct
    <3>2. w2 = ((Negative(x) \oplus Negative(y)) \oplus Negative(z)) \oplus v2
      BY <2>2, <3>1
    <3> HIDE DEF x, y, z, w2
    <3>3. ((x \oplus y) \oplus z) \oplus (w2 \otimes One) = v2
      BY <2>1, <3>1, <3>2, SumUndone
    <3> QED  BY <3>3 DEF x, y, z
  <2>5. (((ps \otimes o1) \oplus (nt \otimes o2)) \oplus (pc \otimes o3))
          \oplus (w3 \otimes One) = v3
    <3> DEFINE x == ps \otimes o1
               y == nt \otimes o2
               z == pc \otimes o3
    <3>1. /\ x \in Fractions /\ y \in Fractions /\ z \in Fractions
          /\ ps \otimes g[1] = Negative(x) /\ nt \otimes g[2] = Negative(y)
          /\ pc \otimes g[3] = Negative(z)
      BY <1>1, <1>2, <2>1, <2>2, NegativeProduct
    <3>2. w3 = ((Negative(x) \oplus Negative(y)) \oplus Negative(z)) \oplus v3
      BY <2>2, <3>1
    <3> HIDE DEF x, y, z, w3
    <3>3. ((x \oplus y) \oplus z) \oplus (w3 \otimes One) = v3
      BY <2>1, <3>1, <3>2, SumUndone
    <3> QED  BY <3>3 DEF x, y, z
  <2> QED  BY <2>3, <2>4, <2>5 DEF o1, o2, o3, v1, v2, v3
<1> HIDE DEF w1, w2, w3
<1>6. Seen(M, o) =
        <<(((c \otimes o[1]) \oplus (Zero \otimes o[2])) \oplus (ns \otimes o[3]))
            \oplus (w1 \otimes One),
          (((ts \otimes o[1]) \oplus (p \otimes o[2])) \oplus (tc \otimes o[3]))
            \oplus (w2 \otimes One),
          (((ps \otimes o[1]) \oplus (nt \otimes o[2])) \oplus (pc \otimes o[3]))
            \oplus (w3 \otimes One)>>
  BY SeenAt
<1> HIDE DEF M
<1>7. Seen(getTransform, o) = v  BY <1>3, <1>4, <1>5, <1>6
<1> QED  BY <1>7 DEF o, v

(* Straight ahead, and as far away as it was placed, the camera is at the  *)
(* origin.                                                                 *)
LEMMA CameraSeen ==
  ASSUME OrbitInv, HasView, pitch = 0, yaw = 0, dist = Length(target - camera)
  PROVE  Seen(getTransform, At(camera)) = <<Zero, Zero, Zero>>
<1> DEFINE v == Along(translateVector)
           o == At(camera)
           g == Scaled(Q(-1), At(target))
           w1 == (((One \otimes g[1]) \oplus (Zero \otimes g[2])) \oplus (Zero \otimes g[3]))
                   \oplus v[1]
           w2 == (((Zero \otimes g[1]) \oplus (One \otimes g[2])) \oplus (Zero \otimes g[3]))
                   \oplus v[2]
           w3 == (((Zero \otimes g[1]) \oplus (Zero \otimes g[2])) \oplus (One \otimes g[3]))
                   \oplus v[3]
           M == <<<<One, Zero, Zero, Zero>>, <<Zero, One, Zero, Zero>>,
                  <<Zero, Zero, One, Zero>>, <<w1, w2, w3, One>>>>
<1>1. target \in Int /\ camera \in Int /\ translateVector = target - camera
  <2>1. /\ target \in Int /\ camera \in Int
        /\ translateVector = Length(target - camera) * Normalize(target - camera)
    BY ViewIs
  <2>2. target - camera \in Int /\ target - camera # NaN  BY <2>1, NaNAssumption
  <2>3. target - camera # 0
    BY <2>1 DEF HasView, OrbitInv, Coherent, Normalize
  <2> QED  BY <2>1, <2>2, <2>3 DEF Length, Normalize
<1>2. \A i \in 1 .. 3 :
        /\ Line[i] \in Fractions /\ Base[i] \in Fractions
        /\ v[i] \in Fractions /\ o[i] \in Fractions /\ g[i] \in Fractions
        /\ o[i] \oplus (g[i] \oplus v[i]) = Zero
  <2> SUFFICES ASSUME NEW i \in 1 .. 3
               PROVE  /\ Line[i] \in Fractions /\ Base[i] \in Fractions
                      /\ v[i] \in Fractions /\ o[i] \in Fractions /\ g[i] \in Fractions
                      /\ o[i] \oplus (g[i] \oplus v[i]) = Zero
    OBVIOUS
  <2>0. target - camera \in Int  BY <1>1
  <2>1. /\ Line[i] \in Fractions /\ Base[i] \in Fractions
        /\ v[i] = Q(target - camera) \otimes Line[i] /\ v[i] \in Fractions
    BY <1>1, <2>0, LinePlaces, Zenon
  <2>2. /\ o[i] = Base[i] \oplus (Q(camera) \otimes Line[i]) /\ o[i] \in Fractions
    BY <1>1, LinePlaces, Zenon
  <2>3. /\ g[i] = Negative(At(target)[i]) /\ At(target)[i] \in Fractions
        /\ At(target)[i] = Base[i] \oplus (Q(target) \otimes Line[i])
    BY <1>1, LinePlaces, Zenon
  <2>4. g[i] \in Fractions  BY <2>3, Closed
  <2> HIDE DEF v, o, g
  <2>5. o[i] \oplus (g[i] \oplus v[i]) = Zero
    <3> DEFINE b == Base[i]
               l == Line[i]
    <3>1. b \in Fractions /\ l \in Fractions  BY <2>1
    <3> HIDE DEF b, l
    <3>2. (b \oplus (Q(camera) \otimes l)) \oplus
            (Negative(b \oplus (Q(target) \otimes l)) \oplus (Q(target - camera) \otimes l)) = Zero
      BY <1>1, <3>1, WayBack
    <3> QED  BY <2>1, <2>2, <2>3, <3>2, Zenon DEF b, l
  <2> QED  BY <2>1, <2>2, <2>4, <2>5
<1>3. getTransform = M
  <2>1. AngleOf[pitch] = <<One, Zero>> /\ AngleOf[yaw] = <<One, Zero>>
    BY AngleOfAssumption DEF Straight
  <2> DEFINE a == AngleOf[pitch]
             b == AngleOf[yaw]
  <2>2. a[1] = One /\ a[2] = Zero /\ b[1] = One /\ b[2] = Zero  BY <2>1
  <2>3. /\ a[2] \otimes b[2] = Zero /\ a[1] \otimes b[2] = Zero /\ a[2] \otimes b[1] = Zero
        /\ a[1] \otimes b[1] = One /\ Negative(a[2]) = Zero /\ Negative(b[2]) = Zero
    BY <2>2, Sparse, NeutralLaws
  <2>4. getTransform =
          <<<<b[1], a[2] \otimes b[2], a[1] \otimes b[2], Zero>>,
            <<Zero, a[1], Negative(a[2]), Zero>>,
            <<Negative(b[2]), a[2] \otimes b[1], a[1] \otimes b[1], Zero>>,
            <<(((b[1] \otimes g[1]) \oplus (Zero \otimes g[2]))
                 \oplus (Negative(b[2]) \otimes g[3])) \oplus v[1],
              ((((a[2] \otimes b[2]) \otimes g[1]) \oplus (a[1] \otimes g[2]))
                 \oplus ((a[2] \otimes b[1]) \otimes g[3])) \oplus v[2],
              ((((a[1] \otimes b[2]) \otimes g[1]) \oplus (Negative(a[2]) \otimes g[2]))
                 \oplus ((a[1] \otimes b[1]) \otimes g[3])) \oplus v[3],
              One>>>>
    BY ViewMatrix, Zenon
  <2> HIDE DEF a, b, v, g
  <2> QED  BY <2>2, <2>3, <2>4
<1> HIDE DEF v, o, g
<1> DEFINE o1 == o[1]
           o2 == o[2]
           o3 == o[3]
           g1 == g[1]
           g2 == g[2]
           g3 == g[3]
           v1 == v[1]
           v2 == v[2]
           v3 == v[3]
<1>9. /\ o1 \in Fractions /\ o2 \in Fractions /\ o3 \in Fractions
      /\ g1 \in Fractions /\ g2 \in Fractions /\ g3 \in Fractions
      /\ v1 \in Fractions /\ v2 \in Fractions /\ v3 \in Fractions
      /\ o1 \oplus (g1 \oplus v1) = Zero /\ o2 \oplus (g2 \oplus v2) = Zero
      /\ o3 \oplus (g3 \oplus v3) = Zero
  BY <1>2
<1> HIDE DEF o1, o2, o3, g1, g2, g3, v1, v2, v3
<1>4. w1 = g1 \oplus v1 /\ w2 = g2 \oplus v2 /\ w3 = g3 \oplus v3
  <2>1. /\ w1 = (((One \otimes g1) \oplus (Zero \otimes g2)) \oplus (Zero \otimes g3)) \oplus v1
        /\ w2 = (((Zero \otimes g1) \oplus (One \otimes g2)) \oplus (Zero \otimes g3)) \oplus v2
        /\ w3 = (((Zero \otimes g1) \oplus (Zero \otimes g2)) \oplus (One \otimes g3)) \oplus v3
    BY Zenon DEF g1, g2, g3, v1, v2, v3
  <2> HIDE DEF w1, w2, w3
  <2> QED  BY <1>9, <2>1, Sparse
<1> HIDE DEF w1, w2, w3
<1>5. Seen(M, o) =
        <<(((One \otimes o[1]) \oplus (Zero \otimes o[2])) \oplus (Zero \otimes o[3]))
            \oplus (w1 \otimes One),
          (((Zero \otimes o[1]) \oplus (One \otimes o[2])) \oplus (Zero \otimes o[3]))
            \oplus (w2 \otimes One),
          (((Zero \otimes o[1]) \oplus (Zero \otimes o[2])) \oplus (One \otimes o[3]))
            \oplus (w3 \otimes One)>>
  BY SeenAt
<1>6. w1 \in Fractions /\ w2 \in Fractions /\ w3 \in Fractions  BY <1>9, <1>4, Sparse
<1> HIDE DEF M
<1>7. Seen(M, o) = <<o1 \oplus w1, o2 \oplus w2, o3 \oplus w3>>
  <2>1. /\ (((One \otimes o1) \oplus (Zero \otimes o2)) \oplus (Zero \otimes o3))
            \oplus (w1 \otimes One) = o1 \oplus w1
        /\ (((Zero \otimes o1) \oplus (One \otimes o2)) \oplus (Zero \otimes o3))
            \oplus (w2 \otimes One) = o2 \oplus w2
        /\ (((Zero \otimes o1) \oplus (Zero \otimes o2)) \oplus (One \otimes o3))
            \oplus (w3 \otimes One) = o3 \oplus w3
    BY <1>6, <1>9, Sparse
  <2> QED  BY <1>5, <2>1 DEF o1, o2, o3
<1>8. Seen(M, o) = <<Zero, Zero, Zero>>  BY <1>4, <1>7, <1>9
<1> QED  BY <1>3, <1>8 DEF o

(* With a view, what TargetAhead says of it.                               *)
LEMMA OrbitInvTargetAhead == OrbitInv => TargetAhead
BY TargetSeen, CameraSeen DEF TargetAhead

(* Through getTransform the target is always seen where the translation    *)
(* has it, however the camera was turned and zoomed, and, not turned and   *)
(* not zoomed, the camera's own place is seen at the origin.               *)
THEOREM AlwaysTargetAhead == Spec => []TargetAhead
BY OrbitInvTargetAhead, OrbitInvHolds, PTL
=============================================================================
