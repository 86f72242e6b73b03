-------------------------- MODULE StableSwap_proofs --------------------------
(***************************************************************************)
(* Proofs about the stable curve, for any amplification, amounts, scales   *)
(* and limit of the iterations: whatever number of steps Newton's method   *)
(* is given, and however its divisions round, what it returns is never     *)
(* below the solution by one or more, and so no swap lowers the invariant. *)
(***************************************************************************)
EXTENDS StableSwap, WellFoundedInduction, TLAPS

(***************************************************************************)
(* Arithmetic.                                                             *)
(***************************************************************************)

\* A quotient is the largest number whose product with the divisor does not exceed the
\* dividend.
LEMMA DivBounds ==
    ASSUME NEW a \in Int, NEW b \in Nat \ {0}
    PROVE  /\ a \div b \in Int
           /\ b * (a \div b) <= a
           /\ b * (a \div b) + b >= a + 1
BY Z3

\* The product of naturals is natural, and of positive numbers positive.
LEMMA ProductNat ==
    ASSUME NEW a \in Nat, NEW b \in Nat
    PROVE  a * b \in Nat /\ (a > 0 /\ b > 0 => a * b > 0)
BY Z3

\* A product grows with its factors.
LEMMA ProductMono ==
    ASSUME NEW a \in Int, NEW b \in Int, NEW c \in Nat, a <= b
    PROVE  a * c <= b * c /\ c * a <= c * b
<1>1. b * c = a * c + (b - a) * c /\ b - a \in Nat
  BY Z3
<1>2. (b - a) * c \in Nat
  BY <1>1, ProductNat
<1>3. a * c \in Int /\ b * c \in Int /\ c * a = a * c /\ c * b = b * c
  BY Z3
<1> QED
  BY <1>1, <1>2, <1>3, Z3

\* The quotient of naturals is natural.
LEMMA DivNat ==
    ASSUME NEW a \in Nat, NEW b \in Nat \ {0}
    PROVE  a \div b \in Nat
BY Z3

(***************************************************************************)
(* The iteration for D.                                                    *)
(***************************************************************************)

\* The tangent that Newton's method follows lies below the curve: u, the next value plus one,
\* is above the solution, although P is a little below d * d * d / k.
LEMMA TangentBelow ==
    ASSUME NEW d \in Nat \ {0}, NEW u \in Nat, NEW k \in Nat \ {0}, NEW m \in Nat, NEW n \in Nat,
           NEW S \in Nat, NEW P \in Nat, NEW R \in Nat,
           k * P + R = d * d * d,
           u * (d * m + 3 * P) >= d * (n * S + 2 * P) + 1,
           3 * u >= 2 * d
    PROVE  u * u * u + k * m * u > k * n * S
<1> DEFINE G == u * u * u + k * m * u - k * n * S
<1>1. k * (u * (d * m + 3 * P)) >= k * (d * (n * S + 2 * P) + 1)
  <2>1. u * (d * m + 3 * P) \in Int /\ d * (n * S + 2 * P) + 1 \in Int
    BY Z3
  <2> QED
    BY <2>1, ProductMono
<1>2. /\ k * (u * (d * m + 3 * P)) = d * (k * m * u) + 3 * ((k * P) * u)
      /\ k * (d * (n * S + 2 * P) + 1) = d * (k * n * S) + 2 * ((k * P) * d) + k
  BY Z3
<1>3. k * P = d * d * d - R /\ k * P \in Int
  BY Z3
<1>4. /\ (k * P) * u = d * d * d * u - R * u
      /\ (k * P) * d = d * d * d * d - R * d
  BY <1>3, Z3
<1>5. (u - d) * (u - d) * (u + 2 * d) = u * u * u + 2 * (d * d * d) - 3 * (d * d * u)
  BY Z3
<1>6. (u - d) * (u - d) * (u + 2 * d) >= 0
  <2>1. (u - d) * (u - d) \in Nat /\ u + 2 * d \in Nat
    BY Z3
  <2> QED
    BY <2>1, ProductNat
<1>7. d * (u * u * u + 2 * (d * d * d) - 3 * (d * d * u)) >= 0
  <2>1. u * u * u + 2 * (d * d * d) - 3 * (d * d * u) \in Nat
    BY <1>5, <1>6, Z3
  <2> QED
    BY <2>1, ProductNat
<1>8. R * (3 * u - 2 * d) >= 0
  <2>1. 3 * u - 2 * d \in Nat
    BY Z3
  <2> QED
    BY <2>1, ProductNat
<1>9. d * G = d * (u * u * u) + d * (k * m * u) - d * (k * n * S) /\ G \in Int
  BY Z3
<1>10. /\ d * (u * u * u + 2 * (d * d * d) - 3 * (d * d * u))
             = d * (u * u * u) + 2 * (d * d * d * d) - 3 * (d * d * d * u)
       /\ R * (3 * u - 2 * d) = 3 * (R * u) - 2 * (R * d)
  BY Z3
<1>11. d * G >= k
  <2> DEFINE a == d * (k * m * u)
             b == d * (k * n * S)
             e == d * d * d * u
             f == d * d * d * d
             g == R * u
             h == R * d
             c == d * (u * u * u)
  <2>1. a \in Int /\ b \in Int /\ e \in Int /\ f \in Int /\ g \in Int /\ h \in Int /\ c \in Int
    BY Z3
  <2>2. a + 3 * (e - g) >= b + 2 * (f - h) + k
    BY <1>1, <1>2, <1>4
  <2>3. c + 2 * f - 3 * e >= 0 /\ 3 * g - 2 * h >= 0
    BY <1>7, <1>8, <1>10
  <2>4. d * G = c + a - b
    BY <1>9
  <2> HIDE DEF a, b, c, e, f, g, h, G
  <2> QED
    BY <2>1, <2>2, <2>3, <2>4
<1>12. G > 0
  <2> HIDE DEF G
  <2>1. G <= 0 => d * G <= 0
    BY <1>9, Z3
  <2> QED
    BY <1>9, <1>11, <2>1
<1> QED
  BY <1>12, Z3

\* The parts of a step: its two divisions lose R of d * d * d, the third rounds down.
StepParts(x, y, d, P, R) ==
    /\ (4 * x * y) * P + R = d * d * d
    /\ d * (Ann - 1) + 3 * P \in Nat \ {0}
    /\ d * (Ann * (x + y) + 2 * P) \in Nat
    /\ NextD(d, x, y) = (d * (Ann * (x + y) + 2 * P)) \div (d * (Ann - 1) + 3 * P)

\* Every step has such parts.
LEMMA NextDParts ==
    ASSUME NEW x \in Nat \ {0}, NEW y \in Nat \ {0}, NEW d \in Nat \ {0}
    PROVE  \E P \in Nat, R \in Nat : StepParts(x, y, d, P, R)
<1> DEFINE q == (d * d) \div (x * 2)
           P == (q * d) \div (y * 2)
           R == d * d * d - (4 * x * y) * P
           m == Ann - 1
<1>1. Ann \in Nat /\ Ann >= 2
  BY StableAssumption, Z3 DEF Ann, NCoins
<1>2. d * d \in Nat /\ x * 2 \in Nat \ {0} /\ y * 2 \in Nat \ {0}
  BY Z3
<1>3. q \in Nat /\ (x * 2) * q <= d * d
  <2> DEFINE a == d * d
             b == x * 2
  <2>1. a \in Nat /\ a \in Int /\ b \in Nat \ {0}
    BY <1>2
  <2> HIDE DEF a, b
  <2>2. a \div b \in Nat /\ b * (a \div b) <= a
    BY <2>1, DivNat, DivBounds
  <2> QED
    BY <2>2 DEF a, b, q
<1> HIDE DEF q
<1>4. q * d \in Nat
  BY <1>3, ProductNat
<1>5. P \in Nat /\ (y * 2) * P <= q * d
  <2> DEFINE a == q * d
             b == y * 2
  <2>1. a \in Nat /\ a \in Int /\ b \in Nat \ {0}
    BY <1>2, <1>4
  <2> HIDE DEF a, b
  <2>2. a \div b \in Nat /\ b * (a \div b) <= a
    BY <2>1, DivNat, DivBounds
  <2> QED
    BY <2>2 DEF a, b, P
<1> HIDE DEF P
<1>6. (x * 2) * ((y * 2) * P) <= (x * 2) * (q * d)
  <2>1. (y * 2) * P \in Int
    BY <1>5, Z3
  <2> QED
    BY <1>2, <1>4, <1>5, <2>1, ProductMono
<1>7. ((x * 2) * q) * d <= (d * d) * d
  <2>1. (x * 2) * q \in Int
    BY <1>3, Z3
  <2> QED
    BY <1>2, <1>3, <2>1, ProductMono
<1>8. (x * 2) * ((y * 2) * P) = (4 * x * y) * P /\ (x * 2) * (q * d) = ((x * 2) * q) * d
  BY <1>3, <1>5, Z3
<1>9. (4 * x * y) * P \in Int /\ d * d * d \in Int /\ d * d * d = (d * d) * d
  BY <1>5, Z3
<1>10. R \in Nat /\ (4 * x * y) * P + R = d * d * d
  <2> DEFINE a == (4 * x * y) * P
             b == d * d * d
  <2>1. a \in Int /\ b \in Int /\ a <= b
    <3> DEFINE e == (x * 2) * ((y * 2) * P)
               f == (x * 2) * (q * d)
               g == ((x * 2) * q) * d
               h == (d * d) * d
    <3>1. e \in Int /\ f \in Int /\ g \in Int /\ h \in Int
      BY <1>3, <1>5, Z3
    <3>2. e <= f /\ g <= h /\ e = a /\ f = g /\ b = h /\ a \in Int /\ b \in Int
      BY <1>6, <1>7, <1>8, <1>9
    <3> HIDE DEF a, b, e, f, g, h
    <3> QED
      BY <3>1, <3>2
  <2> HIDE DEF a, b
  <2>2. b - a \in Nat /\ a + (b - a) = b
    BY <2>1
  <2> QED
    BY <2>2 DEF a, b
<1>11. m \in Nat \ {0}
  BY <1>1
<1> HIDE DEF m, R
<1>12. d * m + 3 * P \in Nat \ {0}
  BY <1>5, <1>11, Z3
<1>13. d * (Ann * (x + y) + 2 * P) \in Nat
  BY <1>1, <1>5, Z3
<1>14. NextD(d, x, y) = (d * (Ann * (x + y) + 2 * P)) \div (d * m + 3 * P)
  <2>1. P * 2 = 2 * P /\ P * (2 + 1) = 3 * P
    BY <1>5, Z3
  <2> QED
    BY <2>1 DEF NextD, NCoins, P, q, m
<1> QED
  BY <1>5, <1>10, <1>12, <1>13, <1>14 DEF m, StepParts

\* What every value of the iteration for D satisfies: it is not far above the sum of the
\* amounts, and the number after it is above the solution.
NotBelowD(v, x, y) ==
    /\ v \in Nat /\ v >= 2
    /\ 2 * (Ann - 1) * v <= 3 * (Ann * (x + y))
    /\ ~AtMostInvariant(v + 1, x, y)

\* A number whose successor is above the solution is at least two.
LEMMA AtLeastTwo ==
    ASSUME NEW x \in Nat \ {0}, NEW y \in Nat \ {0}, NEW v \in Nat, ~AtMostInvariant(v + 1, x, y)
    PROVE  v >= 2
<1> DEFINE u == v + 1
           k == 4 * x * y
           m == Ann - 1
           S == x + y
<1>1. Ann \in Nat /\ Ann >= 2
  BY StableAssumption, Z3 DEF Ann, NCoins
<1>2. k \in Nat /\ k >= 4 /\ S \in Nat /\ S >= 2 /\ m \in Nat /\ Ann = m + 1
  BY <1>1, Z3
<1>3. u * u * u + k * m * u > k * Ann * S
  <2>1. u * u * u + k * m * u = u * u * u + 4 * x * y * (Ann - 1) * u
        /\ k * Ann * S = 4 * x * y * Ann * (x + y)
    BY <1>1, Z3
  <2>2. u * u * u + k * m * u \in Int /\ k * Ann * S \in Int
    BY <1>1, <1>2, Z3
  <2> QED
    BY <2>1, <2>2 DEF AtMostInvariant
<1> HIDE DEF k, m, S
<1>4. k * Ann * S = (k * m) * S + k * S
  BY <1>2, Z3
<1>5. ASSUME v = 0 \/ v = 1 PROVE FALSE
  <2>1. u * u * u <= 8 /\ u <= 2 /\ u \in Nat /\ u * u * u \in Nat
    BY <1>5
  <2>2. k * m \in Nat /\ k * S \in Nat
    BY <1>2, ProductNat
  <2>3. u * (k * m) <= 2 * (k * m) /\ 2 * (k * m) <= S * (k * m)
    BY <1>2, <2>1, <2>2, ProductMono
  <2>4. 4 * S <= k * S /\ 4 * S >= 8
    BY <1>2, ProductMono
  <2>5. k * m * u = u * (k * m) /\ (k * m) * S = S * (k * m) /\ k * m * u \in Int
        /\ (k * m) * S \in Int
    BY <1>2, <2>1, Z3
  <2> DEFINE a == k * m * u
             b == (k * m) * S
             c == k * S
             e == u * u * u
             f == k * Ann * S
             g == k * m
  <2>6. /\ a \in Int /\ b \in Int /\ c \in Nat /\ e \in Nat /\ g \in Nat
        /\ e + a > f /\ f = b + c /\ e <= 8 /\ a <= 2 * g /\ 2 * g <= b /\ 4 * S <= c
    BY <1>3, <1>4, <2>1, <2>2, <2>3, <2>4, <2>5
  <2> HIDE DEF a, b, c, e, f, g
  <2> QED
    BY <2>4, <2>6, <1>2
<1> QED
  BY <1>5

\* A step from a value that is not far above the sum of the amounts leads to one that is not,
\* and that is not below the solution by one or more.
LEMMA NextDStep ==
    ASSUME NEW x \in Nat \ {0}, NEW y \in Nat \ {0}, NEW d \in Nat \ {0},
           2 * (Ann - 1) * d <= 3 * (Ann * (x + y))
    PROVE  NotBelowD(NextD(d, x, y), x, y)
<1> DEFINE n == Ann
           m == Ann - 1
           S == x + y
           k == 4 * x * y
<1>1. n \in Nat /\ n >= 2
  BY StableAssumption, Z3 DEF Ann, NCoins
<1>2. PICK P \in Nat, R \in Nat : StepParts(x, y, d, P, R)
  BY NextDParts
<1> DEFINE num == d * (n * S + 2 * P)
           den == d * m + 3 * P
           z == num \div den
           u == z + 1
<1>3. /\ num \in Nat /\ num \in Int /\ den \in Nat \ {0} /\ NextD(d, x, y) = z
      /\ k * P + R = d * d * d
  BY <1>2 DEF StepParts
<1>4. S \in Nat /\ S >= 2 /\ k \in Nat \ {0} /\ m \in Nat \ {0} /\ n = m + 1
  BY <1>1, Z3
<1>5. z \in Nat /\ den * z <= num /\ den * z + den >= num + 1
  <2> HIDE DEF num, den
  <2> QED
    BY <1>3, DivNat, DivBounds
<1>6. 2 * m * d <= 3 * (n * S)
  OBVIOUS
<1> HIDE DEF k, m, S, n
<1> HIDE DEF z
<1>7. u \in Nat /\ u * den >= num + 1
  <2> HIDE DEF num, den
  <2>1. u * den = den * z + den /\ den * z \in Int
    BY <1>3, <1>5, Z3
  <2> QED
    BY <1>3, <1>5, <2>1
<1>8. n * S \in Nat /\ d * m \in Nat /\ n * S * P \in Nat /\ n * S * d \in Nat /\ num \in Int
  BY <1>1, <1>2, <1>4, Z3
<1>9. d * (2 * m * d) <= d * (3 * (n * S))
  <2>1. 2 * m * d \in Int /\ 3 * (n * S) \in Int
    BY <1>4, <1>8, Z3
  <2> QED
    BY <1>6, <2>1, ProductMono
<1>10. 3 * u >= 2 * d
  <2> SUFFICES ASSUME 3 * u <= 2 * d - 1 PROVE FALSE
    BY <1>7
  <2>1. (3 * u) * den <= (2 * d - 1) * den
    <3> HIDE DEF u, den
    <3>1. 3 * u \in Int /\ 2 * d - 1 \in Int
      BY <1>7
    <3> QED
      BY <1>3, <3>1, ProductMono
  <2>2. (3 * u) * den = 3 * (u * den)
    <3> HIDE DEF u, den
    <3> QED
      BY <1>3, <1>7, Z3
  <2>3. (2 * d - 1) * den = 2 * (d * den) - den
    <3> HIDE DEF den
    <3> QED
      BY <1>3, Z3
  <2>4. d * den = d * (d * m) + 3 * (d * P)
    BY <1>4, Z3
  <2>5. num = n * S * d + 2 * (d * P)
    BY <1>1, <1>4, Z3
  <2>6. d * (2 * m * d) = 2 * (d * (d * m)) /\ d * (3 * (n * S)) = 3 * (n * S * d)
    BY <1>1, <1>4, Z3
  <2>7. d * (d * m) \in Int /\ d * P \in Int /\ d * den \in Int /\ u * den \in Int
    BY <1>4, <1>5, <1>3, Z3
  <2> DEFINE a == d * (d * m)
             b == d * P
             c == u * den
             e == n * S * d
             g == d * den
  <2>8. /\ a \in Int /\ b \in Int /\ c \in Int /\ e \in Int /\ g \in Int
        /\ 3 * c <= 2 * g - den /\ g = a + 3 * b /\ num = e + 2 * b /\ 2 * a <= 3 * e
        /\ c >= num + 1
    BY <1>7, <1>8, <1>9, <2>1, <2>2, <2>3, <2>4, <2>5, <2>6, <2>7
  <2> HIDE DEF a, b, c, e, g, num, den
  <2> QED
    BY <1>3, <2>8
<1>11. u * u * u + k * m * u > k * n * S
  <2> HIDE DEF u
  <2> QED
    BY <1>1, <1>2, <1>3, <1>4, <1>7, <1>10, TangentBelow
<1>12. ~AtMostInvariant(z + 1, x, y)
  <2>1. u * u * u + k * m * u = u * u * u + 4 * x * y * (Ann - 1) * u
        /\ k * n * S = 4 * x * y * Ann * (x + y)
    BY <1>1, <1>7, Z3 DEF k, m, n, S
  <2>2. u * u * u + k * m * u \in Int /\ k * n * S \in Int
    BY <1>1, <1>4, <1>7, Z3
  <2> HIDE DEF u
  <2>3. ~AtMostInvariant(u, x, y)
    BY <1>11, <2>1, <2>2 DEF AtMostInvariant
  <2> QED
    BY <2>3 DEF u
<1>13. 2 * m * z <= 3 * (n * S)
  <2> SUFFICES ASSUME 2 * m * z >= 3 * (n * S) + 1 PROVE FALSE
    BY <1>4, <1>5, <1>8, Z3
  <2>1. (3 * (n * S) + 1) * den <= (2 * m * z) * den
    <3> HIDE DEF den
    <3>1. 3 * (n * S) + 1 \in Int /\ 2 * m * z \in Int
      BY <1>4, <1>5, <1>8, Z3
    <3> QED
      BY <1>3, <3>1, ProductMono
  <2>2. (2 * m) * (den * z) <= (2 * m) * num
    <3> HIDE DEF den, num
    <3>1. den * z \in Int /\ 2 * m \in Nat
      BY <1>3, <1>4, <1>5, Z3
    <3> QED
      BY <1>3, <1>5, <3>1, ProductMono
  <2>3. (2 * P) * (2 * m * d) <= (2 * P) * (3 * (n * S))
    <3>1. 2 * m * d \in Int /\ 3 * (n * S) \in Int /\ 2 * P \in Nat
      BY <1>4, <1>8, Z3
    <3> QED
      BY <1>6, <3>1, ProductMono
  <2> DEFINE a == n * S * d * m
             b == n * S * P
             c == (2 * m * z) * den
             e == P * m * d
  <2>4. (3 * (n * S) + 1) * den = 3 * a + 9 * b + den
    BY <1>1, <1>4, Z3
  <2>5. (2 * m) * num = 2 * a + 4 * e
    BY <1>1, <1>4, Z3
  <2>6. (2 * P) * (2 * m * d) = 4 * e /\ (2 * P) * (3 * (n * S)) = 6 * b
    BY <1>1, <1>4, Z3
  <2>7. (2 * m) * (den * z) = c
    <3> HIDE DEF den
    <3> QED
      BY <1>3, <1>4, <1>5, Z3
  <2>8. a \in Nat /\ b \in Nat /\ e \in Nat
    <3>1. (n * S * d) * m \in Nat /\ P * m \in Nat
      BY <1>4, <1>8, ProductNat
    <3>2. (P * m) * d \in Nat
      BY <3>1, ProductNat
    <3> QED
      BY <1>8, <3>1, <3>2
  <2>9. c \in Int /\ 3 * a + 9 * b + den <= c /\ c <= 2 * a + 4 * e /\ 4 * e <= 6 * b
    <3>1. c \in Int
      <4> HIDE DEF den
      <4> QED
        BY <1>3, <1>4, <1>5, Z3
    <3> QED
      BY <2>1, <2>2, <2>3, <2>4, <2>5, <2>6, <2>7, <3>1
  <2> HIDE DEF a, b, c, e, den
  <2> QED
    BY <1>3, <2>8, <2>9
<1>14. z >= 2
  BY <1>5, <1>12, AtLeastTwo
<1>15. 2 * (Ann - 1) * z <= 3 * (Ann * (x + y))
  BY <1>13 DEF m, n, S
<1> QED
  BY <1>3, <1>5, <1>12, <1>14, <1>15 DEF NotBelowD

(***************************************************************************)
(* The runs of Newton's method.                                            *)
(***************************************************************************)

\* A set of naturals that is not empty has a least member.
LEMMA LeastNat ==
    ASSUME NEW T, T \subseteq Nat, T # {}
    PROVE  \E n \in T : \A m \in T : n <= m
<1> DEFINE L == OpToRel(<, Nat)
<1>1. IsWellFoundedOn(L, Nat)
  BY NatLessThanWellFounded
<1>2. \A m, n \in Nat : <<m, n>> \in L <=> m < n
  BY DEF OpToRel
<1> HIDE DEF L
<1>3. PICK n \in T : \A m \in T : ~(<<m, n>> \in L)
  BY <1>1, WFMin
<1>4. \A m \in T : ~(m < n)
  BY <1>2, <1>3
<1>5. \A m \in T : m \in Nat /\ n \in Nat
  OBVIOUS
<1> QED
  BY <1>4, <1>5

\* f iterates F from base.
Iterates(f, F, base, N) == f = [i \in 0..N |-> IF i = 0 THEN base ELSE F[f[i - 1]]]

\* There is such an iteration, of any length.
LEMMA IterationExists ==
    ASSUME NEW F, NEW base, NEW N \in Nat
    PROVE  \E f : Iterates(f, F, base, N)
<1> DEFINE T == {n \in Nat : ~ \E f : Iterates(f, F, base, n)}
<1>1. SUFFICES ASSUME T # {} PROVE FALSE
  OBVIOUS
<1>2. PICK n \in T : \A m \in T : n <= m
  BY <1>1, LeastNat
<1>3. n # 0
  <2>1. Iterates([i \in 0..0 |-> base], F, base, 0)
    BY DEF Iterates
  <2> QED
    BY <1>2, <2>1
<1>4. n \in Nat /\ n - 1 \in Nat /\ n - 1 \notin T
  <2>1. n \in Nat
    BY <1>2
  <2>2. n - 1 \in Nat /\ ~(n <= n - 1)
    BY <1>3, <2>1
  <2> HIDE DEF T
  <2> QED
    BY <1>2, <2>1, <2>2
<1>5. PICK g : Iterates(g, F, base, n - 1)
  BY <1>4
<1> DEFINE h == [i \in 0..n |-> IF i = n THEN F[g[n - 1]] ELSE g[i]]
<1>6. \A i \in 0..n : h[i] = IF i = 0 THEN base ELSE F[h[i - 1]]
  <2> SUFFICES ASSUME NEW i \in 0..n PROVE h[i] = IF i = 0 THEN base ELSE F[h[i - 1]]
    OBVIOUS
  <2>1. CASE i = n
    <3>1. h[i] = F[g[n - 1]] /\ h[i - 1] = g[n - 1]
      BY <1>4, <2>1
    <3> QED
      BY <1>3, <2>1, <3>1
  <2>2. CASE i # n
    <3>1. i \in 0..n - 1 /\ h[i] = g[i] /\ (i # 0 => h[i - 1] = g[i - 1])
      BY <1>4, <2>2
    <3>2. g[i] = IF i = 0 THEN base ELSE F[g[i - 1]]
      BY <1>5, <3>1 DEF Iterates
    <3> QED
      BY <3>1, <3>2
  <2> QED
    BY <2>1, <2>2
<1>7. Iterates(h, F, base, n)
  BY <1>6 DEF Iterates
<1> QED
  BY <1>2, <1>7

\* An iteration that starts in V and that F leads from V into W, a part of V, ends in W after
\* one step or more.
LEMMA IterationEnds ==
    ASSUME NEW V, NEW W, W \subseteq V, NEW N \in Nat \ {0}, NEW f,
           f[0] \in V,
           \A i \in 1..N : f[i - 1] \in V => f[i] \in W
    PROVE  f[N] \in W /\ \A i \in 0..N : f[i] \in V
<1> DEFINE T == {n \in Nat : n <= N /\ f[n] \notin V}
<1>1. T = {}
  <2> SUFFICES ASSUME T # {} PROVE FALSE
    OBVIOUS
  <2>1. PICK n \in T : \A m \in T : n <= m
    BY LeastNat
  <2>2. n \in Nat /\ n <= N /\ f[n] \notin V
    BY <2>1
  <2>3. n # 0
    BY <2>2
  <2>4. n - 1 \in Nat /\ n \in 1..N /\ ~(n <= n - 1) /\ n - 1 <= N
    BY <2>2, <2>3
  <2>5. n - 1 \notin T
    <3> HIDE DEF T
    <3> QED
      BY <2>1, <2>4
  <2>6. f[n - 1] \in V
    BY <2>4, <2>5
  <2> QED
    BY <2>2, <2>4, <2>6
<1>2. N - 1 \in Nat /\ N - 1 <= N /\ N \in 1..N
  OBVIOUS
<1>3. f[N - 1] \in V
  BY <1>1, <1>2
<1>4. \A i \in 0..N : f[i] \in V
  BY <1>1
<1> QED
  BY <1>2, <1>3, <1>4

(***************************************************************************)
(* computeD                                                                *)
(***************************************************************************)

\* The iteration for D as a step of records.
StepD(x, y, before) ==
    IF AbsDiff(before.value, before.prev) > 1
    THEN [prev |-> before.value, value |-> NextD(before.value, x, y)]
    ELSE before

\* NewtonD is the last record of the iteration for D.
LEMMA NewtonDRun ==
    ASSUME NEW x, NEW y
    PROVE  NewtonD(x, y) =
             LET run[i \in 0..MaxIters] ==
                   IF i = 0 THEN [prev |-> 0, value |-> x + y] ELSE StepD(x, y, run[i - 1])
             IN  run[MaxIters]
BY DEF NewtonD, Newton, StepD

\* The sum of the amounts, where the iteration for D starts, is at least D.
LEMMA SumNotBelow ==
    ASSUME NEW x \in Nat \ {0}, NEW y \in Nat \ {0}
    PROVE  NotBelowD(x + y, x, y)
<1> DEFINE S == x + y
           u == S + 1
           m == Ann - 1
           k == 4 * x * y
<1>1. Ann \in Nat /\ Ann >= 2 /\ m \in Nat /\ Ann = m + 1
  BY StableAssumption, Z3 DEF Ann, NCoins
<1>2. S \in Nat /\ S >= 2 /\ u \in Nat /\ u > 0 /\ k \in Nat
  BY Z3
<1>3. u * u >= k + 1
  <2>1. u * u = k + (x - y) * (x - y) + 2 * S + 1
    BY Z3
  <2>2. (x - y) * (x - y) \in Nat
    BY Z3
  <2> HIDE DEF u, S, k
  <2> QED
    BY <1>2, <2>1, <2>2
<1>4. 2 * m * S <= 3 * (Ann * S)
  <2> HIDE DEF S, m
  <2>1. m * S \in Nat /\ 2 * m * S = 2 * (m * S) /\ Ann * S = m * S + S
    BY <1>1, <1>2, Z3
  <2> QED
    BY <1>2, <2>1
<1>5. u * u * u + k * m * u > k * Ann * S
  <2> HIDE DEF S, m, k
  <2>1. (k + 1) * u <= (u * u) * u
    <3>1. k + 1 \in Int /\ u * u \in Int /\ u \in Nat
      BY <1>2, Z3
    <3> HIDE DEF u
    <3> QED
      BY <1>3, <3>1, ProductMono
  <2>2. /\ (k + 1) * u = k * S + k + u
        /\ (u * u) * u = u * u * u
        /\ k * m * u = k * m * S + k * m
        /\ k * Ann * S = k * m * S + k * S
    BY <1>1, <1>2, Z3
  <2>3. k * S \in Nat /\ k * m \in Nat /\ (k * m) * S \in Nat /\ u * u * u \in Int
    BY <1>1, <1>2, ProductNat
  <2> DEFINE a == k * S
             b == k * m * S
             c == k * m
             e == u * u * u
             f == k * m * u
             g == k * Ann * S
  <2>4. /\ a \in Nat /\ b \in Nat /\ c \in Nat /\ e \in Int
        /\ a + k + u <= e /\ f = b + c /\ g = b + a
    BY <2>1, <2>2, <2>3
  <2> HIDE DEF a, b, c, e, f, g, u
  <2>5. e + f > g
    BY <1>2, <2>4
  <2> QED
    BY <2>5 DEF e, f, g
<1>6. ~AtMostInvariant(S + 1, x, y)
  <2>1. u * u * u + k * m * u = u * u * u + 4 * x * y * (Ann - 1) * u
        /\ k * Ann * S = 4 * x * y * Ann * (x + y)
    BY <1>1, <1>2, Z3
  <2>2. u * u * u + k * m * u \in Int /\ k * Ann * S \in Int
    BY <1>1, <1>2, Z3
  <2> QED
    BY <1>5, <2>1, <2>2 DEF AtMostInvariant
<1> QED
  BY <1>2, <1>4, <1>6 DEF NotBelowD

\* computeD: however many steps the iteration is given, what it returns is a number whose
\* successor is above the invariant.
LEMMA ComputeDNotBelow ==
    ASSUME NEW x \in Nat \ {0}, NEW y \in Nat \ {0}
    PROVE  NotBelowD(ComputeD(x, y), x, y)
<1> DEFINE base == [prev |-> 0, value |-> x + y]
           V == {r \in [prev : Nat, value : Nat] : NotBelowD(r.value, x, y)}
           F == [r \in V |-> StepD(x, y, r)]
           Runs(f) == f = [i \in 0..MaxIters |->
                              IF i = 0 THEN base ELSE StepD(x, y, f[i - 1])]
<1>1. MaxIters \in Nat \ {0}
  BY StableAssumption
<1>2. base \in V
  BY SumNotBelow
<1>3. ASSUME NEW r \in V PROVE StepD(x, y, r) \in V
  <2>1. r \in [prev : Nat, value : Nat] /\ NotBelowD(r.value, x, y)
    OBVIOUS
  <2>2. r.value \in Nat \ {0} /\ 2 * (Ann - 1) * r.value <= 3 * (Ann * (x + y))
    BY <2>1 DEF NotBelowD
  <2>3. NotBelowD(NextD(r.value, x, y), x, y)
    BY <2>2, NextDStep
  <2>4. NextD(r.value, x, y) \in Nat
    BY <2>3 DEF NotBelowD
  <2> HIDE DEF V
  <2>5. [prev |-> r.value, value |-> NextD(r.value, x, y)] \in V
    BY <2>2, <2>3, <2>4 DEF V
  <2> QED
    BY <2>5 DEF StepD
<1>4. PICK g : Iterates(g, F, base, MaxIters)
  BY <1>1, IterationExists
<1> HIDE DEF base, V
<1>5. g[0] = base /\ \A i \in 1..MaxIters : g[i] = F[g[i - 1]]
  BY <1>1, <1>4 DEF Iterates
<1>6. \A i \in 0..MaxIters : g[i] \in V
  <2>1. g[0] \in V
    BY <1>2, <1>5
  <2>2. \A i \in 1..MaxIters : g[i - 1] \in V => g[i] \in V
    BY <1>3, <1>5
  <2> QED
    BY <1>1, <2>1, <2>2, IterationEnds
<1>7. Runs(g)
  <2>1. \A i \in 0..MaxIters : i # 0 => F[g[i - 1]] = StepD(x, y, g[i - 1])
    <3> SUFFICES ASSUME NEW i \in 0..MaxIters, i # 0 PROVE F[g[i - 1]] = StepD(x, y, g[i - 1])
      OBVIOUS
    <3>1. g[i - 1] \in V
      BY <1>1, <1>6
    <3> QED
      BY <3>1
  <2> HIDE DEF F
  <2> QED
    BY <1>4, <2>1 DEF Iterates
<1> DEFINE run == CHOOSE f : Runs(f)
<1>8. Runs(run)
  BY <1>7
<1>9. ComputeD(x, y) = run[MaxIters].value
  <2>1. NewtonD(x, y) = run[MaxIters]
    BY NewtonDRun DEF base
  <2>2. x + y # 0
    OBVIOUS
  <2> QED
    BY <2>1, <2>2 DEF ComputeD
<1> HIDE DEF run
<1>10. run[MaxIters] \in V
  <2>1. run[0] \in V
    BY <1>1, <1>2, <1>8
  <2>2. \A i \in 1..MaxIters : run[i - 1] \in V => run[i] \in V
    <3> SUFFICES ASSUME NEW i \in 1..MaxIters, run[i - 1] \in V PROVE run[i] \in V
      OBVIOUS
    <3>1. run[i] = StepD(x, y, run[i - 1])
      BY <1>1, <1>8
    <3> QED
      BY <1>3, <3>1
  <2> QED
    BY <1>1, <2>1, <2>2, IterationEnds
<1> QED
  BY <1>9, <1>10 DEF V

(***************************************************************************)
(* computeY                                                                *)
(***************************************************************************)

\* y is a natural whose successor is above the solution.
NotBelowY(y, b, c) == y \in Nat /\ ~AtMostSolution(y + 1, b, c)

\* A step of the iteration for y from anywhere leads to a number whose successor is above the
\* solution, and if it moved by more than one the next step has a divisor.
LEMMA NextYStep ==
    ASSUME NEW p \in Nat, NEW b \in Int, NEW c \in Nat, 2 * p + b > 0
    PROVE  /\ NotBelowY(NextY(p, b, c), b, c)
           /\ AbsDiff(NextY(p, b, c), p) > 1 => 2 * NextY(p, b, c) + b > 0
<1> DEFINE num == p * p + c
           den == 2 * p + b
           z == num \div den
           u == z + 1
<1>1. num \in Nat /\ num \in Int /\ den \in Nat \ {0} /\ p * p \in Nat
  BY Z3
<1>2. NextY(p, b, c) = z
  BY DEF NextY, NCoins
<1>3. z \in Nat /\ den * z + den >= num + 1
  <2> HIDE DEF num, den
  <2> QED
    BY <1>1, DivNat, DivBounds
<1> HIDE DEF z
<1>4. u * den >= num + 1 /\ u \in Nat /\ u > 0 /\ u * den \in Int
  <2> HIDE DEF num, den
  <2>1. u * den = den * z + den /\ den * z \in Int
    BY <1>1, <1>3, Z3
  <2> QED
    BY <1>1, <1>3, <2>1
<1>5. u * (u + b) >= c + 1 /\ u * (u + b) \in Int
  <2> HIDE DEF u
  <2>1. u * (u + b) = (u - p) * (u - p) + u * den - p * p
    BY <1>4, Z3
  <2>2. (u - p) * (u - p) \in Nat
    BY <1>4, Z3
  <2> DEFINE a == (u - p) * (u - p)
             e == u * den
             g == p * p
             h == u * (u + b)
  <2>3. a \in Nat /\ e \in Int /\ g \in Nat /\ h = a + e - g /\ e >= g + c + 1
    BY <1>1, <1>4, <2>1, <2>2
  <2> HIDE DEF a, e, g, h, den
  <2>4. h >= c + 1 /\ h \in Int
    BY <2>3
  <2> QED
    BY <2>4 DEF h
<1>6. ~AtMostSolution(z + 1, b, c)
  BY <1>5 DEF AtMostSolution
<1>7. u + b >= 1
  <2> HIDE DEF u
  <2> SUFFICES ASSUME u + b <= 0 PROVE FALSE
    BY <1>4
  <2>1. u * (u + b) <= u * 0
    <3> DEFINE a == u + b
    <3>1. a \in Int /\ a <= 0
      BY <1>4
    <3> HIDE DEF a
    <3> QED
      BY <1>4, <3>1, ProductMono
  <2> QED
    BY <1>4, <1>5, <2>1
<1>8. AbsDiff(z, p) > 1 => 2 * z + b > 0
  <2> SUFFICES ASSUME AbsDiff(z, p) > 1, 2 * z + b <= 0 PROVE FALSE
    BY <1>3
  <2>1. z = 0 /\ b = 0 /\ u = 1
    BY <1>3, <1>7
  <2>2. p >= 2
    BY <2>1 DEF AbsDiff
  <2>3. 2 * p >= p * p + c + 1
    BY <1>4, <2>1
  <2>4. 2 * p <= p * p
    BY <2>2, ProductMono
  <2> QED
    BY <1>1, <2>3, <2>4
<1> QED
  BY <1>2, <1>3, <1>6, <1>8 DEF NotBelowY

\* The iteration for y as a step of records.
StepY(b, c, before) ==
    IF AbsDiff(before.value, before.prev) > 1
    THEN [prev |-> before.value, value |-> NextY(before.value, b, c)]
    ELSE before

\* NewtonY is the last record of the iteration for y.
LEMMA NewtonYRun ==
    ASSUME NEW x, NEW d
    PROVE  NewtonY(x, d) =
             LET run[i \in 0..MaxIters] ==
                   IF i = 0 THEN [prev |-> 0, value |-> d]
                   ELSE StepY(LinearTerm(x, d), ConstantTerm(x, d), run[i - 1])
             IN  run[MaxIters]
BY DEF NewtonY, Newton, StepY

\* The terms of the equation for y, and the divisor of the first step.
LEMMA YTerms ==
    ASSUME NEW x \in Nat \ {0}, NEW d \in Nat, d >= 2
    PROVE  /\ LinearTerm(x, d) \in Int
           /\ ConstantTerm(x, d) \in Nat
           /\ 2 * d + LinearTerm(x, d) > 0
<1>1. Ann \in Nat \ {0}
  BY StableAssumption, Z3 DEF Ann, NCoins
<1>2. d \div Ann \in Nat
  BY <1>1, DivNat
<1>3. ConstantTerm(x, d) \in Nat
  <2> DEFINE a == d * d * d
             e == 2 * (2 * (x * Ann))
  <2>1. a \in Nat /\ e \in Nat \ {0}
    BY <1>1, Z3
  <2> HIDE DEF a, e
  <2>2. a \div e \in Nat
    BY <2>1, DivNat
  <2> QED
    BY <2>2 DEF a, e, ConstantTerm, NCoins
<1> QED
  BY <1>2, <1>3 DEF LinearTerm

\* What a record of the iteration for y holds after a step: the value is one step from the one
\* before it, its successor is above the solution, and the next step has a divisor if there
\* is one.
SteppedY(r, b, c) ==
    /\ r \in [prev : Nat, value : Nat]
    /\ 2 * r.prev + b > 0 /\ r.value = NextY(r.prev, b, c)
    /\ NotBelowY(r.value, b, c)
    /\ AbsDiff(r.value, r.prev) > 1 => 2 * r.value + b > 0

\* However many steps the iteration for y is given, it ends after one at least.
LEMMA NewtonYEnds ==
    ASSUME NEW x \in Nat \ {0}, NEW d \in Nat, d >= 2
    PROVE  SteppedY(NewtonY(x, d), LinearTerm(x, d), ConstantTerm(x, d))
<1> DEFINE b == LinearTerm(x, d)
           c == ConstantTerm(x, d)
           base == [prev |-> 0, value |-> d]
           W == {r \in [prev : Nat, value : Nat] : SteppedY(r, b, c)}
           V == W \cup {base}
           F == [r \in V |-> StepY(b, c, r)]
           Runs(f) == f = [i \in 0..MaxIters |-> IF i = 0 THEN base ELSE StepY(b, c, f[i - 1])]
<1>1. MaxIters \in Nat \ {0}
  BY StableAssumption
<1>2. b \in Int /\ c \in Nat /\ 2 * d + b > 0
  BY YTerms
<1> HIDE DEF b, c
<1>3. ASSUME NEW r \in V PROVE StepY(b, c, r) \in W
  <2>1. /\ r \in [prev : Nat, value : Nat]
        /\ AbsDiff(r.value, r.prev) > 1 => 2 * r.value + b > 0
        /\ r \in W \/ AbsDiff(r.value, r.prev) > 1
    <3> USE DEF SteppedY
    <3>1. base.value = d /\ base.prev = 0 /\ base \in [prev : Nat, value : Nat]
      OBVIOUS
    <3>2. AbsDiff(d, 0) > 1
      BY DEF AbsDiff
    <3> HIDE DEF base
    <3> QED
      BY <1>2, <3>1, <3>2
  <2>2. CASE AbsDiff(r.value, r.prev) > 1
    <3>1. r.value \in Nat /\ 2 * r.value + b > 0
      BY <2>1, <2>2
    <3> DEFINE p == r.value
               z == NextY(p, b, c)
    <3>2. NotBelowY(z, b, c) /\ (AbsDiff(z, p) > 1 => 2 * z + b > 0)
      BY <1>2, <3>1, NextYStep
    <3>3. z \in Nat
      BY <3>2 DEF NotBelowY
    <3>4. [prev |-> p, value |-> z] \in W
      <4> DEFINE e == [prev |-> p, value |-> z]
      <4>1. e.prev = p /\ e.value = z /\ e \in [prev : Nat, value : Nat] /\ z = NextY(p, b, c)
        BY <3>1, <3>3
      <4> HIDE DEF e, z
      <4>2. SteppedY(e, b, c)
        BY <3>1, <3>2, <4>1 DEF SteppedY
      <4> QED
        BY <4>1, <4>2 DEF e
    <3> HIDE DEF z
    <3> QED
      BY <2>2, <3>4 DEF StepY, z
  <2>3. CASE ~(AbsDiff(r.value, r.prev) > 1)
    BY <2>1, <2>3 DEF StepY
  <2> QED
    BY <2>2, <2>3
<1>4. base \in V
  OBVIOUS
<1>5. PICK g : Iterates(g, F, base, MaxIters)
  BY <1>1, IterationExists
<1>6. W \subseteq V
  OBVIOUS
<1> HIDE DEF base, V, W
<1>7. g[0] = base /\ \A i \in 1..MaxIters : g[i] = F[g[i - 1]]
  BY <1>1, <1>5 DEF Iterates
<1>8. \A i \in 0..MaxIters : g[i] \in V
  <2>1. g[0] \in V
    BY <1>4, <1>7
  <2>2. \A i \in 1..MaxIters : g[i - 1] \in V => g[i] \in W
    BY <1>3, <1>7
  <2> QED
    BY <1>1, <1>6, <2>1, <2>2, IterationEnds
<1>9. Runs(g)
  <2>1. \A i \in 0..MaxIters : i # 0 => F[g[i - 1]] = StepY(b, c, g[i - 1])
    <3> SUFFICES ASSUME NEW i \in 0..MaxIters, i # 0 PROVE F[g[i - 1]] = StepY(b, c, g[i - 1])
      OBVIOUS
    <3>1. g[i - 1] \in V
      BY <1>1, <1>8
    <3> QED
      BY <3>1
  <2> HIDE DEF F
  <2> QED
    BY <1>5, <2>1 DEF Iterates
<1> DEFINE run == CHOOSE f : Runs(f)
<1>10. Runs(run)
  BY <1>9
<1>11. NewtonY(x, d) = run[MaxIters]
  BY NewtonYRun DEF base, b, c
<1> HIDE DEF run
<1>12. run[MaxIters] \in W
  <2>1. run[0] \in V
    BY <1>1, <1>4, <1>10
  <2>2. \A i \in 1..MaxIters : run[i - 1] \in V => run[i] \in W
    <3> SUFFICES ASSUME NEW i \in 1..MaxIters, run[i - 1] \in V PROVE run[i] \in W
      OBVIOUS
    <3>1. run[i] = StepY(b, c, run[i - 1])
      BY <1>1, <1>10
    <3> QED
      BY <1>3, <3>1
  <2> QED
    BY <1>1, <1>6, <2>1, <2>2, IterationEnds
<1> QED
  BY <1>11, <1>12 DEF W, b, c

\* computeY: however many steps the iteration is given, what it returns is a number whose
\* successor is above the solution.
LEMMA ComputeYNotBelow ==
    ASSUME NEW x \in Nat \ {0}, NEW d \in Nat, d >= 2
    PROVE  NotBelowY(ComputeY(x, d), LinearTerm(x, d), ConstantTerm(x, d))
BY NewtonYEnds DEF ComputeY, SteppedY

\* If it has converged, the number before it is not above the solution, unless it is zero.
LEMMA ConvergedYNotAbove ==
    ASSUME NEW b \in Int, NEW c \in Nat, NEW r, SteppedY(r, b, c), AbsDiff(r.value, r.prev) <= 1
    PROVE  r.value = 0 \/ AtMostSolution(r.value - 1, b, c)
<1> DEFINE p == r.prev
           z == r.value
           num == p * p + c
           den == 2 * p + b
<1>1. p \in Nat /\ z \in Nat /\ den \in Nat \ {0} /\ num \in Nat /\ num \in Int
  <2>1. p \in Nat /\ z \in Nat /\ 2 * p + b > 0
    BY DEF SteppedY
  <2> HIDE DEF p, z
  <2>2. p * p \in Nat
    BY <2>1, ProductNat
  <2> QED
    BY <2>1, <2>2
<1>2. den * z <= num
  <2>1. z = num \div den
    BY DEF SteppedY, NextY, NCoins
  <2> HIDE DEF num, den, z
  <2> QED
    BY <1>1, <2>1, DivBounds
<1>3. (z + 1) * (z + 1 + b) > c
  <2>1. ~((z + 1) * (z + 1 + b) <= c)
    BY DEF SteppedY, NotBelowY, AtMostSolution
  <2> HIDE DEF z
  <2>2. (z + 1) * (z + 1 + b) \in Int
    BY <1>1, Z3
  <2> QED
    BY <2>1, <2>2
<1>4. p = z \/ p = z + 1 \/ p = z - 1
  <2>1. AbsDiff(z, p) <= 1
    OBVIOUS
  <2> HIDE DEF p, z
  <2> QED
    BY <1>1, <2>1 DEF AbsDiff
<1> HIDE DEF p, z
<1>5. SUFFICES ASSUME z >= 1 PROVE (z - 1) * (z - 1 + b) <= c
  BY <1>1 DEF z, AtMostSolution
<1> DEFINE a == z * z + z * b
<1>6. (z - 1) * (z - 1 + b) = a - (2 * z + b) + 1 /\ a \in Int
  BY <1>1, Z3
<1>7. CASE p = z
  <2>1. den * z = a + z * z /\ num = z * z + c /\ z * z \in Int
    BY <1>1, <1>7, Z3
  <2> HIDE DEF a
  <2>2. a <= c
    BY <1>2, <1>6, <2>1
  <2> QED
    BY <1>1, <1>6, <1>7, <2>2
<1>8. CASE p = z - 1
  <2>1. den * z = a + z * z - 2 * z /\ num = z * z - 2 * z + 1 + c /\ z * z \in Int
    BY <1>1, <1>8, Z3
  <2> HIDE DEF a
  <2>2. a <= c + 1
    BY <1>1, <1>2, <1>6, <2>1
  <2> QED
    BY <1>1, <1>6, <1>8, <2>2
<1>9. CASE p = z + 1
  <2>1. den * z = a + z * z + 2 * z /\ num = z * z + 2 * z + 1 + c /\ z * z \in Int
    BY <1>1, <1>9, Z3
  <2>2. a <= c + 1
    <3> HIDE DEF a
    <3> QED
      BY <1>1, <1>2, <1>6, <2>1
  <2>3. z + 1 + b >= 1
    <3> SUFFICES ASSUME z + 1 + b <= 0 PROVE FALSE
      BY <1>1
    <3> DEFINE g == z + 1 + b
               u == z + 1
    <3>1. g \in Int /\ u \in Nat /\ g <= 0 /\ u * g > c
      BY <1>1, <1>3
    <3> HIDE DEF g, u
    <3>2. u * g <= u * 0 /\ u * g \in Int
      BY <3>1, ProductMono, Z3
    <3> QED
      BY <3>1, <3>2
  <2>4. CASE 2 * z + b >= 2
    <3> HIDE DEF a
    <3> QED
      BY <1>1, <1>6, <2>2, <2>4
  <2>5. CASE 2 * z + b < 2
    <3>1. z = 1 /\ b = -1
      BY <1>1, <1>5, <2>3, <2>5
    <3> QED
      BY <3>1
  <2> QED
    BY <1>1, <2>4, <2>5
<1> QED
  BY <1>4, <1>7, <1>8, <1>9

(***************************************************************************)
(* Swaps                                                                   *)
(***************************************************************************)

\* d is below the invariant of the balances x and y.
BelowInvariant(d, x, y) == 4 * x * y * (Ann * (x + y) - (Ann - 1) * d) >= d * d * d + 1

\* A balance above what computeY says leaves the pool above D: what the divisions of the two
\* terms drop is made up for.
LEMMA AboveComputeY ==
    ASSUME NEW x \in Nat \ {0}, NEW d \in Nat, d >= 2, NEW w \in Nat, w >= ComputeY(x, d) + 1
    PROVE  BelowInvariant(d, x, w)
<1> DEFINE n == Ann
           b == LinearTerm(x, d)
           c == ConstantTerm(x, d)
           y == ComputeY(x, d)
           q == d \div n
           k == 4 * x * n
<1>1. n \in Nat \ {0}
  BY StableAssumption, Z3 DEF Ann, NCoins
<1>2. q \in Nat /\ n * q <= d
  <2>1. d \in Int
    OBVIOUS
  <2> HIDE DEF n
  <2>2. d \div n \in Nat
    BY <1>1, DivNat
  <2>3. n * (d \div n) <= d
    BY <1>1, <2>1, DivBounds
  <2> QED
    BY <2>2, <2>3
<1>3. b = x + q - d /\ b \in Int
  BY <1>2 DEF LinearTerm
<1>4. c \in Nat /\ k * (c + 1) >= d * d * d + 1 /\ k \in Nat \ {0}
  <2> DEFINE a == d * d * d
             e == 2 * (2 * (x * Ann))
  <2>1. a \in Nat /\ a \in Int /\ e \in Nat \ {0} /\ e = k
    BY <1>1, Z3
  <2>2. c = a \div e
    BY DEF ConstantTerm, NCoins
  <2> HIDE DEF a, e, c, k
  <2>3. c \in Nat /\ e * c + e >= a + 1
    BY <2>1, <2>2, DivNat, DivBounds
  <2>4. k * (c + 1) = e * c + e
    BY <2>1, <2>3, Z3
  <2> QED
    BY <2>1, <2>3, <2>4 DEF a
<1>5. y \in Nat /\ (y + 1) * (y + 1 + b) > c /\ w >= y + 1
  <2>1. NotBelowY(y, b, c) /\ w >= y + 1
    BY ComputeYNotBelow
  <2> HIDE DEF y, b, c
  <2>2. y \in Nat /\ (y + 1) * (y + 1 + b) \in Int
    BY <1>3, <2>1, Z3 DEF NotBelowY
  <2> QED
    BY <1>4, <2>1, <2>2 DEF NotBelowY, AtMostSolution
<1> HIDE DEF n, b, c, y, q
<1>6. w * (w + b) >= c + 1 /\ w > 0 /\ w * (w + b) \in Int
  <2> DEFINE u == y + 1
             g == u + b
             h == w + b
  <2>1. u \in Nat /\ u > 0 /\ g \in Int /\ h \in Int /\ w >= u /\ h >= g /\ u * g > c
    BY <1>3, <1>5
  <2>2. u * g \in Int /\ w * h \in Int
    BY <2>1, Z3
  <2> HIDE DEF u, g, h
  <2>3. g > 0
    <3> SUFFICES ASSUME g <= 0 PROVE FALSE
      BY <2>1
    <3>1. u * g <= u * 0
      BY <2>1, ProductMono
    <3> QED
      BY <1>4, <2>1, <2>2, <3>1
  <2>4. u * g <= w * g /\ w * g <= w * h /\ w * g \in Int
    BY <2>1, <2>3, ProductMono, Z3
  <2>5. w * h >= c + 1
    BY <1>4, <2>1, <2>2, <2>4
  <2> QED
    BY <2>1, <2>2, <2>5 DEF h
<1>7. k * (w * (w + b)) >= d * d * d + 1
  <2> DEFINE h == w * (w + b)
             a == d * d * d
  <2>1. h \in Int /\ h >= c + 1 /\ a \in Nat
    BY <1>6, Z3
  <2> HIDE DEF h, a, k
  <2>2. k * (c + 1) <= k * h /\ k * h \in Int /\ k * (c + 1) \in Int
    BY <1>4, <2>1, ProductMono, Z3
  <2>3. k * (c + 1) >= a + 1
    BY <1>4 DEF a
  <2>4. k * h >= a + 1
    BY <2>1, <2>2, <2>3
  <2> QED
    BY <2>4 DEF h, a
<1>8. n * (w + b) <= n * (x + w) - (n - 1) * d
  <2>1. n * (w + b) = n * (x + w) + n * q - n * d
    BY <1>1, <1>2, <1>3, Z3
  <2>2. (n - 1) * d = n * d - d /\ n * d \in Int /\ n * q \in Int /\ n * (x + w) \in Int
    BY <1>1, <1>2, Z3
  <2> QED
    BY <1>2, <2>1, <2>2
<1>9. (4 * x * w) * (n * (w + b)) <= (4 * x * w) * (n * (x + w) - (n - 1) * d)
  <2>1. n * (w + b) \in Int /\ n * (x + w) - (n - 1) * d \in Int /\ 4 * x * w \in Nat
    BY <1>1, <1>3, Z3
  <2> QED
    BY <1>8, <2>1, ProductMono
<1>10. (4 * x * w) * (n * (w + b)) = k * (w * (w + b))
  BY <1>1, <1>3, Z3
<1>11. 4 * x * w * (n * (x + w) - (n - 1) * d) >= d * d * d + 1
  <2> DEFINE a == d * d * d
             e == k * (w * (w + b))
             g == (4 * x * w) * (n * (w + b))
             h == (4 * x * w) * (n * (x + w) - (n - 1) * d)
  <2>1. a \in Int /\ e \in Int /\ g \in Int /\ h \in Int
    BY <1>1, <1>3, Z3
  <2>2. e >= a + 1 /\ g <= h /\ g = e
    BY <1>7, <1>9, <1>10
  <2> HIDE DEF a, e, g, h
  <2>3. h >= a + 1
    BY <2>1, <2>2
  <2> QED
    BY <2>3 DEF h, a
<1> QED
  BY <1>11 DEF BelowInvariant, n

\* A number below the invariant of some balances is at most the invariant of larger ones, and
\* so is every smaller number.
LEMMA BelowGrows ==
    ASSUME NEW x \in Nat \ {0}, NEW y \in Nat \ {0}, NEW d \in Nat, BelowInvariant(d, x, y),
           NEW w \in Nat, w >= x, NEW e \in Nat, e <= d
    PROVE  AtMostInvariant(e, w, y)
<1> DEFINE n == Ann
           m == Ann - 1
           s == n * (x + y) - m * d
           t == n * (w + y) - m * d
<1>1. n \in Nat /\ m \in Nat
  BY StableAssumption, Z3 DEF Ann, NCoins
<1>2. 4 * x * y * s >= d * d * d + 1 /\ d * d * d \in Nat
  BY Z3 DEF BelowInvariant
<1> HIDE DEF n, m
<1>3. s \in Int /\ t \in Int /\ s <= t
  <2>1. n * (x + y) <= n * (w + y)
    <3>1. x + y \in Int /\ w + y \in Int /\ x + y <= w + y
      OBVIOUS
    <3> QED
      BY <1>1, <3>1, ProductMono
  <2>2. n * (x + y) \in Int /\ n * (w + y) \in Int /\ m * d \in Int
    BY <1>1, Z3
  <2> QED
    BY <2>1, <2>2
<1> HIDE DEF s, t
<1>4. s > 0
  <2> SUFFICES ASSUME s <= 0 PROVE FALSE
    BY <1>3
  <2> DEFINE f == 4 * x * y
  <2>1. f \in Nat
    BY Z3
  <2>2. f * s >= d * d * d + 1
    BY <1>2
  <2> HIDE DEF f
  <2>3. f * s <= f * 0 /\ f * s \in Int
    BY <1>3, <2>1, ProductMono, Z3
  <2> QED
    BY <1>2, <2>1, <2>2, <2>3
<1>5. 4 * w * y * t >= d * d * d + 1
  <2> DEFINE f == 4 * x * y
             g == 4 * w * y
  <2>1. f \in Nat /\ g \in Nat /\ f <= g
    <3>1. x * y <= w * y /\ x * y \in Nat /\ w * y \in Nat
      BY ProductMono, ProductNat
    <3>2. f = 4 * (x * y) /\ g = 4 * (w * y)
      BY Z3
    <3> QED
      BY <3>1, <3>2
  <2>2. f * s >= d * d * d + 1
    BY <1>2
  <2> HIDE DEF f, g
  <2>3. f * s <= g * s /\ g * s <= g * t /\ f * s \in Int /\ g * s \in Int /\ g * t \in Int
    BY <1>3, <1>4, <2>1, ProductMono, Z3
  <2>4. g * t >= d * d * d + 1
    BY <1>2, <2>2, <2>3
  <2> QED
    BY <2>4 DEF g
<1>6. e * e * e <= d * d * d
  <2>1. e * e <= d * d /\ e * e \in Nat /\ d * d \in Nat
    <3>1. e * e <= d * e /\ d * e <= d * d /\ e * e \in Nat /\ d * e \in Nat /\ d * d \in Nat
      BY ProductMono, ProductNat
    <3> QED
      BY <3>1
  <2>2. (e * e) * e <= (d * d) * e /\ (d * d) * e <= (d * d) * d
    BY <2>1, ProductMono
  <2>3. (e * e) * e \in Nat /\ (d * d) * e \in Nat /\ (d * d) * d \in Nat
    BY <2>1, ProductNat
  <2>4. (e * e) * e <= (d * d) * d
    BY <2>2, <2>3
  <2> QED
    BY <2>4
<1>7. 4 * w * y * m * e <= 4 * w * y * m * d
  <2>1. 4 * w * y * m \in Nat
    <3>1. w * y \in Nat
      BY ProductNat
    <3>2. (4 * (w * y)) * m \in Nat
      BY <1>1, <3>1, ProductNat
    <3>3. (4 * (w * y)) * m = 4 * w * y * m
      BY <1>1, Z3
    <3> QED
      BY <3>2, <3>3
  <2> QED
    BY <2>1, ProductMono
<1>8. e * e * e + 4 * w * y * m * e <= 4 * w * y * n * (w + y)
  <2> DEFINE a == e * e * e
             f == d * d * d
             g == 4 * w * y * m * e
             h == 4 * w * y * m * d
             i == 4 * w * y * n * (w + y)
             j == 4 * w * y * t
  <2>1. j = i - h
    BY <1>1, Z3 DEF t
  <2>2. a \in Int /\ f \in Int /\ g \in Int /\ h \in Int /\ i \in Int
    BY <1>1, Z3
  <2>3. a <= f /\ g <= h /\ j >= f + 1
    BY <1>5, <1>6, <1>7
  <2> HIDE DEF a, f, g, h, i, j
  <2>4. a + g <= i
    BY <2>1, <2>2, <2>3
  <2> QED
    BY <2>4 DEF a, g, i
<1> QED
  BY <1>8 DEF AtMostInvariant, m, n

\* The equation of the curve does not tell the two tokens apart.
LEMMA CurveSymmetric ==
    ASSUME NEW d \in Int, NEW x \in Int, NEW y \in Int
    PROVE  AtMostInvariant(d, x, y) <=> AtMostInvariant(d, y, x)
<1>1. Ann \in Int
  BY StableAssumption, Z3 DEF Ann, NCoins
<1>2. /\ 4 * x * y * (Ann - 1) * d = 4 * y * x * (Ann - 1) * d
      /\ 4 * x * y * Ann * (x + y) = 4 * y * x * Ann * (y + x)
  BY <1>1, Z3
<1> QED
  BY <1>2 DEF AtMostInvariant

(***************************************************************************)
(* The pool                                                                *)
(***************************************************************************)

\* What the proofs about the pool's steps need to know of a state: the amounts are numbers.
Amounted ==
    /\ kind \in Kinds /\ price \in Prices \cup {Precision}
    /\ reserves \in [Tokens -> Int]
    /\ supply \in Int

\* A quotient rounds towards zero: one that is positive is that of a positive dividend.
LEMMA QuotientDown ==
    ASSUME NEW n \in Int, NEW d \in Nat \ {0}
    PROVE  /\ Quotient(n, d) \in Int
           /\ Quotient(n, d) > 0 => d * Quotient(n, d) <= n
<1>1. CASE n < 0
  <2> DEFINE a == -n
             q == a \div d
  <2>1. a \in Nat /\ d > 0
    BY <1>1
  <2> HIDE DEF a
  <2>2. q \in Nat
    BY <2>1, DivNat
  <2>3. Quotient(n, d) = -q
    BY <1>1, <2>1 DEF Quotient, a
  <2> HIDE DEF q
  <2> QED
    BY <2>2, <2>3
<1>2. CASE ~(n < 0)
  <2> DEFINE q == n \div d
  <2>1. n \in Nat /\ d > 0 /\ ~(d < 0)
    BY <1>2
  <2>2. q \in Nat /\ d * q <= n
    BY <2>1, DivNat, DivBounds
  <2>3. Quotient(n, d) = q
    BY <1>2, <2>1 DEF Quotient
  <2> HIDE DEF q
  <2> QED
    BY <2>2, <2>3
<1> QED
  BY <1>1, <1>2

\* The trading fee is a part of the amount.
LEMMA FeeFits ==
    ASSUME NEW n \in Nat
    PROVE  TradingFee(n) \in Nat /\ TradingFee(n) <= n
<1> DEFINE f == n * FeeNumerator
           q == f \div FeeDenominator
<1>1. FeeDenominator \in Nat \ {0} /\ FeeNumerator \in Nat /\ FeeNumerator <= FeeDenominator
  BY StableAssumption
<1>2. f \in Nat /\ f \in Int
  BY <1>1, ProductNat
<1>3. f <= n * FeeDenominator /\ n * FeeDenominator \in Nat
  BY <1>1, ProductMono, ProductNat
<1> HIDE DEF f
<1>4. q \in Nat /\ FeeDenominator * q <= f
  BY <1>1, <1>2, DivNat, DivBounds
<1> HIDE DEF q
<1>5. q <= n
  <2> SUFFICES ASSUME q >= n + 1 PROVE FALSE
    BY <1>4
  <2>1. FeeDenominator * (n + 1) <= FeeDenominator * q
    BY <1>1, <1>4, ProductMono
  <2>2. FeeDenominator * (n + 1) = n * FeeDenominator + FeeDenominator
        /\ FeeDenominator * q \in Int
    BY <1>1, <1>4, Z3
  <2> QED
    BY <1>1, <1>2, <1>3, <1>4, <2>1, <2>2
<1> QED
  BY <1>4, <1>5 DEF TradingFee, q, f

\* Every token is scaled by a positive number.
LEMMA ScalePositive ==
    ASSUME Amounted
    PROVE  scale \in [Tokens -> Nat \ {0}]
<1>1. kind.multiplier \in [Tokens -> Nat \ {0}] /\ price \in Nat \ {0} /\ Precision \in Nat \ {0}
  BY StablePoolAssumption DEF Amounted
<1>2. ASSUME NEW t \in Tokens
      PROVE  kind.multiplier[t] * (IF ~kind.depegged THEN 1
                                   ELSE IF t = "A" THEN Precision ELSE price) \in Nat \ {0}
  <2>1. kind.multiplier[t] \in Nat \ {0}
    BY <1>1
  <2>2. (IF ~kind.depegged THEN 1 ELSE IF t = "A" THEN Precision ELSE price) \in Nat \ {0}
    BY <1>1
  <2> DEFINE a == kind.multiplier[t]
             b == IF ~kind.depegged THEN 1 ELSE IF t = "A" THEN Precision ELSE price
  <2>3. a \in Nat \ {0} /\ b \in Nat \ {0}
    BY <2>1, <2>2
  <2> HIDE DEF a, b
  <2>4. a * b \in Nat \ {0}
    BY <2>3, ProductNat
  <2> QED
    BY <2>4 DEF a, b
<1> QED
  BY <1>2 DEF scale, Scale

\* The scaled reserves of a pool that is large enough are positive, and D of them is at least
\* two.
LEMMA LargeBalances ==
    ASSUME Amounted, Large
    PROVE  /\ \A t \in Tokens : Balances[t] \in Nat \ {0} /\ Balances[t] = reserves[t] * scale[t]
           /\ NotBelowD(D(Balances), Balances["A"], Balances["B"])
<1>1. ASSUME NEW t \in Tokens
      PROVE  Balances[t] \in Nat \ {0} /\ Balances[t] = reserves[t] * scale[t]
  <2>1. Balances[t] = reserves[t] * scale[t]
    BY DEF Balances, UpscaledReserves, Upscale
  <2>2. reserves[t] \in Int /\ scale[t] \in Nat \ {0}
    BY ScalePositive DEF Amounted
  <2>3. Balances[t] \in Int
    BY <2>1, <2>2, Z3
  <2>4. Balances[t] >= MinReserve /\ MinReserve \in Nat \ {0}
    BY StablePoolAssumption DEF Large
  <2> QED
    BY <2>1, <2>3, <2>4
<1>2. Balances["A"] \in Nat \ {0} /\ Balances["B"] \in Nat \ {0}
  BY <1>1 DEF Tokens
<1>3. NotBelowD(D(Balances), Balances["A"], Balances["B"])
  BY <1>2, ComputeDNotBelow DEF D
<1> QED
  BY <1>1, <1>3

\* What a swap pays out leaves more of the other token than computeY asks for.
LEMMA SwapOutLeaves ==
    ASSUME Amounted, Large, NEW token \in Tokens, NEW n \in Nat
    PROVE  LET other == OtherToken(token)
               paid == (n - TradingFee(n)) * scale[token]
               out == SwapOut(token, n)
           IN  /\ paid \in Nat /\ paid <= n * scale[token]
               /\ out \in Int
               /\ out > 0 => Balances[other] - out * scale[other]
                                >= ComputeY(Balances[token] + paid, D(Balances)) + 1
<1> DEFINE other == OtherToken(token)
           paid == (n - TradingFee(n)) * scale[token]
           out == SwapOut(token, n)
           d == D(Balances)
           y == ComputeY(Balances[token] + paid, d)
           left == Balances[other] - y - 1
<1>1. other \in Tokens
  BY DEF OtherToken, Tokens
<1>2. scale[token] \in Nat \ {0} /\ scale[other] \in Nat \ {0}
  BY <1>1, ScalePositive
<1>3. paid \in Nat /\ paid <= n * scale[token]
  <2> DEFINE f == n - TradingFee(n)
             s == scale[token]
  <2>1. f \in Nat /\ f <= n /\ s \in Nat
    BY <1>2, FeeFits
  <2> HIDE DEF f, s
  <2>2. f * s \in Nat /\ f * s <= n * s
    BY <2>1, ProductNat, ProductMono
  <2> QED
    BY <2>2 DEF f, s
<1>4. d \in Nat /\ d >= 2 /\ Balances[token] \in Nat \ {0} /\ Balances[other] \in Nat \ {0}
  BY <1>1, LargeBalances DEF NotBelowD
<1>5. y \in Nat
  <2> DEFINE x == Balances[token] + paid
  <2>1. x \in Nat \ {0}
    BY <1>3, <1>4
  <2> HIDE DEF x, d
  <2>2. NotBelowY(ComputeY(x, d), LinearTerm(x, d), ConstantTerm(x, d))
    BY <1>4, <2>1, ComputeYNotBelow
  <2> QED
    BY <2>2 DEF NotBelowY, x
<1>6. out = Quotient(left, scale[other])
  BY DEF SwapOut, OutAmount, Downscale, UpscaledOut, Upscale, Balances
<1>7. left \in Int
  BY <1>4, <1>5
<1> DEFINE s == scale[other]
<1>8. out \in Int /\ (out > 0 => s * out <= left)
  <2> HIDE DEF left, s, out
  <2> QED
    BY <1>2, <1>6, <1>7, QuotientDown DEF s
<1>9. out > 0 => Balances[other] - out * s >= y + 1
  <2> DEFINE b == Balances[other]
  <2>1. b \in Nat /\ left = b - y - 1
    BY <1>4
  <2> HIDE DEF out, s, y, b, left
  <2>2. out * s = s * out /\ out * s \in Int
    BY <1>2, <1>8, Z3 DEF s
  <2>3. out > 0 => b - out * s >= y + 1
    BY <1>5, <1>8, <2>1, <2>2
  <2> QED
    BY <2>3 DEF b
<1> QED
  BY <1>3, <1>8, <1>9

\* After a swap the pool is above every number that D was at least.
LEMMA SwapKeepsBelow ==
    ASSUME Amounted, NEW token \in Tokens, NEW n \in Nat, Swap(token, n),
           NEW e \in Nat, e <= D(Balances)
    PROVE  AtMostInvariant(e, Balances'["A"], Balances'["B"])
<1> DEFINE other == OtherToken(token)
           paid == (n - TradingFee(n)) * scale[token]
           out == SwapOut(token, n)
           d == D(Balances)
           x == Balances[token] + paid
           v == Balances'[token]
           w == Balances'[other]
<1>1. Large /\ out > 0
      /\ reserves' = [reserves EXCEPT ![token] = @ + n, ![other] = @ - out]
      /\ kind' = kind /\ price' = price
  BY DEF Swap, Step
<1>2. other \in Tokens /\ other # token /\ scale' = scale
  BY <1>1 DEF OtherToken, Tokens, scale
<1>3. paid \in Nat /\ paid <= n * scale[token] /\ out \in Int
      /\ Balances[other] - out * scale[other] >= ComputeY(x, d) + 1
  BY <1>1, SwapOutLeaves
<1>4. d \in Nat /\ d >= 2 /\ Balances[token] \in Nat \ {0} /\ Balances[other] \in Nat \ {0}
      /\ Balances[token] = reserves[token] * scale[token]
      /\ Balances[other] = reserves[other] * scale[other]
  BY <1>1, <1>2, LargeBalances DEF NotBelowD
<1>5. reserves[token] \in Int /\ reserves[other] \in Int
      /\ scale[token] \in Nat \ {0} /\ scale[other] \in Nat \ {0}
  BY <1>2, ScalePositive DEF Amounted
<1>6. reserves'[token] = reserves[token] + n /\ reserves'[other] = reserves[other] - out
  BY <1>1, <1>2 DEF Amounted
<1>7. v = reserves'[token] * scale[token] /\ w = reserves'[other] * scale[other]
  BY <1>2 DEF Balances, UpscaledReserves, Upscale
<1> HIDE DEF d
<1>8. x \in Nat \ {0} /\ v \in Nat /\ v >= x
  <2> DEFINE r == reserves[token]
             s == scale[token]
             b == Balances[token]
  <2>1. r \in Int /\ s \in Nat /\ b \in Nat \ {0} /\ b = r * s /\ v = (r + n) * s
    BY <1>4, <1>5, <1>6, <1>7
  <2>2. (r + n) * s = r * s + n * s /\ r * s \in Int /\ n * s \in Nat
    <3> HIDE DEF r, s
    <3> QED
      BY <2>1, ProductNat, Z3
  <2>3. x = b + paid /\ paid <= n * s
    BY <1>3
  <2> HIDE DEF r, s, b, v, x, paid
  <2> QED
    BY <1>3, <2>1, <2>2, <2>3
<1>9. w \in Nat \ {0} /\ w >= ComputeY(x, d) + 1
  <2> DEFINE r == reserves[other]
             s == scale[other]
             y == ComputeY(x, d)
  <2>1. r \in Int /\ s \in Nat /\ w = (r - out) * s /\ r * s - out * s >= y + 1 /\ out \in Int
    BY <1>3, <1>4, <1>5, <1>6, <1>7
  <2>2. y \in Nat
    <3> HIDE DEF x
    <3>1. NotBelowY(y, LinearTerm(x, d), ConstantTerm(x, d))
      BY <1>4, <1>8, ComputeYNotBelow
    <3> QED
      BY <3>1 DEF NotBelowY
  <2> HIDE DEF r, s, y, out
  <2>3. (r - out) * s = r * s - out * s /\ (r - out) * s \in Int
    BY <2>1, Z3
  <2> HIDE DEF w
  <2>4. w \in Nat \ {0} /\ w >= y + 1
    BY <2>1, <2>2, <2>3
  <2> QED
    BY <2>4 DEF y
<1> HIDE DEF x, v, w
<1>10. BelowInvariant(d, x, w)
  BY <1>4, <1>8, <1>9, AboveComputeY
<1>11. AtMostInvariant(e, v, w)
  <2>1. e <= d
    BY DEF d
  <2> QED
    BY <1>4, <1>8, <1>9, <1>10, <2>1, BelowGrows
<1>12. AtMostInvariant(e, w, v)
  BY <1>8, <1>9, <1>11, CurveSymmetric
<1>13. \/ token = "A" /\ other = "B"
       \/ token = "B" /\ other = "A"
  BY DEF OtherToken, Tokens
<1> QED
  BY <1>11, <1>12, <1>13 DEF v, w

\* The first deposit gives LP tokens in a whole number.
LEMMA InitAmounted == Init => Amounted
<1> SUFFICES ASSUME Init PROVE Amounted
  OBVIOUS
<1>1. kind \in Kinds /\ price \in Prices \cup {Precision} /\ reserves \in [Tokens -> Nat \ {0}]
  BY StablePoolAssumption DEF Init
<1>2. supply = D(Balances) \div (IF kind.depegged THEN Precision ELSE 1)
  BY DEF Init, InvariantD, Balances, scale
<1>3. scale \in [Tokens -> Nat \ {0}]
  <2>1. kind.multiplier \in [Tokens -> Nat \ {0}] /\ price \in Nat \ {0} /\ Precision \in Nat \ {0}
    BY <1>1, StablePoolAssumption
  <2>2. ASSUME NEW t \in Tokens
        PROVE  kind.multiplier[t] * (IF ~kind.depegged THEN 1
                                     ELSE IF t = "A" THEN Precision ELSE price) \in Nat \ {0}
    <3> DEFINE a == kind.multiplier[t]
               b == IF ~kind.depegged THEN 1 ELSE IF t = "A" THEN Precision ELSE price
    <3>1. a \in Nat \ {0} /\ b \in Nat \ {0}
      BY <2>1
    <3> HIDE DEF a, b
    <3>2. a * b \in Nat \ {0}
      BY <3>1, ProductNat
    <3> QED
      BY <3>2 DEF a, b
  <2> QED
    BY <2>2 DEF scale, Scale
<1>4. Balances["A"] \in Nat \ {0} /\ Balances["B"] \in Nat \ {0}
  <2>1. ASSUME NEW t \in Tokens PROVE Balances[t] \in Nat \ {0}
    <3>1. Balances[t] = reserves[t] * scale[t]
      BY DEF Balances, UpscaledReserves, Upscale
    <3> DEFINE a == reserves[t]
               b == scale[t]
    <3>2. a \in Nat \ {0} /\ b \in Nat \ {0} /\ Balances[t] = a * b
      BY <1>1, <1>3, <3>1
    <3> HIDE DEF a, b
    <3> QED
      BY <3>2, ProductNat
  <2> QED
    BY <2>1 DEF Tokens
<1>5. D(Balances) \in Nat
  BY <1>4, ComputeDNotBelow DEF D, NotBelowD
<1>6. supply \in Nat
  <2> DEFINE a == D(Balances)
             b == IF kind.depegged THEN Precision ELSE 1
  <2>1. a \in Nat /\ b \in Nat \ {0} /\ supply = a \div b
    BY <1>2, <1>5, StablePoolAssumption
  <2> HIDE DEF a, b
  <2> QED
    BY <2>1, DivNat
<1> QED
  BY <1>1, <1>6 DEF Amounted

\* Every operation leaves amounts that are numbers, and a deposit, a withdrawal and a change
\* of the price change the supply or the price.
LEMMA StepAmounted == Amounted /\ [Next]_vars => Amounted'
<1> SUFFICES ASSUME Amounted, [Next]_vars PROVE Amounted'
  OBVIOUS
<1>1. ASSUME NEW token \in Tokens, NEW n \in SwapAmounts, Swap(token, n) PROVE Amounted'
  <2>1. n \in Nat
    BY StablePoolAssumption
  <2>2. Large /\ reserves' = [reserves EXCEPT ![token] = @ + n, ![OtherToken(token)] = @ - SwapOut(token, n)]
        /\ UNCHANGED <<kind, price, supply>>
    BY <1>1 DEF Swap, Step
  <2>3. SwapOut(token, n) \in Int
    BY <2>1, <2>2, SwapOutLeaves
  <2> DEFINE other == OtherToken(token)
             out == SwapOut(token, n)
  <2>4. reserves' \in [Tokens -> Int]
    <3>1. other \in Tokens /\ out \in Int /\ reserves \in [Tokens -> Int]
      BY <2>3 DEF OtherToken, Tokens, Amounted
    <3>2. reserves' = [reserves EXCEPT ![token] = @ + n, ![other] = @ - out]
      BY <2>2
    <3> HIDE DEF other, out
    <3> QED
      BY <2>1, <3>1, <3>2
  <2> QED
    BY <2>2, <2>4 DEF Amounted
<1>2. ASSUME NEW amounts \in DepositAmounts, Deposit(amounts) PROVE Amounted'
  <2>1. amounts \in [Tokens -> Nat]
    BY StablePoolAssumption
  <2> DEFINE mint == ImbalanceDeposit(amounts, reserves, supply, scale)
  <2>2. mint \in Nat \ {0} /\ supply' = supply + mint
        /\ reserves' = [t \in Tokens |-> reserves[t] + amounts[t]]
        /\ UNCHANGED <<kind, price>>
    BY <1>2 DEF Deposit
  <2> HIDE DEF mint
  <2> QED
    BY <2>1, <2>2 DEF Amounted
<1>3. ASSUME NEW token \in Tokens, NEW lp \in LpAmounts, Withdraw(token, lp) PROVE Amounted'
  <2>1. lp \in Nat
    BY StablePoolAssumption
  <2> DEFINE out == WithdrawOne(token, lp, reserves, supply, scale)
  <2>2. out \in Nat \ {0} /\ supply' = supply - lp
        /\ reserves' = [reserves EXCEPT ![token] = @ - out]
        /\ UNCHANGED <<kind, price>>
    BY <1>3 DEF Withdraw
  <2> HIDE DEF out
  <2> QED
    BY <2>1, <2>2 DEF Amounted
<1>4. CASE PriceMoves
  BY <1>4 DEF PriceMoves, Amounted
<1>5. CASE UNCHANGED vars
  BY <1>5 DEF vars, Amounted
<1> QED
  BY <1>1, <1>2, <1>3, <1>4, <1>5 DEF Next

\* In every state that operations lead to, the amounts are numbers.
LEMMA AmountedAlways == Spec => []Amounted
<1>1. Init => Amounted
  BY InitAmounted
<1>2. Amounted /\ [Next]_vars => Amounted'
  BY StepAmounted
<1> QED
  BY <1>1, <1>2, PTL DEF Spec

\* The part of SwapsKeepInvariant that a step has to show.
InvariantKept ==
    supply' = supply /\ price' = price
    => \A d \in D(Balances) - 1 .. D(Balances) + 1 :
          AtMostInvariant(d, Balances["A"], Balances["B"])
          => AtMostInvariant(d, Balances'["A"], Balances'["B"])

\* No step lowers the invariant of the pool, unless LP tokens or the price change.
LEMMA StepKeepsInvariant == Amounted /\ [Next]_vars => [InvariantKept]_vars
<1> SUFFICES ASSUME Amounted, [Next]_vars PROVE [InvariantKept]_vars
  OBVIOUS
<1>1. ASSUME NEW token \in Tokens, NEW n \in SwapAmounts, Swap(token, n) PROVE InvariantKept
  <2>1. n \in Nat
    BY StablePoolAssumption
  <2>2. Large
    BY <1>1 DEF Swap, Step
  <2> DEFINE m == D(Balances)
  <2>3. m \in Nat /\ m >= 2 /\ ~AtMostInvariant(m + 1, Balances["A"], Balances["B"])
    BY <2>2, LargeBalances DEF NotBelowD
  <2> SUFFICES ASSUME NEW d \in m - 1 .. m + 1, AtMostInvariant(d, Balances["A"], Balances["B"])
               PROVE  AtMostInvariant(d, Balances'["A"], Balances'["B"])
    BY DEF InvariantKept
  <2>4. d \in Nat /\ d # m + 1 /\ d <= m
    <3> HIDE DEF m
    <3>1. d \in Nat /\ d <= m + 1
      BY <2>3
    <3>2. d # m + 1
      BY <2>3
    <3> QED
      BY <2>3, <3>1, <3>2
  <2> QED
    BY <1>1, <2>1, <2>4, SwapKeepsBelow
<1>2. ASSUME NEW amounts \in DepositAmounts, Deposit(amounts) PROVE InvariantKept
  <2> DEFINE mint == ImbalanceDeposit(amounts, reserves, supply, scale)
  <2>1. mint \in Nat \ {0} /\ supply' = supply + mint /\ supply \in Int
    BY <1>2 DEF Deposit, Amounted
  <2> HIDE DEF mint
  <2>2. supply' # supply
    BY <2>1
  <2> QED
    BY <2>2 DEF InvariantKept
<1>3. ASSUME NEW token \in Tokens, NEW lp \in LpAmounts, Withdraw(token, lp) PROVE InvariantKept
  <2>1. lp \in Nat /\ supply \in Int /\ supply' = supply - lp
        /\ WithdrawOne(token, lp, reserves, supply, scale) \in Nat \ {0}
    BY <1>3, StablePoolAssumption DEF Withdraw, Amounted
  <2>2. lp # 0
    BY <2>1 DEF WithdrawOne
  <2>3. supply' # supply
    BY <2>1, <2>2
  <2> QED
    BY <2>3 DEF InvariantKept
<1>4. CASE PriceMoves
  <2>1. price' # price
    BY <1>4 DEF PriceMoves
  <2> QED
    BY <2>1 DEF InvariantKept
<1>5. CASE UNCHANGED vars
  BY <1>5
<1> QED
  BY <1>1, <1>2, <1>3, <1>4, <1>5 DEF Next

\* A swap never lowers the exact invariant of a stable pool: computeOutAmount pays out what
\* computeY leaves over, less one, and neither iteration ends below its solution by one or
\* more, however many steps it is given and however its divisions round.
THEOREM SwapsKeepInvariantHolds == Spec => SwapsKeepInvariant
<1>1. Spec => []Amounted
  BY AmountedAlways
<1>2. Amounted /\ [Next]_vars => [InvariantKept]_vars
  BY StepKeepsInvariant
<1>3. Spec => [][InvariantKept]_vars
  BY <1>1, <1>2, PTL DEF Spec
<1> QED
  BY <1>3 DEF SwapsKeepInvariant, InvariantKept

\* The arguments of computeY when a swap is asked for.
LEMMA SwapArguments ==
    ASSUME Amounted, Large, NEW token \in Tokens, NEW n \in SwapAmounts
    PROVE  /\ Balances[token] + Upscale(n, token, scale) \in Nat \ {0}
           /\ D(Balances) \in Nat /\ D(Balances) >= 2
<1> DEFINE s == scale[token]
<1>1. n \in Nat /\ s \in Nat /\ Balances[token] \in Nat \ {0}
  BY ScalePositive, LargeBalances, StablePoolAssumption
<1>2. Upscale(n, token, scale) \in Nat
  <2>1. Upscale(n, token, scale) = n * s
    BY DEF Upscale
  <2> HIDE DEF s
  <2> QED
    BY <1>1, <2>1, ProductNat
<1>3. D(Balances) \in Nat /\ D(Balances) >= 2
  BY LargeBalances DEF NotBelowD
<1> QED
  BY <1>1, <1>2, <1>3

\* In every pool that operations lead to, and for every swap asked of it, computeD and computeY
\* return a number whose successor is above the solution: the two halves of NewtonIsExact that
\* the pool's safety rests on, without the assumption that the iterations have converged.
NewtonNeverTooLow ==
    Large =>
    LET d == D(Balances)
    IN  /\ d >= 2 /\ ~AtMostInvariant(d + 1, Balances["A"], Balances["B"])
        /\ \A token \in Tokens, n \in SwapAmounts :
              LET x == Balances[token] + Upscale(n, token, scale)
              IN  ~AtMostSolution(ComputeY(x, d) + 1, LinearTerm(x, d), ConstantTerm(x, d))

\* Newton's method, as computeD and computeY run it, never ends too low.
THEOREM NewtonNeverTooLowHolds == Spec => []NewtonNeverTooLow
<1>1. Spec => []Amounted
  BY AmountedAlways
<1>2. Amounted => NewtonNeverTooLow
  <2> SUFFICES ASSUME Amounted, Large PROVE NewtonNeverTooLow
    BY DEF NewtonNeverTooLow
  <2> DEFINE d == D(Balances)
  <2>1. d \in Nat /\ d >= 2 /\ ~AtMostInvariant(d + 1, Balances["A"], Balances["B"])
    BY LargeBalances DEF NotBelowD
  <2> HIDE DEF d
  <2>2. ASSUME NEW token \in Tokens, NEW n \in SwapAmounts, NEW x,
               x = Balances[token] + Upscale(n, token, scale)
        PROVE  ~AtMostSolution(ComputeY(x, d) + 1, LinearTerm(x, d), ConstantTerm(x, d))
    <3>1. x \in Nat \ {0}
      BY <2>2, SwapArguments
    <3> QED
      BY <2>1, <3>1, ComputeYNotBelow DEF NotBelowY
  <2> QED
    BY <2>1, <2>2 DEF NewtonNeverTooLow, d
<1> QED
  BY <1>1, <1>2, PTL

\* Where the iteration for y has converged, computeY returns the whole number below the
\* solution or the one after it: the other half of what NewtonIsExact asks of it.  (Zero is
\* excepted: the number before it is no amount.)
ConvergedYIsExact ==
    Large =>
    LET d == D(Balances)
    IN  \A token \in Tokens, n \in SwapAmounts :
           LET x == Balances[token] + Upscale(n, token, scale)
               last == NewtonY(x, d)
           IN  AbsDiff(last.value, last.prev) <= 1 =>
                  \/ ComputeY(x, d) = 0
                  \/ AtMostSolution(ComputeY(x, d) - 1, LinearTerm(x, d), ConstantTerm(x, d))

\* computeY, once converged, neither overpays nor underpays by more than one unit.
THEOREM ConvergedYIsExactHolds == Spec => []ConvergedYIsExact
<1>1. Spec => []Amounted
  BY AmountedAlways
<1>2. Amounted => ConvergedYIsExact
  <2> SUFFICES ASSUME Amounted, Large PROVE ConvergedYIsExact
    BY DEF ConvergedYIsExact
  <2> DEFINE d == D(Balances)
             Exact(x) == LET last == NewtonY(x, d)
                         IN  AbsDiff(last.value, last.prev) <= 1 =>
                                \/ ComputeY(x, d) = 0
                                \/ AtMostSolution(ComputeY(x, d) - 1, LinearTerm(x, d),
                                                  ConstantTerm(x, d))
  <2>1. ASSUME NEW token \in Tokens, NEW n \in SwapAmounts
        PROVE  Exact(Balances[token] + Upscale(n, token, scale))
    <3> DEFINE x == Balances[token] + Upscale(n, token, scale)
               b == LinearTerm(x, d)
               c == ConstantTerm(x, d)
               r == NewtonY(x, d)
    <3>1. x \in Nat \ {0} /\ d \in Nat /\ d >= 2
      BY SwapArguments
    <3> HIDE DEF x, d
    <3>2. b \in Int /\ c \in Nat /\ SteppedY(r, b, c) /\ ComputeY(x, d) = r.value
      BY <3>1, YTerms, NewtonYEnds DEF ComputeY
    <3> HIDE DEF b, c, r
    <3>3. AbsDiff(r.value, r.prev) <= 1 => r.value = 0 \/ AtMostSolution(r.value - 1, b, c)
      BY <3>2, ConvergedYNotAbove
    <3>4. Exact(x)
      BY <3>2, <3>3 DEF b, c, r
    <3> QED
      BY <3>4 DEF x
  <2> QED
    BY <2>1 DEF ConvergedYIsExact
<1> QED
  BY <1>1, <1>2, PTL
=============================================================================
