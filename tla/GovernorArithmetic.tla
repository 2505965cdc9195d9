------------------------- MODULE GovernorArithmetic -------------------------
(***************************************************************************)
(* Numbers of steps and their lengths, as the methods of TimeGovernor      *)
(* compute them, and the next fixed mark, for any governor.                *)
(***************************************************************************)
EXTENDS TimeGovernorOps, TLAPS, WellFoundedInduction

\* Every nonempty set of times has a first one.
LEMMA LeastTime ==
  ASSUME NEW S, S \subseteq Nat, S # {}
  PROVE  \E x \in S : \A y \in S : x <= y
<1>1. \E x \in S : \A y \in S : ~ (<<y, x>> \in OpToRel(<, Nat))
  BY NatLessThanWellFounded, WFMin
<1>2. PICK x \in S : \A y \in S : ~ (<<y, x>> \in OpToRel(<, Nat))
  BY <1>1
<1>3. \A y \in S : ~ (y < x)
  BY <1>2 DEF OpToRel
<1> QED BY <1>3

\* A quotient of ticks, bounded from both sides.
LEMMA Quotient ==
  ASSUME NEW a \in Nat, NEW b \in Nat, b > 0
  PROVE  /\ a \div b \in Nat
         /\ (a \div b) * b <= a
         /\ a < (a \div b) * b + b
OBVIOUS

\* A length divided into no more parts than it has ticks.
LEMMA PartOfLength ==
  ASSUME NEW x \in Nat, NEW n \in Nat, n >= 1, n <= x
  PROVE  /\ x \div n \in 1 .. x
         /\ n >= 2 => 2 * (x \div n) <= x
<1> DEFINE q == x \div n
<1>1. q \in Nat /\ q * n <= x /\ x < q * n + n
  BY Quotient
<1>2. q >= 1
  <2>1. SUFFICES ASSUME q = 0 PROVE FALSE
    BY <1>1
  <2> QED BY <1>1, <2>1
<1>3. q <= q * n
  BY <1>1
<1>4. n >= 2 => 2 * q <= q * n
  BY <1>1
<1> QED BY <1>1, <1>2, <1>3, <1>4

\* ceil(full / est) lies between one and full.
LEMMA CeilDivBounds ==
  ASSUME NEW a \in Nat, NEW b \in Nat, a >= 1, b >= 1
  PROVE  CeilDiv(a, b) \in 1 .. a
<1> DEFINE q == (a + b - 1) \div b
<1>1. q \in Nat /\ q * b <= a + b - 1 /\ a + b - 1 < q * b + b
  BY Quotient
<1>2. q >= 1
  <2>1. SUFFICES ASSUME q = 0 PROVE FALSE
    BY <1>1
  <2> QED BY <1>1, <2>1
<1>3. q <= a
  <2>1. SUFFICES ASSUME q >= a + 1 PROVE FALSE
    BY <1>1
  <2>2. q * b >= (a + 1) * b
    BY <1>1, <2>1
  <2>3. (a + 1) * b = a * b + b /\ a * b >= a
    OBVIOUS
  <2> QED BY <1>1, <2>2, <2>3
<1> QED BY <1>1, <1>2, <1>3 DEF CeilDiv

\* round(rest / step) lies between one and the rest, for a step no longer than the rest.
LEMMA RoundDivBounds ==
  ASSUME NEW a \in Nat, NEW b \in Nat, b >= 1, b <= a
  PROVE  RoundDiv(a, b) \in 1 .. a
<1> DEFINE q == (2 * a + b) \div (2 * b)
<1>1. q \in Nat /\ q * (2 * b) <= 2 * a + b /\ 2 * a + b < q * (2 * b) + 2 * b
  BY Quotient
<1>2. q >= 1
  <2>1. SUFFICES ASSUME q = 0 PROVE FALSE
    BY <1>1
  <2> QED BY <1>1, <2>1
<1>3. q <= a
  <2>1. SUFFICES ASSUME q >= a + 1 PROVE FALSE
    BY <1>1
  <2>2. q * (2 * b) >= (a + 1) * (2 * b)
    BY <1>1, <2>1
  <2>3. (a + 1) * (2 * b) = 2 * (a * b) + 2 * b /\ a * b >= a
    OBVIOUS
  <2> QED BY <1>1, <2>2, <2>3
<1> QED BY <1>1, <1>2, <1>3 DEF RoundDiv

\* A length that is divided without a rest.
LEMMA WholeQuotient ==
  ASSUME NEW x \in Nat, NEW n \in Nat, n >= 1, x % n = 0
  PROVE  x \div n \in Nat /\ x = n * (x \div n)
OBVIOUS

\* round(k c / c) and k c / k.
LEMMA WholeMultiple ==
  ASSUME NEW k \in Nat, NEW c \in Nat, k >= 1, c >= 1
  PROVE  RoundDiv(k * c, c) = k /\ (k * c) \div k = c
<1> DEFINE kc == k * c
           q == (2 * kc + c) \div (2 * c)
           r == kc \div k
<1>1. kc \in Nat
  OBVIOUS
<1>2. q \in Nat /\ q * (2 * c) <= 2 * kc + c /\ 2 * kc + c < q * (2 * c) + 2 * c
  BY <1>1, Quotient
<1>3. ~ (q >= k + 1)
  <2>1. SUFFICES ASSUME q >= k + 1 PROVE FALSE
    OBVIOUS
  <2>2. q * (2 * c) >= (k + 1) * (2 * c)
    BY <1>2, <2>1
  <2>3. (k + 1) * (2 * c) = 2 * kc + 2 * c
    OBVIOUS
  <2> HIDE DEF q, kc
  <2> QED BY <1>1, <1>2, <2>2, <2>3
<1>4. ~ (q + 1 <= k)
  <2>1. SUFFICES ASSUME q + 1 <= k PROVE FALSE
    OBVIOUS
  <2>2. (q + 1) * (2 * c) <= k * (2 * c)
    BY <1>2, <2>1
  <2>3. k * (2 * c) = 2 * kc /\ (q + 1) * (2 * c) = q * (2 * c) + 2 * c
    BY <1>2
  <2> HIDE DEF q, kc
  <2> QED BY <1>1, <1>2, <2>2, <2>3
<1>5. q = k
  BY <1>2, <1>3, <1>4
<1>6. r \in Nat /\ r * k <= kc /\ kc < r * k + k
  BY <1>1, Quotient
<1>7. ~ (r >= c + 1)
  <2>1. SUFFICES ASSUME r >= c + 1 PROVE FALSE
    OBVIOUS
  <2>2. r * k >= (c + 1) * k
    BY <1>6, <2>1
  <2>3. (c + 1) * k = kc + k
    OBVIOUS
  <2> HIDE DEF r, kc
  <2> QED BY <1>1, <1>6, <2>2, <2>3
<1>8. ~ (r + 1 <= c)
  <2>1. SUFFICES ASSUME r + 1 <= c PROVE FALSE
    OBVIOUS
  <2>2. (r + 1) * k <= c * k
    BY <1>6, <2>1
  <2>3. c * k = kc /\ (r + 1) * k = r * k + k
    BY <1>6
  <2> HIDE DEF r, kc
  <2> QED BY <1>1, <1>6, <2>2, <2>3
<1>9. r = c
  BY <1>6, <1>7, <1>8
<1> QED BY <1>5, <1>9 DEF RoundDiv

\* full / ceil(full / est) is at most est, and more than half of it when there is more than
\* one step.
LEMMA DividedLength ==
  ASSUME NEW a \in Nat, NEW b \in Nat, a >= 1, b >= 1, NEW n, n = CeilDiv(a, b),
         a % n = 0
  PROVE  LET q == a \div n
         IN  /\ n \in Nat /\ n >= 1 /\ q \in Nat /\ a = n * q
             /\ q <= b /\ (n >= 2 => 2 * q > b)
<1> DEFINE q == a \div n
<1>1. n \in Nat /\ n >= 1
  BY CeilDivBounds
<1>2. q \in Nat /\ a = n * q
  BY <1>1, WholeQuotient
<1>3. n * b <= a + b - 1 /\ a + b - 1 < n * b + b
  BY Quotient DEF CeilDiv
<1> HIDE DEF q
<1>4. n * q <= n * b
  BY <1>1, <1>2, <1>3
<1>5. q <= b
  <2>1. SUFFICES ASSUME q >= b + 1 PROVE FALSE
    BY <1>2
  <2>2. n * q >= n * (b + 1) /\ n * (b + 1) = n * b + n
    BY <1>1, <1>2, <2>1
  <2> QED BY <1>1, <1>2, <1>4, <2>2
<1>6. n >= 2 => 2 * q > b
  <2>1. SUFFICES ASSUME n >= 2, 2 * q <= b PROVE FALSE
    BY <1>2
  <2>2. n * (2 * q) <= n * b
    BY <1>1, <1>2, <2>1
  <2>3. n * (2 * q) = 2 * (n * q)
    BY <1>1, <1>2
  <2>4. n * b >= 2 * b
    BY <1>1, <2>1
  <2> QED BY <1>1, <1>2, <1>3, <2>2, <2>3, <2>4
<1> QED BY <1>1, <1>2, <1>5, <1>6 DEF q

\* Rounded up, that number makes steps that are not longer than asked for.
LEMMA StepsWithinLimit ==
  ASSUME NEW a \in Nat, NEW b \in Nat, a >= 1, b >= 1
  PROVE  a \div CeilDiv(a, b) <= b
<1> DEFINE n == CeilDiv(a, b)
           q == a \div n
<1>1. n \in Nat /\ n >= 1
  BY CeilDivBounds
<1>2. q \in Nat /\ q * n <= a
  BY <1>1, Quotient
<1>3. a + b - 1 < n * b + b
  BY Quotient DEF CeilDiv
<1> HIDE DEF n, q
<1>4. SUFFICES ASSUME q >= b + 1 PROVE FALSE
  BY <1>2 DEF n, q
<1>5. q * n >= (b + 1) * n /\ (b + 1) * n = n * b + n
  BY <1>1, <1>2, <1>4
<1> QED BY <1>1, <1>2, <1>3, <1>5

\* TimeMarks::next finds the first fixed mark after the actual time.
LEMMA NextFixed ==
  ASSUME NEW F, F \subseteq Nat, NEW g, t(g) \in Nat, NEW e \in F, t(g) < e
  PROVE  /\ next_fixed(F, g) \in F
         /\ t(g) < next_fixed(F, g)
         /\ next_fixed(F, g) <= e
         /\ \A m \in F : t(g) < m => next_fixed(F, g) <= m
<1> DEFINE later == {m \in F : t(g) < m}
<1>1. later \subseteq Nat /\ later # {}
  OBVIOUS
<1>2. \E x \in later : \A y \in later : x <= y
  BY <1>1, LeastTime
<1>3. next_fixed(F, g) = CHOOSE m \in later : \A n \in later : m <= n
  BY <1>1 DEF next_fixed
<1>4. next_fixed(F, g) \in later /\ \A n \in later : next_fixed(F, g) <= n
  BY <1>2, <1>3
<1> QED BY <1>4

\* A factor that is not smaller
LEMMA LargerProduct ==
  ASSUME NEW x \in Nat, NEW y \in Nat, NEW b \in Nat, x <= y
  PROVE  x * b <= y * b /\ x * b \in Nat /\ y * b \in Nat
<1> DEFINE d == y - x
<1>1. d \in Nat /\ y = x + d
  OBVIOUS
<1> HIDE DEF d
<1>2. y * b = x * b + d * b /\ d * b \in Nat /\ x * b \in Nat
  BY <1>1
<1> QED BY <1>2

\* The quotient is the number whose multiples enclose the dividend.
LEMMA QuotientIs ==
  ASSUME NEW a \in Nat, NEW b \in Nat, b >= 1, NEW k \in Nat, k * b <= a, a < k * b + b
  PROVE  a \div b = k
<1> DEFINE q == a \div b
<1>1. q \in Nat /\ q * b <= a /\ a < q * b + b
  BY Quotient
<1> HIDE DEF q
<1>2. ASSUME NEW x \in Nat, NEW y \in Nat, x * b <= a, a < y * b + b PROVE ~ (x >= y + 1)
  <2> SUFFICES ASSUME x >= y + 1 PROVE FALSE
    OBVIOUS
  <2>1. (y + 1) * b <= x * b
    BY LargerProduct
  <2>2. (y + 1) * b = y * b + b
    OBVIOUS
  <2>3. x * b \in Nat /\ y * b \in Nat
    OBVIOUS
  <2> HIDE DEF q
  <2> QED BY <1>2, <2>1, <2>2, <2>3
<1>3. ~ (q >= k + 1) /\ ~ (k >= q + 1)
  BY <1>1, <1>2
<1> QED BY <1>1, <1>3 DEF q

\* Divided by more, a number gives no more.
LEMMA SmallerQuotient ==
  ASSUME NEW a \in Nat, NEW m \in Nat, NEW n \in Nat, n >= 1, n <= m
  PROVE  a \div m <= a \div n
<1> DEFINE p == a \div m
           q == a \div n
<1>1. p \in Nat /\ p * m <= a /\ q \in Nat /\ a < q * n + n
  BY Quotient
<1> HIDE DEF p, q
<1> SUFFICES ASSUME p >= q + 1 PROVE FALSE
  BY <1>1 DEF p, q
<1>2. (q + 1) * n <= p * n
  BY <1>1, LargerProduct
<1>3. n * p <= m * p
  BY <1>1, LargerProduct
<1>4. (q + 1) * n = q * n + n /\ n * p = p * n /\ m * p = p * m
  BY <1>1
<1>5. q * n \in Nat /\ p * n \in Nat /\ p * m \in Nat
  BY <1>1
<1> QED BY <1>1, <1>2, <1>3, <1>4, <1>5

\* Steps of a length divided by a smaller bound are not longer.
LEMMA SmallerSteps ==
  ASSUME NEW a \in Nat, a >= 1, NEW b \in Nat, b >= 1, NEW c \in Nat, b <= c
  PROVE  a \div CeilDiv(a, b) <= a \div CeilDiv(a, c)
<1>1. ASSUME NEW x \in Nat, x >= 1 PROVE CeilDiv(a, x) = (a - 1) \div x + 1
  <2> DEFINE q == (a - 1) \div x
  <2>1. q \in Nat /\ q * x <= a - 1 /\ a - 1 < q * x + x
    BY <1>1, Quotient
  <2> HIDE DEF q
  <2>2. (q + 1) * x = q * x + x /\ q * x \in Nat
    BY <2>1
  <2>3. (q + 1) * x <= a + x - 1 /\ a + x - 1 < (q + 1) * x + x
    BY <1>1, <2>1, <2>2
  <2>4. a + x - 1 \in Nat /\ q + 1 \in Nat
    BY <2>1
  <2>5. (a + x - 1) \div x = q + 1
    BY <1>1, <2>3, <2>4, QuotientIs
  <2> QED BY <2>5 DEF CeilDiv, q
<1>2. (a - 1) \div c <= (a - 1) \div b /\ (a - 1) \div c \in Nat /\ (a - 1) \div b \in Nat
  <2> DEFINE x == a - 1
  <2>1. x \in Nat /\ c >= 1 /\ b > 0 /\ c > 0
    OBVIOUS
  <2> HIDE DEF x
  <2>2. x \div c <= x \div b
    BY <2>1, SmallerQuotient
  <2>3. x \div c \in Nat /\ x \div b \in Nat
    BY <2>1, Quotient
  <2> QED BY <2>2, <2>3 DEF x
<1>3. CeilDiv(a, c) \in Nat /\ CeilDiv(a, b) \in Nat /\ CeilDiv(a, c) >= 1
      /\ CeilDiv(a, c) <= CeilDiv(a, b)
  BY <1>1, <1>2
<1> QED BY <1>3, SmallerQuotient
=============================================================================
