------------------------------ MODULE MoneyProofs ------------------------------
(* Quotes are exact to their last digit and conversions are rounded once, for  *)
(* every number of significant digits, every width of the integers and every   *)
(* rate, amount and currency.                                                  *)
EXTENDS Money, FiniteSetTheorems, TLAPS

-----------------------------------------------------------------------------
(* Numbers.                                                                    *)

\* The naturals are well-ordered: by the finite sets 0..x under inclusion.
LEMMA LeastNatural ==
    ASSUME NEW T, T \subseteq Nat, T # {}
    PROVE  \E x \in T : \A y \in T : x <= y
<1> DEFINE U == {0..x : x \in T}
<1>1. U \subseteq FiniteSubsetsOf(Nat)
  <2>1. SUFFICES ASSUME NEW x \in T PROVE 0..x \in FiniteSubsetsOf(Nat)
    OBVIOUS
  <2>2. x \in Int /\ 0..x \subseteq Nat
    OBVIOUS
  <2>3. IsFiniteSet(0..x)
    BY <2>2, FS_Interval
  <2> QED BY <2>2, <2>3 DEF FiniteSubsetsOf
<1>2. U # {}
  OBVIOUS
<1> HIDE DEF U
<1>3. PICK u \in U : \A v \in U : ~ (<<v, u>> \in StrictSubsetOrdering(Nat))
  BY <1>1, <1>2, WFMin, FS_StrictSubsetOrderingWellFounded, Zenon
<1>4. PICK x \in T : u = 0..x
  BY DEF U
<1>5. ASSUME NEW y \in T, y < x PROVE FALSE
  <2>1. 0..y \subseteq 0..x /\ 0..y # 0..x /\ 0..x \subseteq Nat
    BY <1>5
  <2>2. <<0..y, u>> \in StrictSubsetOrdering(Nat)
    BY <2>1, <1>4 DEF StrictSubsetOrdering
  <2> QED BY <1>3, <2>2 DEF U
<1> QED BY <1>4, <1>5

\* The first powers of ten, as a table.
IsTable(n, g) ==
    /\ g \in [0 .. n -> Nat]
    /\ \A m \in 0 .. n : g[m] = IF m = 0 THEN 1 ELSE 10 * g[m - 1]

LEMMA TableExists ==
    ASSUME NEW n \in Nat
    PROVE  \E g : IsTable(n, g)
<1> DEFINE T == {k \in Nat : ~ \E g : IsTable(k, g)}
<1>1. SUFFICES ASSUME T # {} PROVE FALSE
  OBVIOUS
<1>2. PICK k \in T : \A j \in T : k <= j
  BY <1>1, LeastNatural
<1>3. CASE k = 0
  <2>1. IsTable(0, [m \in 0 .. 0 |-> 1])
    BY DEF IsTable
  <2> QED BY <1>2, <1>3, <2>1
<1>4. CASE k # 0
  <2>1. k - 1 \in Nat /\ k - 1 \notin T
    BY <1>2, <1>4
  <2>2. PICK g : IsTable(k - 1, g)
    BY <2>1
  <2> DEFINE h == [m \in 0 .. k |-> IF m = k THEN 10 * g[k - 1] ELSE g[m]]
  <2>3. h \in [0 .. k -> Nat]
    BY <2>1, <2>2 DEF IsTable
  <2>4. ASSUME NEW m \in 0 .. k PROVE h[m] = IF m = 0 THEN 1 ELSE 10 * h[m - 1]
    <3>1. CASE m = k
      BY <1>4, <2>1, <3>1
    <3>2. CASE m # k
      <4>1. m \in 0 .. k - 1 /\ (m # 0 => m - 1 \in 0 .. k /\ m - 1 # k)
        BY <2>1, <3>2
      <4> QED BY <2>2, <3>2, <4>1 DEF IsTable
    <3> QED BY <3>1, <3>2
  <2> HIDE DEF h
  <2>5. IsTable(k, h)
    BY <2>3, <2>4 DEF IsTable
  <2> QED BY <1>2, <2>5
<1> QED BY <1>3, <1>4

\* Two tables agree where both are defined.
LEMMA TablesAgree ==
    ASSUME NEW n \in Nat, NEW g, IsTable(n, g), NEW k \in Nat, NEW h, IsTable(k, h),
           NEW m \in Nat, m <= n, m <= k
    PROVE  g[m] = h[m]
<1> DEFINE T == {j \in Nat : j <= n /\ j <= k /\ g[j] # h[j]}
<1>1. SUFFICES ASSUME T # {} PROVE FALSE
  OBVIOUS
<1>2. PICK j \in T : \A i \in T : j <= i
  BY <1>1, LeastNatural
<1>3. j \in 0 .. n /\ j \in 0 .. k
  OBVIOUS
<1>4. j # 0
  BY <1>2, <1>3 DEF IsTable
<1>5. j - 1 \in Nat /\ j - 1 \notin T /\ j - 1 <= n /\ j - 1 <= k
  BY <1>2, <1>3, <1>4
<1>6. g[j - 1] = h[j - 1]
  BY <1>5
<1> QED BY <1>2, <1>3, <1>4, <1>6 DEF IsTable

\* pow10 is what its recursive definition says.
LEMMA PowersOfTen ==
    /\ pow10 \in [Nat -> Nat]
    /\ \A n \in Nat : pow10[n] = IF n = 0 THEN 1 ELSE 10 * pow10[n - 1]
<1> DEFINE table(n) == CHOOSE g : IsTable(n, g)
           power == [n \in Nat |-> table(n)[n]]
<1>1. \A n \in Nat : IsTable(n, table(n))
  BY TableExists
<1> HIDE DEF table
<1>2. ASSUME NEW n \in Nat
      PROVE  table(n)[n] \in Nat /\ table(n)[n] = IF n = 0 THEN 1 ELSE 10 * table(n - 1)[n - 1]
  <2>1. IsTable(n, table(n)) /\ n \in 0 .. n
    BY <1>1
  <2>2. n # 0 => table(n)[n - 1] = table(n - 1)[n - 1]
    <3>1. SUFFICES ASSUME n # 0 PROVE table(n)[n - 1] = table(n - 1)[n - 1]
      OBVIOUS
    <3>2. n - 1 \in Nat /\ n - 1 <= n /\ n - 1 <= n - 1
      BY <3>1
    <3> QED BY <1>1, <3>2, TablesAgree
  <2> QED BY <2>1, <2>2 DEF IsTable
<1>3. power = [n \in Nat |-> IF n = 0 THEN 1 ELSE 10 * power[n - 1]]
  <2>1. \A n \in Nat : table(n)[n] = IF n = 0 THEN 1 ELSE 10 * power[n - 1]
    <3>1. ASSUME NEW n \in Nat PROVE table(n)[n] = IF n = 0 THEN 1 ELSE 10 * power[n - 1]
      <4>1. n # 0 => n - 1 \in Nat
        OBVIOUS
      <4> QED BY <1>2, <4>1
    <3> QED BY <3>1
  <2> QED BY <2>1
<1>4. \A n \in Nat : power[n] \in Nat
  BY <1>2
<1> HIDE DEF power
<1>5. pow10 = CHOOSE f : f = [n \in Nat |-> IF n = 0 THEN 1 ELSE 10 * f[n - 1]]
  BY DEF pow10
<1>6. pow10 = [n \in Nat |-> IF n = 0 THEN 1 ELSE 10 * pow10[n - 1]]
  BY <1>3, <1>5
<1>7. \A n \in Nat : pow10[n] = IF n = 0 THEN 1 ELSE 10 * pow10[n - 1]
  BY <1>6
<1>8. \A n \in Nat : pow10[n] \in Nat
  <2> DEFINE T == {n \in Nat : pow10[n] \notin Nat}
  <2>1. SUFFICES ASSUME T # {} PROVE FALSE
    OBVIOUS
  <2>2. PICK n \in T : \A m \in T : n <= m
    BY <2>1, LeastNatural
  <2>3. n # 0
    BY <1>7, <2>2
  <2>4. n - 1 \in Nat /\ n - 1 \notin T
    BY <2>2, <2>3
  <2> QED BY <1>7, <2>2, <2>3, <2>4
<1>9. pow10 = [n \in Nat |-> pow10[n]]
  BY <1>6
<1> QED BY <1>7, <1>8, <1>9

\* They are positive, and no less than the exponent.
LEMMA PowersArePositive ==
    ASSUME NEW n \in Nat
    PROVE  /\ pow10[n] \in Nat \ {0} /\ pow10[0] = 1 /\ pow10[n + 1] = 10 * pow10[n]
           /\ pow10[n] <= pow10[n + 1]
<1>1. pow10[0] = 1 /\ \A m \in Nat : pow10[m] \in Nat /\ pow10[m + 1] = 10 * pow10[m]
  <2>1. ASSUME NEW m \in Nat PROVE pow10[m] \in Nat /\ pow10[m + 1] = 10 * pow10[m]
    <3>1. m + 1 \in Nat /\ m + 1 # 0 /\ (m + 1) - 1 = m
      OBVIOUS
    <3> QED BY <3>1, PowersOfTen
  <2> QED BY <2>1, PowersOfTen
<1> DEFINE T == {m \in Nat : pow10[m] = 0}
<1>2. T = {}
  <2>1. SUFFICES ASSUME T # {} PROVE FALSE
    OBVIOUS
  <2>2. PICK m \in T : \A k \in T : m <= k
    BY <2>1, LeastNatural
  <2>3. m # 0
    BY <1>1, <2>2
  <2>4. m - 1 \in Nat /\ m - 1 \notin T /\ (m - 1) + 1 = m
    BY <2>2, <2>3
  <2> QED BY <1>1, <2>2, <2>4
<1> QED BY <1>1, <1>2

\* They grow with the exponent.
LEMMA PowersGrow ==
    ASSUME NEW m \in Nat, NEW n \in Nat, m <= n
    PROVE  pow10[m] <= pow10[n]
<1> DEFINE T == {k \in Nat : m <= k /\ ~(pow10[m] <= pow10[k])}
<1>1. SUFFICES ASSUME T # {} PROVE FALSE
  OBVIOUS
<1>2. PICK k \in T : \A j \in T : k <= j
  BY <1>1, LeastNatural
<1>3. k # m
  BY <1>2, PowersArePositive
<1>4. k - 1 \in Nat /\ m <= k - 1 /\ k - 1 \notin T /\ (k - 1) + 1 = k
  BY <1>2, <1>3
<1>5. pow10[m] <= pow10[k - 1] /\ pow10[k - 1] <= pow10[k]
  BY <1>4, PowersArePositive
<1>6. pow10[m] \in Nat /\ pow10[k - 1] \in Nat /\ pow10[k] \in Nat
  BY <1>4, PowersArePositive
<1> QED BY <1>2, <1>5, <1>6

\* Exponents add up.
LEMMA PowersAdd ==
    ASSUME NEW m \in Nat, NEW n \in Nat
    PROVE  pow10[m + n] = pow10[m] * pow10[n]
<1> DEFINE T == {k \in Nat : pow10[m + k] # pow10[m] * pow10[k]}
<1>1. SUFFICES ASSUME T # {} PROVE FALSE
  OBVIOUS
<1>2. PICK k \in T : \A j \in T : k <= j
  BY <1>1, LeastNatural
<1>3. k # 0
  BY <1>2, PowersArePositive
<1>4. k - 1 \in Nat /\ k - 1 \notin T /\ (k - 1) + 1 = k /\ m + (k - 1) \in Nat
      /\ (m + (k - 1)) + 1 = m + k
  BY <1>2, <1>3
<1>5. pow10[m + (k - 1)] = pow10[m] * pow10[k - 1]
  BY <1>4
<1>6. pow10[m + k] = 10 * pow10[m + (k - 1)] /\ pow10[k] = 10 * pow10[k - 1]
  BY <1>4, PowersArePositive
<1>7. pow10[m] \in Nat /\ pow10[k - 1] \in Nat
  BY <1>4, PowersArePositive
<1> QED BY <1>2, <1>5, <1>6, <1>7

-----------------------------------------------------------------------------
(* Rounding.                                                                   *)

\* Quotient and remainder.
LEMMA DivMod ==
    ASSUME NEW a \in Nat, NEW d \in Nat \ {0}
    PROVE  /\ a \div d \in Nat /\ a % d \in 0 .. d - 1
           /\ a = (a \div d) * d + (a % d)
OBVIOUS

\* Products of naturals.
LEMMA Product ==
    ASSUME NEW a \in Nat, NEW b \in Nat
    PROVE  a * b \in Nat /\ (a # 0 /\ b # 0 => a * b # 0)
OBVIOUS

LEMMA ProductGrows ==
    ASSUME NEW a \in Nat, NEW b \in Nat, NEW c \in Nat, a <= b
    PROVE  a * c <= b * c
<1>1. b - a \in Nat /\ (b - a) * c \in Nat
  OBVIOUS
<1>2. b * c = a * c + (b - a) * c
  OBVIOUS
<1>3. a * c \in Nat
  OBVIOUS
<1> QED BY <1>1, <1>2, <1>3

\* A number of units of size d that stands for n: the nearest, the even one on a tie.
Nearest(units, n, d) ==
    /\ units \in Nat
    /\ 2 * Distance(units * d, n) <= d
    /\ 2 * Distance(units * d, n) = d => units % 2 = 0

\* A quotient rounded by twice its remainder is the nearest.
LEMMA RoundedQuotient ==
    ASSUME NEW q \in Nat, NEW d \in Nat \ {0}, NEW r \in Nat, r < d,
           NEW n, n = q * d + r,
           NEW up \in BOOLEAN, up <=> (2 * r > d \/ (2 * r = d /\ q % 2 = 1))
    PROVE  Nearest(IF up THEN q + 1 ELSE q, n, d)
<1>1. q * d \in Nat /\ (q + 1) * d = q * d + d
  OBVIOUS
<1>2. q % 2 = 0 \/ q % 2 = 1
  OBVIOUS
<1>3. q % 2 = 1 => (q + 1) % 2 = 0
  OBVIOUS
<1>4. CASE up
  <2>1. Distance((q + 1) * d, n) = d - r
    <3>1. ~((q + 1) * d <= n)
      BY <1>1
    <3> QED BY <1>1, <3>1 DEF Distance
  <2>2. 2 * (d - r) <= d
    BY <1>4
  <2>3. 2 * (d - r) = d => (q + 1) % 2 = 0
    BY <1>3, <1>4
  <2> QED BY <1>4, <2>1, <2>2, <2>3 DEF Nearest
<1>5. CASE ~up
  <2>1. Distance(q * d, n) = r
    BY <1>1 DEF Distance
  <2> QED BY <1>2, <1>5, <2>1 DEF Nearest
<1> QED BY <1>4, <1>5

\* round_half_even rounds to the nearest.
LEMMA RoundHalfEvenIsNearest ==
    ASSUME NEW n \in Nat, NEW d \in Nat \ {0}
    PROVE  Nearest(RoundHalfEven(n, d), n, d)
<1> DEFINE q == n \div d
           r == n % d
           up == 2 * r > d \/ (2 * r = d /\ q % 2 = 1)
<1>1. q \in Nat /\ r \in Nat /\ r < d /\ n = q * d + r
  BY DivMod
<1>2. RoundHalfEven(n, d) = IF up THEN q + 1 ELSE q
  BY DEF RoundHalfEven
<1>3. up \in BOOLEAN
  OBVIOUS
<1> DEFINE above == up
<1>4. above \in BOOLEAN /\ (above <=> (2 * r > d \/ (2 * r = d /\ q % 2 = 1)))
  BY <1>3
<1>5. RoundHalfEven(n, d) = IF above THEN q + 1 ELSE q
  BY <1>2
<1> HIDE DEF q, r, up, above
<1>6. Nearest(IF above THEN q + 1 ELSE q, n, d)
  BY <1>1, <1>4, RoundedQuotient
<1> QED BY <1>5, <1>6

-----------------------------------------------------------------------------
(* Digits.                                                                     *)

\* A number the table covers has a number of digits, and is no less than the power of
\* ten with as many.
LEMMA DigitsCounted ==
    ASSUME MoneyAssumption, NEW n \in Nat, n < pow10[MostDigits]
    PROVE  DigitCount(n) \in Nat \ {0} /\ (n # 0 => n >= pow10[DigitCount(n) - 1])
<1> DEFINE T == {k \in Nat : k >= 1 /\ n < pow10[k]}
           Counts(k) == n < pow10[k] /\ (k = 1 \/ n >= pow10[k - 1])
<1>1. MostDigits \in Nat /\ MostDigits >= 1
  BY DEF MoneyAssumption, MostDigits
<1>2. MostDigits \in T
  BY <1>1
<1>3. PICK k \in T : \A j \in T : k <= j
  BY <1>2, LeastNatural
<1>4. k \in 1 .. MostDigits /\ Counts(k)
  <2>1. k <= MostDigits
    BY <1>2, <1>3
  <2>2. CASE k = 1
    BY <1>1, <1>3, <2>1, <2>2
  <2>3. CASE k # 1
    <3>1. k - 1 \in Nat /\ k - 1 >= 1 /\ ~(k - 1 >= k)
      BY <1>3, <2>3
    <3>2. ~(n < pow10[k - 1])
      BY <1>3, <3>1
    <3>3. pow10[k - 1] \in Nat
      BY <3>1, PowersArePositive
    <3> QED BY <1>1, <1>3, <2>1, <3>2, <3>3
  <2> QED BY <2>2, <2>3
<1>5. DigitCount(n) = CHOOSE j \in 1 .. MostDigits : Counts(j)
  BY DEF DigitCount
<1> HIDE DEF Counts
<1>6. DigitCount(n) \in 1 .. MostDigits /\ Counts(DigitCount(n))
  BY <1>4, <1>5, Zenon
<1>7. DigitCount(n) \in Nat \ {0}
  BY <1>1, <1>6
<1>8. ASSUME n # 0 PROVE n >= pow10[DigitCount(n) - 1]
  <2>1. CASE DigitCount(n) = 1
    <3>1. pow10[0] = 1
      BY PowersArePositive
    <3> QED BY <1>8, <2>1, <3>1
  <2>2. CASE DigitCount(n) # 1
    BY <1>6, <2>2 DEF Counts
  <2> QED BY <2>1, <2>2
<1> QED BY <1>7, <1>8

\* There is a longest run of zeros at the end of q, of at most `most`.
LEMMA ZerosExist ==
    ASSUME NEW q \in Nat, NEW most \in Nat
    PROVE  \E k \in 0 .. most : q % pow10[k] = 0 /\ (k = most \/ q % pow10[k + 1] # 0)
<1> DEFINE T == {k \in Nat : k <= most /\ (k = most \/ q % pow10[k + 1] # 0)}
<1>1. most \in T
  OBVIOUS
<1>2. PICK k \in T : \A j \in T : k <= j
  BY <1>1, LeastNatural
<1>3. q % pow10[k] = 0
  <2>1. CASE k = 0
    <3>1. pow10[0] = 1 /\ q % 1 = 0
      BY PowersArePositive
    <3> QED BY <2>1, <3>1
  <2>2. CASE k # 0
    <3>1. k - 1 \in Nat /\ k - 1 \notin T /\ (k - 1) + 1 = k /\ k - 1 <= most /\ k - 1 # most
      BY <1>2, <2>2
    <3> QED BY <3>1
  <2> QED BY <2>1, <2>2
<1> QED BY <1>2, <1>3

\* What is left without zeros at the end, written with them again.
LEMMA DividesOut ==
    ASSUME NEW q \in Nat, NEW k \in Nat, q % pow10[k] = 0
    PROVE  q \div pow10[k] \in Nat /\ (q \div pow10[k]) * pow10[k] = q
<1>1. pow10[k] \in Nat \ {0}
  BY PowersArePositive
<1> DEFINE p == pow10[k]
<1> HIDE DEF p
<1>2. p \in Nat \ {0} /\ q % p = 0
  BY <1>1 DEF p
<1>3. q \div p \in Nat /\ q = (q \div p) * p + (q % p)
  BY <1>2, DivMod
<1>4. (q \div p) * p \in Nat
  BY <1>2, <1>3
<1>5. (q \div p) * p = q
  BY <1>2, <1>3, <1>4
<1> QED BY <1>3, <1>5 DEF p

-----------------------------------------------------------------------------
(* Two ways to convert.                                                        *)

\* No more than half of w apart.
Near(x, y, w) == 2 * (x - y) <= w /\ 2 * (y - x) <= w

LEMMA NearestIsNear ==
    ASSUME NEW units, NEW n \in Nat, NEW d \in Nat \ {0}, Nearest(units, n, d)
    PROVE  units \in Nat /\ Near(units * d, n, d)
<1>1. units \in Nat /\ units * d \in Nat
  <2>1. units \in Nat
    BY DEF Nearest
  <2> QED BY <2>1, Product
<1>2. 2 * Distance(units * d, n) <= d
  BY DEF Nearest
<1> QED BY <1>1, <1>2 DEF Near, Distance

LEMMA NearTimes ==
    ASSUME NEW x \in Nat, NEW y \in Nat, NEW w \in Nat, NEW k \in Nat, Near(x, y, w)
    PROVE  Near(x * k, y * k, w * k)
<1>1. ASSUME NEW u \in Nat, NEW v \in Nat, 2 * (u - v) <= w
      PROVE  2 * (u * k - v * k) <= w * k
  <2> DEFINE s == w - 2 * (u - v)
  <2>1. s \in Nat /\ s * k \in Nat
    BY <1>1
  <2>2. s * k = w * k - 2 * (u * k - v * k)
    OBVIOUS
  <2>3. w * k \in Nat /\ u * k \in Nat /\ v * k \in Nat
    OBVIOUS
  <2> HIDE DEF s
  <2> QED BY <2>1, <2>2, <2>3
<1> QED BY <1>1 DEF Near

\* A factor can be taken from both sides.
LEMMA FactorOut ==
    ASSUME NEW x \in Nat, NEW y \in Nat, NEW k \in Nat \ {0}, k * x <= k * y
    PROVE  x <= y
<1>1. ASSUME y < x PROVE FALSE
  <2>1. x - y - 1 \in Nat /\ k * (x - y - 1) \in Nat
    BY <1>1
  <2>2. k * x = k * y + k + k * (x - y - 1)
    OBVIOUS
  <2>3. k * x \in Nat /\ k * y \in Nat
    OBVIOUS
  <2> QED BY <2>1, <2>2, <2>3
<1> QED BY <1>1

\* Numbers whose multiples of w are less than two w apart.
LEMMA OneApart ==
    ASSUME NEW a \in Nat, NEW c \in Nat, NEW w \in Nat \ {0},
           2 * (a * w - c * w) <= 3 * w, 2 * (c * w - a * w) <= 3 * w
    PROVE  Distance(a, c) <= 1
<1>1. ASSUME NEW u \in Nat, NEW v \in Nat, 2 * (u * w - v * w) <= 3 * w
      PROVE  u <= v + 1
  <2>1. SUFFICES ASSUME u >= v + 2 PROVE FALSE
    OBVIOUS
  <2>2. u - (v + 2) \in Nat /\ (u - (v + 2)) * w \in Nat
    BY <2>1
  <2>3. u * w = v * w + 2 * w + (u - (v + 2)) * w
    OBVIOUS
  <2>4. u * w \in Nat /\ v * w \in Nat
    OBVIOUS
  <2> QED BY <1>1, <2>2, <2>3, <2>4
<1>2. a <= c + 1 /\ c <= a + 1
  BY <1>1
<1> QED BY <1>2 DEF Distance

\* a rounds A times the ratio N / D, over B; c rounds A times a quote of it, over B.  The
\* quote is s / u for s = coef * t and u = us * t, the nearest to N / D with denominator
\* u, and exact or no smaller than p; a is smaller than p.
LEMMA QuoteOrRatio ==
    ASSUME NEW a \in Nat, NEW c \in Nat, NEW A \in Nat, NEW N \in Nat, NEW coef \in Nat,
           NEW B \in Nat \ {0}, NEW D \in Nat \ {0}, NEW us \in Nat \ {0},
           NEW t \in Nat \ {0}, NEW p \in Nat \ {0},
           Near(a * (B * D), A * N, B * D),
           Near(c * (B * us), A * coef, B * us),
           Near((coef * t) * D, N * (us * t), D),
           (coef * t) * D # N * (us * t) => coef * t >= p,
           a < p
    PROVE  Distance(a, c) <= 1
<1> DEFINE u == us * t
           s == coef * t
           w == (B * D) * u
           z == (A * N) * u
           y == A * (s * D)
<1>1. u \in Nat \ {0} /\ s \in Nat /\ B * D \in Nat \ {0} /\ A * N \in Nat /\ s * D \in Nat
      /\ B * us \in Nat /\ A * coef \in Nat /\ t * D \in Nat /\ A * D \in Nat
      /\ N * u \in Nat /\ a * (B * D) \in Nat /\ c * (B * us) \in Nat
  <2>1. u \in Nat \ {0} /\ s \in Nat
    BY Product
  <2>2. B * D \in Nat \ {0} /\ A * N \in Nat /\ B * us \in Nat /\ A * coef \in Nat
        /\ t * D \in Nat /\ A * D \in Nat
    BY Product
  <2> HIDE DEF u, s
  <2>3. s * D \in Nat /\ N * u \in Nat /\ a * (B * D) \in Nat /\ c * (B * us) \in Nat
    BY <2>1, <2>2, Product
  <2> QED BY <2>1, <2>2, <2>3
<1>2. w \in Nat \ {0} /\ z \in Nat /\ y \in Nat /\ a * w \in Nat /\ c * w \in Nat
  <2> HIDE DEF u, s
  <2>1. w \in Nat \ {0} /\ z \in Nat /\ y \in Nat
    BY <1>1, Product
  <2> HIDE DEF w
  <2> QED BY <2>1, Product
<1>3. Near(a * w, z, w)
  <2>1. Near((a * (B * D)) * u, (A * N) * u, (B * D) * u)
    <3> HIDE DEF u
    <3> QED BY <1>1, NearTimes
  <2>2. (a * (B * D)) * u = a * w
    OBVIOUS
  <2> QED BY <2>1, <2>2
<1>4. Near(c * w, y, w)
  <2>1. Near((c * (B * us)) * (t * D), (A * coef) * (t * D), (B * us) * (t * D))
    BY <1>1, NearTimes
  <2>2. (c * (B * us)) * (t * D) = c * w /\ (A * coef) * (t * D) = y /\ (B * us) * (t * D) = w
    OBVIOUS
  <2> QED BY <2>1, <2>2
<1>5. z = A * (N * u)
  OBVIOUS
<1>6. CASE s * D = N * u
  <2>1. z = y
    BY <1>5, <1>6
  <2> HIDE DEF w, z, y
  <2>2. DEFINE aw == a * w
  <2>3. DEFINE cw == c * w
  <2>4. 2 * (aw - cw) <= 3 * w /\ 2 * (cw - aw) <= 3 * w
    <3> HIDE DEF aw, cw
    <3>1. aw \in Nat /\ cw \in Nat /\ w \in Nat /\ y \in Nat
      BY <1>2 DEF aw, cw
    <3>2. Near(aw, y, w) /\ Near(cw, y, w)
      BY <1>3, <1>4, <2>1 DEF aw, cw
    <3> QED BY <3>1, <3>2 DEF Near
  <2> QED BY <1>2, <2>4, OneApart
<1>7. CASE s * D # N * u
  <2>1. s >= p /\ Near(s * D, N * u, D) /\ Near(a * (B * D), A * N, B * D)
    BY <1>7
  <2>2. (2 * p - 1) * D <= 2 * (N * u)
    <3>1. p * D <= s * D
      <4> HIDE DEF s
      <4> QED BY <1>1, <2>1, ProductGrows
    <3>2. (2 * p - 1) * D = 2 * (p * D) - D /\ p * D \in Nat
      OBVIOUS
    <3> DEFINE sd == s * D
               nu == N * u
               pd == p * D
    <3>3. sd \in Nat /\ nu \in Nat /\ pd \in Nat /\ pd <= sd /\ Near(sd, nu, D)
      BY <1>1, <2>1, <3>1, <3>2
    <3> HIDE DEF sd, nu, pd
    <3>4. 2 * pd - D <= 2 * nu
      BY <3>3 DEF Near
    <3> QED BY <3>2, <3>4 DEF pd, nu
  <2>3. 2 * (A * N) <= (2 * p - 1) * (B * D)
    <3> DEFINE bd == B * D
               an == A * N
    <3>1. bd \in Nat \ {0} /\ an \in Nat /\ Near(a * bd, an, bd)
      BY <1>1, <2>1
    <3> HIDE DEF bd, an
    <3>2. p - 1 - a \in Nat /\ (p - 1 - a) * bd \in Nat /\ a * bd \in Nat
      BY <3>1
    <3>3. (2 * p - 1) * bd = 2 * (a * bd) + bd + 2 * ((p - 1 - a) * bd)
      BY <3>1
    <3>4. 2 * (an - a * bd) <= bd
      BY <3>1 DEF Near
    <3> DEFINE x == a * bd
               r == (p - 1 - a) * bd
    <3>5. x \in Nat /\ r \in Nat /\ (2 * p - 1) * bd = 2 * x + bd + 2 * r /\ 2 * (an - x) <= bd
      BY <3>2, <3>3, <3>4
    <3> HIDE DEF x, r
    <3>6. 2 * an <= 2 * x + bd + 2 * r
      BY <3>1, <3>5
    <3> QED BY <3>5, <3>6 DEF bd, an
  <2>4. A * D <= w
    <3> DEFINE k == 2 * p - 1
    <3>1. k \in Nat \ {0}
      OBVIOUS
    <3>2. (k * D) * A <= (2 * (N * u)) * A
      <4> DEFINE kd == k * D
                 nu == 2 * (N * u)
      <4>1. kd \in Nat /\ nu \in Nat /\ kd <= nu
        BY <1>1, <2>2, <3>1, Product
      <4> HIDE DEF kd, nu
      <4> QED BY <4>1, ProductGrows DEF kd, nu
    <3>3. (2 * (A * N)) * u <= (k * (B * D)) * u
      <4> DEFINE an == 2 * (A * N)
                 kbd == k * (B * D)
      <4>1. an \in Nat /\ kbd \in Nat /\ an <= kbd
        BY <1>1, <2>3, <3>1, Product
      <4> HIDE DEF an, kbd, u
      <4> QED BY <1>1, <4>1, ProductGrows DEF an, kbd
    <3> HIDE DEF k
    <3>4. (k * D) * A = k * (A * D)
      BY <3>1
    <3>5. (k * (B * D)) * u = k * w
      BY <3>1
    <3>6. (2 * (N * u)) * A = (2 * (A * N)) * u
      OBVIOUS
    <3>7. k * (A * D) \in Nat /\ k * w \in Nat /\ (2 * (A * N)) * u \in Nat
      <4>1. 2 * (A * N) \in Nat
        BY <1>1
      <4> HIDE DEF w, u
      <4> QED BY <1>1, <1>2, <3>1, <4>1, Product
    <3>8. k * (A * D) <= k * w
      <4> DEFINE l == k * (A * D)
                 m == (2 * (A * N)) * u
                 r == k * w
      <4>1. l <= m /\ m <= r /\ l \in Nat /\ m \in Nat /\ r \in Nat
        BY <3>2, <3>3, <3>4, <3>5, <3>6, <3>7
      <4> HIDE DEF l, m, r
      <4>2. l <= r
        BY <4>1
      <4> QED BY <4>2 DEF l, r
    <3> DEFINE ad == A * D
    <3>9. ad \in Nat /\ k * ad <= k * w
      BY <1>1, <3>8
    <3> HIDE DEF ad, w
    <3>10. ad <= w
      BY <1>2, <3>1, <3>9, FactorOut
    <3> QED BY <3>10 DEF ad
  <2>5. Near(y, z, A * D)
    <3>1. Near((s * D) * A, (N * u) * A, D * A)
      <4> HIDE DEF s, u
      <4> QED BY <1>1, <2>1, NearTimes
    <3>2. (s * D) * A = y /\ (N * u) * A = z /\ D * A = A * D
      OBVIOUS
    <3> QED BY <3>1, <3>2
  <2> DEFINE aw == a * w
             cw == c * w
             ad == A * D
  <2>6. aw \in Nat /\ cw \in Nat /\ ad \in Nat /\ w \in Nat \ {0} /\ y \in Nat /\ z \in Nat
        /\ Near(aw, z, w) /\ Near(cw, y, w) /\ Near(y, z, ad) /\ ad <= w
    BY <1>1, <1>2, <1>3, <1>4, <2>4, <2>5
  <2> HIDE DEF w, z, y
  <2>7. 2 * (aw - cw) <= 3 * w /\ 2 * (cw - aw) <= 3 * w
    <3> HIDE DEF aw, cw, ad
    <3> QED BY <2>6 DEF Near
  <2> QED BY <1>2, <2>7, OneApart
<1> QED BY <1>6, <1>7

-----------------------------------------------------------------------------
(* The invariant.                                                              *)

SamePair == {<<c, c>> : c \in Currencies}

\* The division of a quote that is being worked out, or was.
Divides == phase = "dividing" \/ (phase = "quoted" /\ pair \notin SamePair)

DigitsKept ==
    /\ Numer * pow10[places] = digits * Denom + remainder
    /\ remainder < Denom
    /\ significant # 0 => digits >= pow10[significant - 1]
    /\ places = 0 => digits <= MaxWide

\* The rates divided are those of the pair.
PairKept ==
    /\ pair \in Currencies \X Currencies
    /\ PairRate(pair[1], pair[2], ValueDate)
         = Automatic(Leg(pair[1], ValueDate), Leg(pair[2], ValueDate))
    /\ dividend = Leg(pair[2], ValueDate).rate
    /\ divisor = Leg(pair[1], ValueDate).rate

LastDigit == IF remainder = 0 THEN digits ELSE Rounded

QuoteKept ==
    /\ remainder = 0 \/ significant >= SignificantDigits
    /\ FractionIsShown =>
        /\ quote.scale <= places
        /\ quote.coefficient * pow10[places - quote.scale] = LastDigit

ConversionKept ==
    /\ phase \in {"quoted", "pending"}
    /\ conversion.source \in Currencies /\ conversion.target \in Currencies
    /\ conversion.amount \in Nat
    /\ \/ /\ conversion.use = "quote" /\ phase = "quoted" /\ pair # None
          /\ pair = <<conversion.source, conversion.target>>
          /\ conversion.source # conversion.target
          /\ conversion.outcome =
                Convert(conversion.source, conversion.target, Manual(quote), conversion.amount)
       \/ /\ conversion.use = "pair"
          /\ conversion.outcome =
                Convert(conversion.source, conversion.target,
                        PairRate(conversion.source, conversion.target, ValueDate),
                        conversion.amount)
       \/ /\ conversion.use = "projection"
          /\ conversion.outcome =
                Projected(conversion.source, conversion.target, conversion.amount)

MoneyTypes ==
    /\ accepted \in [Currencies \ {Eur} -> Observed \cup {None}]
    /\ pair \in {None} \cup (Currencies \X Currencies)
    /\ phase \in {"idle", "dividing", "quoted", "refused", "pending"}
    /\ dividend \in Rates /\ divisor \in Rates
    /\ digits \in Nat /\ places \in Nat /\ remainder \in Nat /\ significant \in Nat
    /\ phase = "quoted" => quote \in [coefficient : Nat, scale : Nat]
    /\ phase = "idle" => places = 0 /\ pair = None

MoneyInv ==
    /\ MoneyTypes
    /\ Divides => DigitsKept
    /\ Divides /\ pair # None => PairKept
    /\ phase = "quoted" /\ pair \notin SamePair => QuoteKept
    /\ conversion # None => ConversionKept

LEMMA RateFacts ==
    ASSUME NEW r \in Rates
    PROVE  r.coefficient \in Nat \ {0} /\ r.scale \in Nat
BY DEF Rates

LEMMA OneIsARate ==
    ASSUME MoneyAssumption
    PROVE  One \in Rates
BY DEF MoneyAssumption, One, Rates

\* The rate of a leg is a rate.
LEMMA LegHasARate ==
    ASSUME MoneyAssumption, MoneyTypes, NEW c \in Currencies, NEW d, Leg(c, d) # None
    PROVE  Leg(c, d).rate \in Rates
<1>1. CASE c = Eur
  BY <1>1, OneIsARate DEF Leg
<1>2. CASE c # Eur
  <2>1. accepted[c] \in Observed \cup {None}
    BY <1>2 DEF MoneyTypes
  <2>2. Leg(c, d) = accepted[c]
    BY <1>2 DEF Leg
  <2>3. accepted[c] \in [date : Dates, rate : Rates]
    BY <2>1, <2>2 DEF MoneyAssumption
  <2> QED BY <2>2, <2>3
<1> QED BY <1>1, <1>2

\* What a division starts from.
LEMMA DenomIsPositive ==
    ASSUME MoneyTypes
    PROVE  Numer \in Nat /\ Denom \in Nat \ {0}
<1>1. dividend.coefficient \in Nat \ {0} /\ dividend.scale \in Nat
      /\ divisor.coefficient \in Nat \ {0} /\ divisor.scale \in Nat
  BY RateFacts DEF MoneyTypes
<1>2. pow10[dividend.scale] \in Nat \ {0} /\ pow10[divisor.scale] \in Nat \ {0}
  BY <1>1, PowersArePositive
<1> QED BY <1>1, <1>2, Product DEF Numer, Denom

\* A pair of different currencies has a rate from its legs, or is pending.
LEMMA RateOfAPair ==
    ASSUME NEW s, NEW t, NEW d, s # t
    PROVE  \/ /\ PairRate(s, t, d) = Pending
              /\ PairRate(s, t, d).variant = "pending"
           \/ /\ PairRate(s, t, d) = Automatic(Leg(s, d), Leg(t, d))
              /\ PairRate(s, t, d).variant = "automatic"
              /\ PairRate(s, t, d).source = Leg(s, d)
              /\ PairRate(s, t, d).reference = Leg(t, d)
              /\ Leg(s, d) # None /\ Leg(t, d) # None
BY DEF PairRate, Pending, Automatic

LEMMA MoneyInvInit ==
    ASSUME MoneyAssumption, Init
    PROVE  MoneyInv
<1>1. MoneyTypes
  BY OneIsARate DEF Init, MoneyTypes
<1> QED BY <1>1 DEF Init, MoneyInv, Divides

-----------------------------------------------------------------------------
(* The steps of the division.                                                  *)

\* checked_div starts with the whole part.
LEMMA DivideStarts ==
    ASSUME MoneyAssumption, MoneyTypes, phase = "idle",
           NEW a \in Rates, NEW b \in Rates, Divide(a, b)
    PROVE  /\ phase' \in {"dividing", "refused"} /\ dividend' = a /\ divisor' = b
           /\ digits' \in Nat /\ places' = 0 /\ remainder' \in Nat /\ significant' \in Nat
           /\ phase' = "dividing" => DigitsKept'
<1> DEFINE n == a.coefficient * pow10[b.scale]
           d == b.coefficient * pow10[a.scale]
           fits == n <= MaxWide /\ d <= MaxWide
<1>1. n \in Nat /\ d \in Nat \ {0}
  <2>1. a.coefficient \in Nat \ {0} /\ a.scale \in Nat
        /\ b.coefficient \in Nat \ {0} /\ b.scale \in Nat
    BY RateFacts
  <2>2. pow10[a.scale] \in Nat \ {0} /\ pow10[b.scale] \in Nat \ {0}
    BY <2>1, PowersArePositive
  <2> QED BY <2>1, <2>2, Product
<1>2. /\ phase' = IF fits THEN "dividing" ELSE "refused"
      /\ dividend' = a /\ divisor' = b
      /\ digits' = IF fits THEN n \div d ELSE 0
      /\ remainder' = IF fits THEN n % d ELSE 0
      /\ significant' = IF fits /\ n >= d THEN DigitCount(n \div d) ELSE 0
      /\ places' = places
  BY DEF Divide
<1>3. Numer' = n /\ Denom' = d
  BY <1>2 DEF Numer, Denom
<1> HIDE DEF n, d
<1>4. n \div d \in Nat /\ n % d \in Nat /\ n % d < d /\ n = (n \div d) * d + (n % d)
  <2>1. n \div d \in Nat /\ n % d \in 0 .. d - 1 /\ n = (n \div d) * d + (n % d)
    BY <1>1, DivMod
  <2> QED BY <1>1, <2>1
<1>5. n \div d <= n
  <2> DEFINE q == n \div d
             r == n % d
  <2>1. q \in Nat /\ r \in Nat /\ n = q * d + r
    BY <1>4
  <2> HIDE DEF q, r
  <2>2. (d - 1) \in Nat /\ q * (d - 1) \in Nat /\ q * d = q + q * (d - 1)
    BY <1>1, <2>1
  <2>3. q <= n
    BY <1>1, <2>1, <2>2
  <2> QED BY <2>3 DEF q
<1>6. ASSUME fits
      PROVE  /\ DigitCount(n \div d) \in Nat \ {0}
             /\ n \div d # 0 => n \div d >= pow10[DigitCount(n \div d) - 1]
             /\ n \div d <= MaxWide
  <2>1. MaxWide \in Nat /\ MaxWide + 1 < pow10[MostDigits] /\ MostDigits \in Nat
    BY DEF MoneyAssumption, MostDigits
  <2>2. n \div d <= MaxWide
    BY <1>1, <1>4, <1>5, <1>6, <2>1
  <2>3. n \div d < pow10[MostDigits]
    <3>1. pow10[MostDigits] \in Nat
      BY <2>1, PowersArePositive
    <3> QED BY <1>4, <2>1, <2>2, <3>1
  <2> QED BY <1>4, <2>2, <2>3, DigitsCounted
<1>7. n >= d => n \div d # 0
  BY <1>1, <1>4
<1>8. places = 0
  BY DEF MoneyTypes
<1>9. digits' \in Nat /\ remainder' \in Nat /\ significant' \in Nat
  BY <1>2, <1>4, <1>6
<1>10. ASSUME phase' = "dividing" PROVE DigitsKept'
  <2>1. fits
    BY <1>2, <1>10
  <2>2. digits' = n \div d /\ remainder' = n % d /\ places' = 0
    BY <1>2, <1>8, <2>1
  <2>3. Numer' * pow10[places'] = digits' * Denom' + remainder'
    <3>1. pow10[0] = 1 /\ n * 1 = n
      BY <1>1, PowersArePositive
    <3> QED BY <1>3, <1>4, <2>2, <3>1
  <2>4. significant' # 0 => digits' >= pow10[significant' - 1]
    BY <1>2, <1>6, <1>7, <2>1
  <2>5. remainder' < Denom' /\ digits' <= MaxWide
    BY <1>3, <1>4, <1>6, <2>1, <2>2
  <2> QED BY <2>2, <2>3, <2>4, <2>5 DEF DigitsKept
<1> QED BY <1>2, <1>8, <1>9, <1>10

LEMMA AskQuoteKeepsInv ==
    ASSUME MoneyAssumption, MoneyInv, NEW s \in Currencies, NEW t \in Currencies,
           AskQuote(s, t)
    PROVE  MoneyInv'
<1> DEFINE rate == PairRate(s, t, ValueDate)
<1>1. MoneyTypes /\ phase = "idle" /\ conversion = None /\ places = 0
  BY DEF MoneyInv, MoneyTypes, ConversionKept, AskQuote
<1>2. pair' = <<s, t>> /\ accepted' = accepted /\ conversion' = conversion
  BY DEF AskQuote
<1>3. conversion' = None
  BY <1>1, <1>2
<1>4. CASE s = t
  <2>1. rate.variant = "identity"
    BY <1>4 DEF PairRate, Identity
  <2>2. phase' = "quoted" /\ quote' = One /\ UNCHANGED division
    BY <2>1 DEF AskQuote
  <2>3. pair' \in SamePair
    BY <1>2, <1>4 DEF SamePair
  <2>4. One \in [coefficient : Nat, scale : Nat]
    BY DEF One
  <2>5. MoneyTypes'
    BY <1>1, <1>2, <2>2, <2>4 DEF MoneyTypes, division
  <2>6. ~Divides' /\ SamePair' = SamePair
    BY <2>2, <2>3 DEF Divides, SamePair
  <2> QED BY <1>3, <2>3, <2>5, <2>6 DEF MoneyInv
<1>5. CASE s # t /\ rate.variant = "pending"
  <2>1. phase' = "pending" /\ UNCHANGED <<quote, division>>
    BY <1>5 DEF AskQuote
  <2>2. MoneyTypes'
    BY <1>1, <1>2, <2>1 DEF MoneyTypes, division
  <2>3. ~Divides' /\ phase' # "quoted"
    BY <2>1 DEF Divides
  <2> QED BY <1>3, <2>2, <2>3 DEF MoneyInv
<1>6. CASE s # t /\ rate.variant # "pending"
  <2>1. /\ rate = Automatic(Leg(s, ValueDate), Leg(t, ValueDate))
        /\ rate.variant = "automatic"
        /\ rate.source = Leg(s, ValueDate) /\ rate.reference = Leg(t, ValueDate)
        /\ Leg(s, ValueDate) # None /\ Leg(t, ValueDate) # None
    BY <1>6, RateOfAPair
  <2>2. Divide(rate.reference.rate, rate.source.rate) /\ quote' = quote
    BY <2>1 DEF AskQuote
  <2> DEFINE a == Leg(t, ValueDate).rate
             b == Leg(s, ValueDate).rate
  <2>3. a \in Rates /\ b \in Rates
    BY <1>1, <2>1, LegHasARate
  <2>4. Divide(a, b)
    BY <2>1, <2>2
  <2>5. /\ phase' \in {"dividing", "refused"} /\ dividend' = a /\ divisor' = b
        /\ digits' \in Nat /\ places' = 0 /\ remainder' \in Nat /\ significant' \in Nat
        /\ phase' = "dividing" => DigitsKept'
    <3> HIDE DEF a, b
    <3> QED BY <1>1, <2>3, <2>4, DivideStarts
  <2>6. MoneyTypes'
    <3> HIDE DEF a, b
    <3> QED BY <1>1, <1>2, <2>3, <2>5 DEF MoneyTypes
  <2>7. PairKept'
    <3>1. pair'[1] = s /\ pair'[2] = t /\ pair' \in Currencies \X Currencies
      BY <1>2
    <3>2. Leg(s, ValueDate)' = Leg(s, ValueDate) /\ Leg(t, ValueDate)' = Leg(t, ValueDate)
          /\ PairRate(s, t, ValueDate)' = PairRate(s, t, ValueDate)
      BY <1>2 DEF Leg, PairRate
    <3>3. PairRate(pair[1], pair[2], ValueDate)' = rate
      BY <1>2, <3>1 DEF Leg, PairRate
    <3>4. Leg(pair[1], ValueDate)' = Leg(s, ValueDate)
          /\ Leg(pair[2], ValueDate)' = Leg(t, ValueDate)
      BY <1>2, <3>1 DEF Leg
    <3>5. Automatic(Leg(pair[1], ValueDate), Leg(pair[2], ValueDate))'
            = Automatic(Leg(s, ValueDate), Leg(t, ValueDate))
      BY <3>4 DEF Automatic
    <3> QED BY <2>1, <2>5, <3>1, <3>3, <3>4, <3>5 DEF PairKept
  <2>8. (Divides => DigitsKept)' /\ (phase = "quoted" /\ pair \notin SamePair => QuoteKept)'
    BY <2>5 DEF Divides
  <2> QED BY <1>3, <2>6, <2>7, <2>8 DEF MoneyInv
<1> QED BY <1>4, <1>5, <1>6

LEMMA InvertMappedKeepsInv ==
    ASSUME MoneyAssumption, MoneyInv, NEW r \in AuthoredRates, InvertMapped(r)
    PROVE  MoneyInv'
<1>1. MoneyTypes /\ phase = "idle" /\ conversion = None
  BY DEF MoneyInv, MoneyTypes, ConversionKept, InvertMapped
<1>2. accepted' = accepted /\ pair' = pair /\ pair = None /\ quote' = quote
      /\ conversion' = None
  BY <1>1 DEF InvertMapped, MoneyTypes
<1>3. One \in Rates /\ r \in Rates /\ Divide(One, r)
  BY OneIsARate DEF InvertMapped, MoneyAssumption
<1>4. /\ phase' \in {"dividing", "refused"} /\ dividend' = One /\ divisor' = r
      /\ digits' \in Nat /\ places' = 0 /\ remainder' \in Nat /\ significant' \in Nat
      /\ phase' = "dividing" => DigitsKept'
  BY <1>1, <1>3, DivideStarts
<1>5. MoneyTypes'
  BY <1>1, <1>2, <1>3, <1>4 DEF MoneyTypes
<1> QED BY <1>2, <1>4, <1>5 DEF MoneyInv, Divides

\* Another digit.
LEMMA DigitsKeptByBringDown ==
    ASSUME MoneyAssumption, MoneyTypes, DigitsKept, BringDown, remainder * 10 <= MaxWide
    PROVE  /\ DigitsKept'
           /\ digits' \in Nat /\ places' \in Nat /\ remainder' \in Nat /\ significant' \in Nat
           /\ dividend' = dividend /\ divisor' = divisor /\ phase' = phase
<1>1. /\ digits' = digits * 10 + (remainder * 10) \div Denom
      /\ remainder' = (remainder * 10) % Denom
      /\ places' = places + 1
      /\ significant' = significant + (IF digits' # 0 THEN 1 ELSE 0)
      /\ dividend' = dividend /\ divisor' = divisor /\ phase' = phase
  BY DEF BringDown
<1>2. Numer' = Numer /\ Denom' = Denom
  BY <1>1 DEF Numer, Denom
<1>3. Numer \in Nat /\ Denom \in Nat \ {0}
  BY DenomIsPositive
<1>4. digits \in Nat /\ places \in Nat /\ remainder \in Nat /\ significant \in Nat
  BY DEF MoneyTypes
<1>5. /\ Numer * pow10[places] = digits * Denom + remainder
      /\ significant # 0 => digits >= pow10[significant - 1]
  BY DEF DigitsKept
<1> DEFINE q == (remainder * 10) \div Denom
           r == (remainder * 10) % Denom
<1>6. q \in Nat /\ r \in Nat /\ r < Denom /\ remainder * 10 = q * Denom + r
  <2>1. remainder * 10 \in Nat
    BY <1>4
  <2>2. q \in Nat /\ r \in 0 .. Denom - 1 /\ remainder * 10 = q * Denom + r
    BY <1>3, <2>1, DivMod
  <2> QED BY <1>3, <2>2
<1>7. digits' = digits * 10 + q /\ remainder' = r
  BY <1>1
<1> HIDE DEF q, r
<1>8. digits' \in Nat /\ places' \in Nat /\ remainder' \in Nat /\ significant' \in Nat
  <2>1. digits' \in Nat /\ places' \in Nat /\ remainder' \in Nat
    <3>1. digits * 10 + q \in Nat /\ places + 1 \in Nat
      BY <1>4, <1>6
    <3> QED BY <1>1, <1>6, <1>7, <3>1
  <2> QED BY <1>1, <1>4, <2>1
<1>9. Numer' * pow10[places'] = digits' * Denom' + remainder'
  <2> DEFINE p == pow10[places]
             x == Numer * p
  <2>1. p \in Nat /\ pow10[places'] = 10 * p
    BY <1>1, <1>4, PowersArePositive
  <2> HIDE DEF p
  <2>2. Numer * (10 * p) = 10 * x
    BY <1>3, <2>1
  <2>3. x = digits * Denom + remainder
    BY <1>5 DEF p
  <2>4. (digits * 10 + q) * Denom = 10 * (digits * Denom) + q * Denom
    BY <1>3, <1>4, <1>6
  <2>5. digits * Denom \in Nat /\ q * Denom \in Nat
    BY <1>3, <1>4, <1>6, Product
  <2> DEFINE y == digits * Denom
             z == q * Denom
  <2>6. 10 * x = (10 * y + z) + r
    <3>1. x = y + remainder /\ remainder * 10 = z + r /\ y \in Nat /\ z \in Nat
      BY <1>6, <2>3, <2>5
    <3> HIDE DEF x, y, z
    <3> QED BY <1>4, <1>6, <3>1
  <2> QED BY <1>2, <1>7, <2>1, <2>2, <2>4, <2>6
<1>10. significant' # 0 => digits' >= pow10[significant' - 1]
  <2>1. SUFFICES ASSUME significant' # 0 PROVE digits' >= pow10[significant' - 1]
    OBVIOUS
  <2>2. CASE significant = 0
    <3>1. digits' # 0 /\ significant' = 1
      BY <1>1, <2>1, <2>2
    <3>2. pow10[0] = 1
      BY PowersArePositive
    <3> QED BY <1>8, <3>1, <3>2
  <2>3. CASE significant # 0
    <3>1. significant - 1 \in Nat /\ (significant - 1) + 1 = significant
      BY <1>4, <2>3
    <3>2. pow10[significant - 1] \in Nat \ {0}
          /\ pow10[significant] = 10 * pow10[significant - 1]
      BY <3>1, PowersArePositive
    <3>3. digits' >= pow10[significant] /\ digits' # 0
      BY <1>4, <1>5, <1>6, <1>7, <2>3, <3>2
    <3>4. significant' = significant + 1
      BY <1>1, <3>3
    <3>5. significant' - 1 = significant
      BY <1>4, <3>4
    <3> QED BY <3>3, <3>5
  <2> QED BY <2>2, <2>3
<1>11. remainder' < Denom' /\ places' # 0
  BY <1>1, <1>2, <1>4, <1>6, <1>7
<1> QED BY <1>1, <1>8, <1>9, <1>10, <1>11 DEF DigitsKept

\* The facts on the pair do not change with the digits.
LEMMA PairStaysKept ==
    ASSUME PairKept, UNCHANGED <<accepted, pair, dividend, divisor>>
    PROVE  PairKept'
<1>1. \A c : Leg(c, ValueDate)' = Leg(c, ValueDate)
  BY DEF Leg
<1>2. Leg(pair[1], ValueDate)' = Leg(pair[1], ValueDate)
      /\ Leg(pair[2], ValueDate)' = Leg(pair[2], ValueDate)
  BY DEF Leg
<1>3. PairRate(pair[1], pair[2], ValueDate)' = PairRate(pair[1], pair[2], ValueDate)
  BY DEF PairRate, Leg
<1>4. Automatic(Leg(pair[1], ValueDate), Leg(pair[2], ValueDate))'
        = Automatic(Leg(pair[1], ValueDate), Leg(pair[2], ValueDate))
  BY <1>2 DEF Automatic
<1> QED BY <1>2, <1>3, <1>4 DEF PairKept

LEMMA BringDownKeepsInv ==
    ASSUME MoneyAssumption, MoneyInv, BringDown
    PROVE  MoneyInv'
<1>1. MoneyTypes /\ phase = "dividing" /\ conversion = None /\ Divides /\ DigitsKept
  BY DEF MoneyInv, ConversionKept, BringDown, Divides
<1>2. accepted' = accepted /\ pair' = pair /\ dividend' = dividend /\ divisor' = divisor
      /\ quote' = quote /\ conversion' = None
  BY <1>1 DEF BringDown
<1>3. CASE remainder * 10 <= MaxWide
  <2>1. DigitsKept' /\ phase' = "dividing"
        /\ digits' \in Nat /\ places' \in Nat /\ remainder' \in Nat /\ significant' \in Nat
    BY <1>1, <1>3, DigitsKeptByBringDown
  <2>2. pair # None => PairKept'
    BY <1>1, <1>2, PairStaysKept DEF MoneyInv
  <2>3. MoneyTypes'
    BY <1>1, <1>2, <2>1 DEF MoneyTypes
  <2> QED BY <1>2, <2>1, <2>2, <2>3 DEF MoneyInv
<1>4. CASE ~(remainder * 10 <= MaxWide)
  <2>1. phase' = "refused" /\ UNCHANGED <<digits, remainder, places, significant>>
    BY <1>4 DEF BringDown
  <2>2. MoneyTypes'
    BY <1>1, <1>2, <2>1 DEF MoneyTypes
  <2> QED BY <1>2, <2>1, <2>2 DEF MoneyInv, Divides
<1> QED BY <1>3, <1>4

-----------------------------------------------------------------------------
(* The quote.                                                                  *)

\* Zeros are taken from the end of a number that has them.
LEMMA ZerosTaken ==
    ASSUME MoneyAssumption, MoneyTypes, NEW q \in Nat,
           places = 0 => q < pow10[MostDigits]
    PROVE  /\ TrailingZeros(q) \in Nat /\ q % pow10[TrailingZeros(q)] = 0
           /\ places # 0 => TrailingZeros(q) <= places
<1> DEFINE most == IF places = 0 THEN DigitCount(q) ELSE places
           Taken(k) == q % pow10[k] = 0 /\ (k = most \/ q % pow10[k + 1] # 0)
<1>1. most \in Nat
  BY DigitsCounted DEF MoneyTypes
<1>2. TrailingZeros(q) = CHOOSE k \in 0 .. most : Taken(k)
  BY DEF TrailingZeros
<1>3. places # 0 => most = places
  OBVIOUS
<1> HIDE DEF most
<1>4. \E k \in 0 .. most : Taken(k)
  BY <1>1, ZerosExist
<1> HIDE DEF Taken
<1>5. TrailingZeros(q) \in 0 .. most /\ Taken(TrailingZeros(q))
  BY <1>2, <1>4, Zenon
<1>6. TrailingZeros(q) \in Nat /\ TrailingZeros(q) <= most
  BY <1>1, <1>5
<1>7. q % pow10[TrailingZeros(q)] = 0
  BY <1>5 DEF Taken
<1> QED BY <1>3, <1>6, <1>7

\* The next digit rounds as the remainder does.
LEMMA RoundedByRemainder ==
    ASSUME MoneyTypes, remainder < Denom
    PROVE  /\ Rounded = IF 2 * remainder > Denom \/ (2 * remainder = Denom /\ digits % 2 = 1)
                        THEN digits + 1 ELSE digits
           /\ LastDigit \in Nat /\ LastDigit <= digits + 1 /\ LastDigit >= digits
<1> DEFINE next == (remainder * 10) \div Denom
           rest == (remainder * 10) % Denom
<1>1. Denom \in Nat \ {0} /\ remainder \in Nat /\ digits \in Nat
  BY DenomIsPositive DEF MoneyTypes
<1>2. next \in Nat /\ rest \in Nat /\ rest < Denom /\ remainder * 10 = next * Denom + rest
  <2>1. remainder * 10 \in Nat
    BY <1>1
  <2>2. next \in Nat /\ rest \in 0 .. Denom - 1 /\ remainder * 10 = next * Denom + rest
    BY <1>1, <2>1, DivMod
  <2> QED BY <1>1, <2>2
<1>3. Rounded = IF next > 5 \/ (next = 5 /\ (rest # 0 \/ digits % 2 = 1))
                THEN digits + 1 ELSE digits
  BY DEF Rounded
<1> HIDE DEF next, rest
<1>4. CASE next > 5
  <2>1. (next - 6) \in Nat /\ (next - 6) * Denom \in Nat
        /\ next * Denom = 6 * Denom + (next - 6) * Denom
    BY <1>1, <1>2, <1>4
  <2>2. 2 * remainder > Denom
    <3> DEFINE x == (next - 6) * Denom
    <3>1. x \in Nat /\ remainder * 10 = 6 * Denom + x + rest
      BY <1>2, <2>1
    <3> HIDE DEF x
    <3> QED BY <1>1, <1>2, <3>1
  <2> QED BY <1>1, <1>3, <1>4, <2>2 DEF LastDigit
<1>5. CASE next = 5
  <2>1. remainder * 10 = 5 * Denom + rest
    BY <1>2, <1>5
  <2>2. (2 * remainder > Denom <=> rest # 0) /\ (2 * remainder = Denom <=> rest = 0)
    BY <1>1, <1>2, <2>1
  <2> QED BY <1>1, <1>3, <1>5, <2>2 DEF LastDigit
<1>6. CASE next < 5
  <2>1. (4 - next) \in Nat /\ (4 - next) * Denom \in Nat
        /\ next * Denom = 4 * Denom - (4 - next) * Denom
    BY <1>1, <1>2, <1>6
  <2>2. 2 * remainder < Denom
    <3> DEFINE x == (4 - next) * Denom
    <3>1. x \in Nat /\ remainder * 10 = 4 * Denom - x + rest
      BY <1>2, <2>1
    <3> HIDE DEF x
    <3> QED BY <1>1, <1>2, <3>1
  <2> QED BY <1>1, <1>2, <1>3, <1>6, <2>2 DEF LastDigit
<1> QED BY <1>2, <1>4, <1>5, <1>6

\* Without places, only an exact quotient shows its fraction.
LEMMA WholePartIsExact ==
    ASSUME MoneyAssumption, MoneyTypes, DigitsKept, FractionIsShown, places = 0,
           remainder = 0 \/ significant >= SignificantDigits
    PROVE  remainder = 0
<1>1. SUFFICES ASSUME significant >= SignificantDigits PROVE FALSE
  OBVIOUS
<1>2. SignificantDigits \in Nat \ {0} /\ significant \in Nat /\ digits \in Nat
      /\ remainder \in Nat
  BY DEF MoneyAssumption, MoneyTypes
<1>3. Numer \in Nat /\ Denom \in Nat \ {0}
  BY DenomIsPositive
<1>4. Numer = digits * Denom + remainder
  <2>1. pow10[0] = 1 /\ Numer * 1 = Numer
    BY <1>3, PowersArePositive
  <2> QED BY <2>1 DEF DigitsKept
<1>5. Numer \div Denom = digits
  <2>1. remainder < Denom
    BY DEF DigitsKept
  <2> DEFINE q == Numer \div Denom
             r == Numer % Denom
  <2>2. q \in Nat /\ r \in 0 .. Denom - 1 /\ Numer = q * Denom + r
    BY <1>3, DivMod
  <2> HIDE DEF q, r
  <2>3. ASSUME NEW u \in Nat, NEW v \in Nat, NEW x \in Nat, NEW y \in Nat,
               x < Denom, y < Denom, u * Denom + x = v * Denom + y
        PROVE  u <= v
    <3>1. SUFFICES ASSUME u >= v + 1 PROVE FALSE
      BY <2>3
    <3>2. u - v - 1 \in Nat /\ (u - v - 1) * Denom \in Nat
          /\ u * Denom = v * Denom + Denom + (u - v - 1) * Denom
      BY <1>3, <2>3, <3>1
    <3>3. u * Denom \in Nat /\ v * Denom \in Nat
      BY <1>3, <2>3, Product
    <3> QED BY <1>3, <2>3, <3>2, <3>3
  <2>4. r \in Nat /\ r < Denom
    BY <1>3, <2>2
  <2>5. q <= digits /\ digits <= q
    BY <1>2, <1>4, <2>1, <2>2, <2>3, <2>4
  <2>6. q = digits
    BY <1>2, <2>2, <2>5
  <2> QED BY <2>6 DEF q
<1>6. significant # 0 /\ significant - 1 \in Nat /\ SignificantDigits - 1 \in Nat
      /\ SignificantDigits - 1 <= significant - 1
  BY <1>1, <1>2
<1>7. pow10[SignificantDigits - 1] <= pow10[significant - 1]
      /\ pow10[SignificantDigits - 1] \in Nat /\ pow10[significant - 1] \in Nat
  BY <1>6, PowersGrow, PowersArePositive
<1>8. digits >= pow10[significant - 1]
  BY <1>6 DEF DigitsKept
<1>9. digits < pow10[SignificantDigits - 1]
  BY <1>5 DEF FractionIsShown
<1> QED BY <1>2, <1>7, <1>8, <1>9

LEMMA FinishQuoteKeepsInv ==
    ASSUME MoneyAssumption, MoneyInv, FinishQuote
    PROVE  MoneyInv'
<1> DEFINE q == LastDigit
           k == IF remainder = 0 /\ places = 0 THEN 0 ELSE TrailingZeros(q)
           r == Parsed(q, k)
<1>1. /\ MoneyTypes /\ phase = "dividing" /\ conversion = None /\ DigitsKept
      /\ pair # None => PairKept
  BY DEF MoneyInv, ConversionKept, FinishQuote, Divides
<1>2. /\ remainder = 0 \/ significant >= SignificantDigits
      /\ UNCHANGED <<accepted, pair, division, conversion>>
      /\ (phase' = "quoted" /\ quote' = r) \/ (phase' = "refused" /\ quote' = quote)
  BY DEF FinishQuote, LastDigit
<1>3. accepted' = accepted /\ pair' = pair /\ dividend' = dividend /\ divisor' = divisor
      /\ digits' = digits /\ places' = places /\ remainder' = remainder
      /\ significant' = significant /\ conversion' = None
  BY <1>1, <1>2 DEF division
<1>4. digits \in Nat /\ places \in Nat /\ remainder \in Nat
  BY <1>1 DEF MoneyTypes
<1>5. remainder < Denom
  BY <1>1 DEF DigitsKept
<1>6. q \in Nat /\ q <= digits + 1
  BY <1>1, <1>5, RoundedByRemainder
<1>7. places = 0 => q < pow10[MostDigits]
  <2>1. MaxWide \in Nat /\ MaxWide + 1 < pow10[MostDigits] /\ MostDigits \in Nat
    BY DEF MoneyAssumption, MostDigits
  <2>2. pow10[MostDigits] \in Nat
    BY <2>1, PowersArePositive
  <2>3. places = 0 => digits <= MaxWide
    BY <1>1 DEF DigitsKept
  <2> QED BY <1>4, <1>6, <2>1, <2>2, <2>3
<1>8. k \in Nat /\ q % pow10[k] = 0 /\ (places # 0 => k <= places)
  <2>1. CASE remainder = 0 /\ places = 0
    <3>1. pow10[0] = 1 /\ q % 1 = 0
      BY <1>6, PowersArePositive
    <3> QED BY <2>1, <3>1
  <2>2. CASE ~(remainder = 0 /\ places = 0)
    <3> HIDE DEF q
    <3> QED BY <1>1, <1>6, <1>7, <2>2, ZerosTaken
  <2> QED BY <2>1, <2>2
<1>9. r = [coefficient |-> q \div pow10[k], scale |-> IF places = 0 THEN 0 ELSE places - k]
  BY DEF Parsed
<1>10. (remainder = 0 /\ places = 0) => k = 0
  OBVIOUS
<1>11. Numer' = Numer /\ Denom' = Denom /\ Rounded' = Rounded /\ LastDigit' = q
       /\ SamePair' = SamePair
  BY <1>3 DEF Numer, Denom, Rounded, LastDigit, SamePair
<1> HIDE DEF q, k
<1>12. q \div pow10[k] \in Nat /\ (q \div pow10[k]) * pow10[k] = q
  BY <1>6, <1>8, DividesOut
<1>13. r \in [coefficient : Nat, scale : Nat]
  <2>1. (IF places = 0 THEN 0 ELSE places - k) \in Nat
    BY <1>4, <1>8
  <2> QED BY <1>9, <1>12, <2>1
<1>14. FractionIsShown => r.scale <= places /\ r.coefficient * pow10[places - r.scale] = q
  <2>1. SUFFICES ASSUME FractionIsShown
                 PROVE  r.scale <= places /\ r.coefficient * pow10[places - r.scale] = q
    OBVIOUS
  <2>2. CASE places = 0
    <3>1. remainder = 0
      BY <1>1, <1>2, <2>1, <2>2, WholePartIsExact
    <3>2. k = 0 /\ r.scale = 0 /\ places - r.scale = 0 /\ r.coefficient = q \div pow10[k]
      BY <1>9, <1>10, <2>2, <3>1
    <3> QED BY <1>4, <1>12, <3>2
  <2>3. CASE places # 0
    <3>1. r.scale = places - k /\ r.coefficient = q \div pow10[k]
      BY <1>9, <2>3
    <3>2. places - r.scale = k /\ r.scale <= places
      BY <1>4, <1>8, <2>3, <3>1
    <3> QED BY <1>12, <3>1, <3>2
  <2> QED BY <2>2, <2>3
<1>15. DigitsKept' /\ (FractionIsShown' <=> FractionIsShown)
  BY <1>1, <1>3, <1>11 DEF DigitsKept, FractionIsShown
<1>16. pair # None => PairKept'
  BY <1>1, <1>3, PairStaysKept
<1>17. CASE phase' = "quoted" /\ quote' = r
  <2>1. MoneyTypes'
    <3> HIDE DEF r
    <3> QED BY <1>1, <1>3, <1>13, <1>17 DEF MoneyTypes
  <2>2. QuoteKept'
    <3> HIDE DEF r
    <3> QED BY <1>2, <1>3, <1>11, <1>14, <1>15, <1>17 DEF QuoteKept
  <2> QED BY <1>3, <1>15, <1>16, <2>1, <2>2 DEF MoneyInv
<1>18. CASE phase' = "refused" /\ quote' = quote
  <2>1. MoneyTypes'
    BY <1>1, <1>3, <1>18 DEF MoneyTypes
  <2> QED BY <1>3, <1>18, <2>1 DEF MoneyInv, Divides
<1> QED BY <1>2, <1>17, <1>18

-----------------------------------------------------------------------------
(* The steps of a conversion.                                                  *)

\* A conversion leaves everything else, and what was asked for is kept.
LEMMA ConvertedKeepsInv ==
    ASSUME MoneyAssumption, MoneyInv, UNCHANGED <<accepted, pair, phase, division, quote>>,
           ConversionKept'
    PROVE  MoneyInv'
<1>1. accepted' = accepted /\ pair' = pair /\ dividend' = dividend /\ divisor' = divisor
      /\ digits' = digits /\ places' = places /\ remainder' = remainder
      /\ significant' = significant /\ phase' = phase /\ quote' = quote
  BY DEF division
<1>2. MoneyTypes'
  BY <1>1 DEF MoneyInv, MoneyTypes
<1>3. Numer' = Numer /\ Denom' = Denom /\ Rounded' = Rounded /\ LastDigit' = LastDigit
      /\ SamePair' = SamePair /\ Divides' = Divides
  BY <1>1 DEF Numer, Denom, Rounded, LastDigit, SamePair, Divides
<1>4. DigitsKept => DigitsKept'
  BY <1>1, <1>3 DEF DigitsKept
<1>5. PairKept => PairKept'
  BY <1>1, PairStaysKept
<1>6. QuoteKept => QuoteKept'
  BY <1>1, <1>3 DEF QuoteKept, FractionIsShown
<1> QED BY <1>1, <1>2, <1>3, <1>4, <1>5, <1>6 DEF MoneyInv

\* What a conversion records.
LEMMA RecordedConversion ==
    ASSUME NEW use, NEW s, NEW t, NEW amount, NEW outcome,
           Converted(use, s, t, amount, outcome)
    PROVE  conversion'.use = use /\ conversion'.source = s /\ conversion'.target = t
           /\ conversion'.amount = amount /\ conversion'.outcome = outcome
BY DEF Converted

LEMMA ConvertByQuoteKeepsInv ==
    ASSUME MoneyAssumption, MoneyInv, NEW amount \in Amounts, ConvertByQuote(amount)
    PROVE  MoneyInv'
<1> DEFINE out == Convert(pair[1], pair[2], Manual(quote), amount)
<1>1. phase = "quoted" /\ pair # None /\ pair[1] # pair[2]
      /\ Converted("quote", pair[1], pair[2], amount, out)
      /\ UNCHANGED <<accepted, pair, phase, division, quote>>
  BY DEF ConvertByQuote
<1>2. pair \in Currencies \X Currencies /\ amount \in Nat
  BY <1>1 DEF MoneyInv, MoneyTypes, MoneyAssumption
<1>3. conversion'.use = "quote" /\ conversion'.source = pair[1]
      /\ conversion'.target = pair[2] /\ conversion'.amount = amount
      /\ conversion'.outcome = out
  <2> HIDE DEF out
  <2> QED BY <1>1, RecordedConversion
<1>4. Convert(conversion.source, conversion.target, Manual(quote), conversion.amount)' = out
  BY <1>1, <1>3 DEF Convert, WithRates, Manual, Numerator, Denominator
<1> HIDE DEF out
<1>5. ConversionKept'
  BY <1>1, <1>2, <1>3, <1>4 DEF ConversionKept
<1> QED BY <1>1, <1>5, ConvertedKeepsInv

LEMMA ConvertByPairKeepsInv ==
    ASSUME MoneyAssumption, MoneyInv, NEW s \in Currencies, NEW t \in Currencies,
           NEW amount \in Amounts, ConvertByPair(s, t, amount)
    PROVE  MoneyInv'
<1> DEFINE out == Convert(s, t, PairRate(s, t, ValueDate), amount)
<1>1. phase \in {"quoted", "pending"} /\ Converted("pair", s, t, amount, out)
      /\ UNCHANGED <<accepted, pair, phase, division, quote>>
  BY DEF ConvertByPair
<1>2. amount \in Nat
  BY DEF MoneyAssumption
<1>3. conversion'.use = "pair" /\ conversion'.source = s /\ conversion'.target = t
      /\ conversion'.amount = amount /\ conversion'.outcome = out
  <2> HIDE DEF out
  <2> QED BY <1>1, RecordedConversion
<1>4. Convert(conversion.source, conversion.target,
              PairRate(conversion.source, conversion.target, ValueDate),
              conversion.amount)' = out
  <2>1. PairRate(conversion.source, conversion.target, ValueDate)' = PairRate(s, t, ValueDate)
    BY <1>1, <1>3 DEF PairRate, Leg
  <2> QED BY <1>3, <2>1 DEF Convert, WithRates, Numerator, Denominator
<1> HIDE DEF out
<1>5. ConversionKept'
  BY <1>1, <1>2, <1>3, <1>4 DEF ConversionKept
<1> QED BY <1>1, <1>5, ConvertedKeepsInv

LEMMA ConvertProjectedKeepsInv ==
    ASSUME MoneyAssumption, MoneyInv, NEW s \in Currencies, NEW t \in Currencies,
           NEW amount \in Amounts, ConvertProjected(s, t, amount)
    PROVE  MoneyInv'
<1> DEFINE out == Projected(s, t, amount)
<1>1. phase \in {"quoted", "pending"} /\ Converted("projection", s, t, amount, out)
      /\ UNCHANGED <<accepted, pair, phase, division, quote>>
  BY DEF ConvertProjected
<1>2. amount \in Nat
  BY DEF MoneyAssumption
<1>3. conversion'.use = "projection" /\ conversion'.source = s /\ conversion'.target = t
      /\ conversion'.amount = amount /\ conversion'.outcome = out
  <2> HIDE DEF out
  <2> QED BY <1>1, RecordedConversion
<1>4. Projected(conversion.source, conversion.target, conversion.amount)' = out
  <2>1. Newest' = Newest
    BY <1>1 DEF Newest
  <2>2. PairRate(conversion.source, conversion.target, Newest)' = PairRate(s, t, Newest)
    BY <1>1, <1>3, <2>1 DEF PairRate, Leg
  <2> QED BY <1>3, <2>1, <2>2 DEF Projected, Convert, WithRates, Numerator, Denominator
<1> HIDE DEF out
<1>5. ConversionKept'
  BY <1>1, <1>2, <1>3, <1>4 DEF ConversionKept
<1> QED BY <1>1, <1>5, ConvertedKeepsInv

LEMMA MoneyInvNext ==
    ASSUME MoneyAssumption, MoneyInv, [Next]_vars
    PROVE  MoneyInv'
<1>1. ASSUME NEW s \in Currencies, NEW t \in Currencies, AskQuote(s, t)
      PROVE  MoneyInv'
  BY <1>1, AskQuoteKeepsInv
<1>2. ASSUME NEW r \in AuthoredRates, InvertMapped(r)
      PROVE  MoneyInv'
  BY <1>2, InvertMappedKeepsInv
<1>3. CASE BringDown
  BY <1>3, BringDownKeepsInv
<1>4. CASE FinishQuote
  BY <1>4, FinishQuoteKeepsInv
<1>5. ASSUME NEW amount \in Amounts, ConvertByQuote(amount)
      PROVE  MoneyInv'
  BY <1>5, ConvertByQuoteKeepsInv
<1>6. ASSUME NEW amount \in Amounts, NEW s \in Currencies, NEW t \in Currencies,
             ConvertByPair(s, t, amount)
      PROVE  MoneyInv'
  BY <1>6, ConvertByPairKeepsInv
<1>7. ASSUME NEW amount \in Amounts, NEW s \in Currencies, NEW t \in Currencies,
             ConvertProjected(s, t, amount)
      PROVE  MoneyInv'
  BY <1>7, ConvertProjectedKeepsInv
<1>8. CASE UNCHANGED vars
  <2>1. accepted' = accepted /\ pair' = pair /\ UNCHANGED division /\ phase' = phase
        /\ quote' = quote /\ conversion' = conversion
    BY <1>8 DEF vars
  <2>2. CASE conversion = None
    <3>1. accepted' = accepted /\ pair' = pair /\ dividend' = dividend /\ divisor' = divisor
          /\ digits' = digits /\ places' = places /\ remainder' = remainder
          /\ significant' = significant /\ phase' = phase /\ quote' = quote
      BY <2>1 DEF division
    <3> QED BY <2>1, <2>2, <3>1 DEF MoneyInv, MoneyTypes, Divides, DigitsKept, PairKept,
            QuoteKept, Numer, Denom, LastDigit, Rounded, FractionIsShown, SamePair,
            PairRate, Leg
  <2>3. CASE conversion # None
    <3>1. ConversionKept
      BY <2>3 DEF MoneyInv
    <3>2. Newest' = Newest
      BY <2>1 DEF Newest
    <3>3. PairRate(conversion.source, conversion.target, ValueDate)'
            = PairRate(conversion.source, conversion.target, ValueDate)
      BY <2>1 DEF PairRate, Leg
    <3>4. PairRate(conversion.source, conversion.target, Newest)'
            = PairRate(conversion.source, conversion.target, Newest)
      BY <2>1, <3>2 DEF PairRate, Leg
    <3>5. Convert(conversion.source, conversion.target, Manual(quote), conversion.amount)'
            = Convert(conversion.source, conversion.target, Manual(quote), conversion.amount)
      BY <2>1 DEF Convert, WithRates, Manual, Numerator, Denominator
    <3>6. Convert(conversion.source, conversion.target,
                  PairRate(conversion.source, conversion.target, ValueDate),
                  conversion.amount)'
            = Convert(conversion.source, conversion.target,
                      PairRate(conversion.source, conversion.target, ValueDate),
                      conversion.amount)
      BY <2>1, <3>3 DEF Convert, WithRates, Numerator, Denominator
    <3>7. Projected(conversion.source, conversion.target, conversion.amount)'
            = Projected(conversion.source, conversion.target, conversion.amount)
      BY <2>1, <3>2, <3>4 DEF Projected, Convert, WithRates, Numerator, Denominator
    <3>8. ConversionKept'
      BY <2>1, <3>1, <3>5, <3>6, <3>7 DEF ConversionKept
    <3> QED BY <2>1, <3>8, ConvertedKeepsInv
  <2> QED BY <2>2, <2>3
<1> QED BY <1>1, <1>2, <1>3, <1>4, <1>5, <1>6, <1>7, <1>8 DEF Next

LEMMA MoneyInvariant ==
    ASSUME MoneyAssumption
    PROVE  Spec => []MoneyInv
<1>1. Init => MoneyInv
  BY MoneyInvInit
<1>2. MoneyInv /\ [Next]_vars => MoneyInv'
  BY MoneyInvNext
<1> QED BY <1>1, <1>2, PTL DEF Spec

-----------------------------------------------------------------------------
(* The properties.                                                             *)

\* A quote is within half a unit of its last digit.
LEMMA KeptQuoteIsNearest ==
    ASSUME MoneyAssumption, MoneyInv, phase = "quoted", FractionIsShown, pair \notin SamePair
    PROVE  /\ quote.scale <= places /\ quote \in [coefficient : Nat, scale : Nat]
           /\ places \in Nat
           /\ quote.coefficient * pow10[places - quote.scale] = LastDigit
           /\ Nearest(LastDigit, Numer * pow10[places], Denom)
           /\ LastDigit * Denom # Numer * pow10[places]
                => LastDigit >= pow10[SignificantDigits - 1]
<1>1. MoneyTypes /\ DigitsKept /\ QuoteKept
  BY DEF MoneyInv, Divides
<1>2. Numer \in Nat /\ Denom \in Nat \ {0} /\ digits \in Nat /\ remainder \in Nat
      /\ places \in Nat /\ significant \in Nat /\ remainder < Denom
      /\ Numer * pow10[places] = digits * Denom + remainder
  BY <1>1, DenomIsPositive DEF MoneyTypes, DigitsKept
<1> DEFINE n == Numer * pow10[places]
           up == 2 * remainder > Denom \/ (2 * remainder = Denom /\ digits % 2 = 1)
<1>3. Rounded = (IF up THEN digits + 1 ELSE digits) /\ LastDigit \in Nat /\ LastDigit >= digits
  BY <1>1, <1>2, RoundedByRemainder
<1>4. LastDigit = IF up THEN digits + 1 ELSE digits
  BY <1>2, <1>3 DEF LastDigit
<1>5. n \in Nat /\ n = digits * Denom + remainder
  <2>1. pow10[places] \in Nat
    BY <1>2, PowersArePositive
  <2> QED BY <1>2, <2>1, Product
<1> HIDE DEF n
<1>6. Nearest(LastDigit, n, Denom)
  <2> DEFINE above == up
  <2>1. above \in BOOLEAN
        /\ (above <=> (2 * remainder > Denom \/ (2 * remainder = Denom /\ digits % 2 = 1)))
    OBVIOUS
  <2>2. LastDigit = IF above THEN digits + 1 ELSE digits
    BY <1>4
  <2> HIDE DEF above, up
  <2>3. Nearest(IF above THEN digits + 1 ELSE digits, n, Denom)
    BY <1>2, <1>5, <2>1, RoundedQuotient
  <2> QED BY <2>2, <2>3
<1>7. ASSUME LastDigit * Denom # n PROVE LastDigit >= pow10[SignificantDigits - 1]
  <2>1. remainder # 0
    <3>1. digits * Denom \in Nat /\ digits * Denom + 0 = digits * Denom
      BY <1>2, Product
    <3> QED BY <1>5, <1>7, <3>1 DEF LastDigit
  <2>2. significant >= SignificantDigits /\ SignificantDigits \in Nat \ {0}
    BY <1>1, <2>1 DEF QuoteKept, MoneyAssumption
  <2>3. significant # 0 /\ significant - 1 \in Nat /\ SignificantDigits - 1 \in Nat
        /\ SignificantDigits - 1 <= significant - 1
    BY <1>2, <2>2
  <2>4. pow10[SignificantDigits - 1] <= pow10[significant - 1]
        /\ pow10[SignificantDigits - 1] \in Nat /\ pow10[significant - 1] \in Nat
    BY <2>3, PowersGrow, PowersArePositive
  <2>5. digits >= pow10[significant - 1]
    BY <1>1, <2>3 DEF DigitsKept
  <2> QED BY <1>2, <1>3, <2>4, <2>5
<1> QED BY <1>1, <1>2, <1>6, <1>7 DEF n, QuoteKept, MoneyTypes

\* The rate checked_div and inverse return is the exact ratio to the last digit shown,
\* for every width of the integers and every two rates.
THEOREM QuotesAreNearest ==
    ASSUME MoneyAssumption
    PROVE  Spec => []QuoteIsNearest
<1>1. ASSUME MoneyInv PROVE QuoteIsNearest
  <2> DEFINE unit == pow10[places]
             shown == quote.coefficient * pow10[places - quote.scale]
             error == Distance(shown * Denom, Numer * unit)
  <2>1. SUFFICES ASSUME phase = "quoted", FractionIsShown, pair \notin SamePair
                 PROVE  /\ quote.scale <= places
                        /\ 2 * error <= Denom
                        /\ 2 * error = Denom => shown % 2 = 0
                        /\ places > 0 /\ error # 0 => shown >= pow10[SignificantDigits - 1]
    BY DEF QuoteIsNearest, SamePair
  <2>2. /\ quote.scale <= places /\ quote \in [coefficient : Nat, scale : Nat]
        /\ places \in Nat
        /\ shown = LastDigit
        /\ Nearest(LastDigit, Numer * unit, Denom)
        /\ LastDigit * Denom # Numer * unit => LastDigit >= pow10[SignificantDigits - 1]
    BY <1>1, <2>1, KeptQuoteIsNearest
  <2>3. Numer \in Nat /\ Denom \in Nat \ {0} /\ unit \in Nat
    BY <1>1, <2>2, DenomIsPositive, PowersArePositive DEF MoneyInv
  <2>4. Numer * unit \in Nat /\ LastDigit \in Nat /\ LastDigit * Denom \in Nat
    BY <2>2, <2>3, Product DEF Nearest
  <2>5. error = Distance(LastDigit * Denom, Numer * unit)
    BY <2>2
  <2>6. error # 0 => LastDigit * Denom # Numer * unit
    <3> DEFINE x == LastDigit * Denom
               y == Numer * unit
    <3>1. x \in Nat /\ y \in Nat /\ error = Distance(x, y)
      BY <2>4, <2>5
    <3> HIDE DEF x, y, error
    <3>2. x = y => error = 0
      BY <3>1 DEF Distance
    <3> QED BY <3>2 DEF x, y
  <2> HIDE DEF shown, error, unit
  <2> QED BY <2>2, <2>5, <2>6 DEF Nearest
<1> QED BY <1>1, MoneyInvariant, PTL

\* A completed conversion with a rate is the nearest number of minor units.
LEMMA WithRatesIsNearest ==
    ASSUME MoneyAssumption, NEW s \in Currencies, NEW t \in Currencies,
           NEW leg, leg.coefficient \in Nat \ {0}, leg.scale \in Nat,
           NEW ref, ref.coefficient \in Nat, ref.scale \in Nat,
           NEW amount \in Nat, WithRates(s, t, leg, ref, amount) # None
    PROVE  /\ Numerator(s, t, leg, ref, amount) \in Nat
           /\ Denominator(s, t, leg, ref) \in Nat \ {0}
           /\ Nearest(WithRates(s, t, leg, ref, amount).minorUnits,
                      Numerator(s, t, leg, ref, amount), Denominator(s, t, leg, ref))
<1> DEFINE n == Numerator(s, t, leg, ref, amount)
           d == Denominator(s, t, leg, ref)
<1>1. MinorUnitDigits[s] \in Nat /\ MinorUnitDigits[t] \in Nat
  BY DEF MoneyAssumption
<1>2. /\ pow10[MinorUnitDigits[s]] \in Nat \ {0} /\ pow10[MinorUnitDigits[t]] \in Nat \ {0}
      /\ pow10[leg.scale] \in Nat \ {0} /\ pow10[ref.scale] \in Nat \ {0}
  BY <1>1, PowersArePositive
<1>3. n \in Nat
  <2>1. amount * pow10[MinorUnitDigits[t]] \in Nat
    BY <1>2, Product
  <2>2. amount * pow10[MinorUnitDigits[t]] * ref.coefficient \in Nat
    BY <2>1, Product
  <2> QED BY <1>2, <2>2, Product DEF Numerator
<1>4. d \in Nat \ {0}
  <2>1. pow10[MinorUnitDigits[s]] * leg.coefficient \in Nat \ {0}
    BY <1>2, Product
  <2> QED BY <1>2, <2>1, Product DEF Denominator
<1>5. WithRates(s, t, leg, ref, amount).minorUnits = RoundHalfEven(n, d)
  <2> DEFINE u == RoundHalfEven(n, d)
  <2>1. WithRates(s, t, leg, ref, amount) = IF u > MaxMinorUnits THEN None ELSE Complete(u)
    BY DEF WithRates
  <2> HIDE DEF u
  <2>2. WithRates(s, t, leg, ref, amount) = Complete(u)
    BY <2>1
  <2>3. WithRates(s, t, leg, ref, amount).minorUnits = u
    BY <2>2 DEF Complete
  <2> QED BY <2>3 DEF u
<1> HIDE DEF n, d
<1>6. Nearest(RoundHalfEven(n, d), n, d)
  BY <1>3, <1>4, RoundHalfEvenIsNearest
<1> QED BY <1>3, <1>4, <1>5, <1>6 DEF n, d

LEMMA ConvertsByManual ==
    ASSUME NEW s, NEW t, s # t, NEW r, NEW amount
    PROVE  Convert(s, t, Manual(r), amount) = WithRates(s, t, One, r, amount)
<1>1. Manual(r).variant = "manual" /\ Manual(r).rate = r
  BY DEF Manual
<1> QED BY <1>1 DEF Convert

LEMMA ConvertsByLegs ==
    ASSUME NEW s, NEW t, s # t, NEW d, NEW amount
    PROVE  \/ Convert(s, t, PairRate(s, t, d), amount) = Incomplete
           \/ /\ PairRate(s, t, d).variant = "automatic"
              /\ PairRate(s, t, d).source = Leg(s, d) /\ PairRate(s, t, d).reference = Leg(t, d)
              /\ Leg(s, d) # None /\ Leg(t, d) # None
              /\ Convert(s, t, PairRate(s, t, d), amount) \in
                    {None, WithRates(s, t, Leg(s, d).rate, Leg(t, d).rate, amount)}
<1> DEFINE rate == PairRate(s, t, d)
<1>1. CASE rate.variant = "pending"
  BY <1>1 DEF Convert
<1>2. CASE rate.variant # "pending"
  <2>1. rate.variant = "automatic" /\ rate.source = Leg(s, d) /\ rate.reference = Leg(t, d)
        /\ Leg(s, d) # None /\ Leg(t, d) # None
    BY <1>2, RateOfAPair
  <2> HIDE DEF rate
  <2>2. Convert(s, t, rate, amount) \in
           {None, WithRates(s, t, rate.source.rate, rate.reference.rate, amount)}
    BY <2>1 DEF Convert
  <2> QED BY <2>1, <2>2 DEF rate
<1> QED BY <1>1, <1>2

\* What RoundedOnce asks of a conversion by two rates.
RoundedWith(leg, reference) ==
    LET n == Numerator(conversion.source, conversion.target, leg, reference,
                       conversion.amount)
        d == Denominator(conversion.source, conversion.target, leg, reference)
        error == Distance(conversion.outcome.minorUnits * d, n)
    IN  /\ 2 * error <= d
        /\ 2 * error = d => conversion.outcome.minorUnits % 2 = 0

LEMMA RoundsWith ==
    ASSUME MoneyAssumption, ConversionKept, conversion.outcome # None,
           NEW leg, leg.coefficient \in Nat \ {0}, leg.scale \in Nat,
           NEW ref, ref.coefficient \in Nat, ref.scale \in Nat,
           conversion.outcome =
             WithRates(conversion.source, conversion.target, leg, ref, conversion.amount)
    PROVE  RoundedWith(leg, ref)
<1>1. conversion.source \in Currencies /\ conversion.target \in Currencies
      /\ conversion.amount \in Nat
  BY DEF ConversionKept
<1>2. Nearest(conversion.outcome.minorUnits,
              Numerator(conversion.source, conversion.target, leg, ref, conversion.amount),
              Denominator(conversion.source, conversion.target, leg, ref))
  BY <1>1, WithRatesIsNearest
<1> QED BY <1>2 DEF RoundedWith, Nearest

\* The rates of a pair round a conversion by its legs.
LEMMA RoundsWithPair ==
    ASSUME MoneyAssumption, MoneyInv, ConversionKept, NEW d,
           conversion.outcome # None, conversion.outcome.complete,
           conversion.source # conversion.target,
           conversion.outcome =
             Convert(conversion.source, conversion.target,
                     PairRate(conversion.source, conversion.target, d), conversion.amount)
    PROVE  LET rate == PairRate(conversion.source, conversion.target, d)
           IN  rate.variant = "automatic"
               /\ RoundedWith(rate.source.rate, rate.reference.rate)
<1> DEFINE s == conversion.source
           t == conversion.target
           rate == PairRate(s, t, d)
<1>1. conversion.outcome # Incomplete
  BY DEF Incomplete
<1>2. /\ rate.variant = "automatic"
      /\ rate.source = Leg(s, d) /\ rate.reference = Leg(t, d)
      /\ Leg(s, d) # None /\ Leg(t, d) # None
      /\ conversion.outcome =
            WithRates(s, t, Leg(s, d).rate, Leg(t, d).rate, conversion.amount)
  <2> HIDE DEF s, t
  <2>1. s # t /\ conversion.outcome = Convert(s, t, PairRate(s, t, d), conversion.amount)
    BY DEF s, t
  <2> QED BY <1>1, <2>1, ConvertsByLegs
<1>3. Leg(s, d).rate \in Rates /\ Leg(t, d).rate \in Rates
  BY <1>2, LegHasARate DEF MoneyInv, ConversionKept
<1> DEFINE leg == Leg(s, d).rate
           ref == Leg(t, d).rate
<1>4. leg.coefficient \in Nat \ {0} /\ leg.scale \in Nat
      /\ ref.coefficient \in Nat /\ ref.scale \in Nat
  <2> HIDE DEF leg, ref
  <2>1. leg \in Rates /\ ref \in Rates
    BY <1>3 DEF leg, ref
  <2> QED BY <2>1, RateFacts
<1>5. conversion.outcome =
         WithRates(conversion.source, conversion.target, leg, ref, conversion.amount)
  BY <1>2
<1> HIDE DEF leg, ref
<1>6. RoundedWith(leg, ref)
  BY <1>4, <1>5, RoundsWith
<1> QED BY <1>2, <1>6 DEF leg, ref

\* A completed conversion between currencies is the number of minor units nearest to the
\* exact product, the even one on a tie, by whichever rate it was converted.
THEOREM ConversionsRoundOnce ==
    ASSUME MoneyAssumption
    PROVE  Spec => []RoundedOnce
<1>1. ASSUME MoneyInv PROVE RoundedOnce
  <2>1. SUFFICES ASSUME conversion # None, conversion.outcome # None,
                        conversion.outcome.complete, conversion.source # conversion.target
                 PROVE  RoundedOnce
    BY DEF RoundedOnce
  <2>2. ConversionKept
    BY <1>1, <2>1 DEF MoneyInv
  <2>3. CASE conversion.use = "quote"
    <3>1. phase = "quoted"
          /\ conversion.outcome =
               WithRates(conversion.source, conversion.target, One, quote, conversion.amount)
      BY <2>2, <2>3, ConvertsByManual DEF ConversionKept
    <3>2. quote \in [coefficient : Nat, scale : Nat]
      BY <1>1, <3>1 DEF MoneyInv, MoneyTypes
    <3>3. One.coefficient \in Nat \ {0} /\ One.scale \in Nat
      BY DEF One
    <3>4. RoundedWith(One, quote)
      BY <2>1, <2>2, <3>1, <3>2, <3>3, RoundsWith
    <3>5. Manual(quote).variant = "manual" /\ Manual(quote).rate = quote
      BY DEF Manual
    <3> QED BY <2>3, <3>4, <3>5 DEF RoundedOnce, RoundedWith
  <2>4. CASE conversion.use = "pair"
    <3> DEFINE rate == PairRate(conversion.source, conversion.target, ValueDate)
    <3>1. conversion.outcome =
             Convert(conversion.source, conversion.target, rate, conversion.amount)
      BY <2>2, <2>4 DEF ConversionKept
    <3>2. rate.variant = "automatic" /\ RoundedWith(rate.source.rate, rate.reference.rate)
      BY <1>1, <2>1, <2>2, <3>1, RoundsWithPair
    <3> HIDE DEF rate
    <3>3. rate.variant # "manual"
      BY <3>2
    <3> QED BY <2>4, <3>2, <3>3 DEF RoundedOnce, RoundedWith, rate
  <2>5. CASE conversion.use = "projection"
    <3> DEFINE rate == PairRate(conversion.source, conversion.target, Newest)
    <3>1. conversion.outcome =
             Projected(conversion.source, conversion.target, conversion.amount)
      BY <2>2, <2>5 DEF ConversionKept
    <3>2. conversion.outcome # Incomplete
      BY <2>1 DEF Incomplete
    <3>3. conversion.outcome =
             Convert(conversion.source, conversion.target, rate, conversion.amount)
      <4> DEFINE newest == Newest
      <4> HIDE DEF newest
      <4>1. conversion.outcome \in
               {Incomplete,
                Convert(conversion.source, conversion.target,
                        PairRate(conversion.source, conversion.target, newest),
                        conversion.amount)}
        BY <3>1 DEF Projected, newest
      <4> QED BY <3>2, <4>1 DEF newest
    <3>4. rate.variant = "automatic" /\ RoundedWith(rate.source.rate, rate.reference.rate)
      BY <1>1, <2>1, <2>2, <3>3, RoundsWithPair
    <3> HIDE DEF rate
    <3>5. rate.variant # "manual"
      BY <3>4
    <3> QED BY <2>5, <3>4, <3>5 DEF RoundedOnce, RoundedWith, rate
  <2> QED BY <2>2, <2>3, <2>4, <2>5 DEF ConversionKept
<1> QED BY <1>1, MoneyInvariant, PTL

\* The quote of a pair, confirmed as a manual rate, converts every amount that has fewer
\* digits than the quote as the two observations do, up to one minor unit.
THEOREM QuotesConvertAlike ==
    ASSUME MoneyAssumption
    PROVE  Spec => []QuoteConvertsAlike
<1>1. ASSUME MoneyInv PROVE QuoteConvertsAlike
  <2> DEFINE s == pair[1]
             t == pair[2]
             automatic == Convert(s, t, PairRate(s, t, ValueDate), conversion.amount)
  <2>1. SUFFICES ASSUME conversion # None, conversion.use = "quote",
                        conversion.outcome # None, FractionIsShown,
                        automatic # None,
                        automatic.minorUnits < pow10[SignificantDigits - 1]
                 PROVE  Distance(automatic.minorUnits, conversion.outcome.minorUnits) <= 1
    BY DEF QuoteConvertsAlike
  <2>2. /\ phase = "quoted" /\ pair # None /\ s # t
        /\ s \in Currencies /\ t \in Currencies /\ conversion.amount \in Nat
        /\ pair = <<s, t>>
        /\ conversion.outcome = WithRates(s, t, One, quote, conversion.amount)
    BY <1>1, <2>1, ConvertsByManual DEF MoneyInv, ConversionKept
  <2>3. pair \notin SamePair
    BY <2>2 DEF SamePair
  <2>4. MoneyTypes /\ PairKept
    BY <1>1, <2>2, <2>3 DEF MoneyInv, Divides
  <2> DEFINE leg == Leg(s, ValueDate).rate
             ref == Leg(t, ValueDate).rate
  <2>5. divisor = leg /\ dividend = ref
    BY <2>4 DEF PairKept
  <2>6. automatic = WithRates(s, t, divisor, dividend, conversion.amount)
    <3>1. PairRate(s, t, ValueDate).variant = "automatic"
      BY <2>4 DEF PairKept, Automatic
    <3>2. automatic # Incomplete
      <4>1. PairRate(s, t, ValueDate).source = Leg(s, ValueDate)
            /\ PairRate(s, t, ValueDate).reference = Leg(t, ValueDate)
        BY <2>4 DEF PairKept, Automatic
      <4> DEFINE rate == PairRate(s, t, ValueDate)
      <4> HIDE DEF rate
      <4>2. rate.variant = "automatic" /\ Convert(s, t, rate, conversion.amount) # None
        BY <2>1, <3>1 DEF rate
      <4>3. Convert(s, t, rate, conversion.amount) =
              WithRates(s, t, rate.source.rate, rate.reference.rate, conversion.amount)
        BY <2>2, <4>2 DEF Convert
      <4>4. WithRates(s, t, rate.source.rate, rate.reference.rate, conversion.amount).complete
        BY <4>2, <4>3 DEF WithRates, Complete
      <4>5. Convert(s, t, rate, conversion.amount) # Incomplete
        BY <4>3, <4>4 DEF Incomplete
      <4> QED BY <4>5 DEF rate
    <3> QED BY <2>1, <2>2, <2>5, <3>2, ConvertsByLegs
  <2>7. quote \in [coefficient : Nat, scale : Nat] /\ quote.scale <= places /\ places \in Nat
        /\ quote.coefficient * pow10[places - quote.scale] = LastDigit
        /\ Nearest(LastDigit, Numer * pow10[places], Denom)
        /\ (LastDigit * Denom # Numer * pow10[places]
              => LastDigit >= pow10[SignificantDigits - 1])
    BY <1>1, <2>1, <2>2, <2>3, KeptQuoteIsNearest
  <2>8. /\ dividend.coefficient \in Nat \ {0} /\ dividend.scale \in Nat
        /\ divisor.coefficient \in Nat \ {0} /\ divisor.scale \in Nat
        /\ One.coefficient = 1 /\ One.scale = 0
    BY <2>4, RateFacts DEF MoneyTypes, One
  <2> DEFINE a == automatic.minorUnits
             c == conversion.outcome.minorUnits
             amount == conversion.amount
             mt == pow10[MinorUnitDigits[t]]
             ms == pow10[MinorUnitDigits[s]]
             big == amount * mt
             us == pow10[quote.scale]
             trail == pow10[places - quote.scale]
             coef == quote.coefficient
  <2>9. Nearest(a, Numerator(s, t, divisor, dividend, amount),
                   Denominator(s, t, divisor, dividend))
    BY <2>1, <2>2, <2>6, <2>8, WithRatesIsNearest
  <2>10. Nearest(c, Numerator(s, t, One, quote, amount), Denominator(s, t, One, quote))
    BY <2>1, <2>2, <2>7, <2>8, WithRatesIsNearest
  <2>11. /\ mt \in Nat \ {0} /\ ms \in Nat \ {0} /\ big \in Nat /\ us \in Nat \ {0}
         /\ trail \in Nat \ {0} /\ coef \in Nat
         /\ pow10[SignificantDigits - 1] \in Nat \ {0}
         /\ pow10[places] = us * trail
    <3>1. MinorUnitDigits[s] \in Nat /\ MinorUnitDigits[t] \in Nat
          /\ SignificantDigits - 1 \in Nat
      BY <2>2 DEF MoneyAssumption
    <3>2. quote.scale \in Nat /\ places - quote.scale \in Nat
          /\ quote.scale + (places - quote.scale) = places
      BY <2>7
    <3>3. mt \in Nat \ {0} /\ ms \in Nat \ {0} /\ us \in Nat \ {0} /\ trail \in Nat \ {0}
          /\ pow10[SignificantDigits - 1] \in Nat \ {0}
      BY <3>1, <3>2, PowersArePositive
    <3>4. big \in Nat
      BY <2>2, <3>3, Product
    <3>5. pow10[quote.scale + (places - quote.scale)] = us * trail
      BY <3>2, PowersAdd
    <3> QED BY <2>7, <3>2, <3>3, <3>4, <3>5
  <2>12. Numer \in Nat /\ Denom \in Nat \ {0}
    BY <2>4, DenomIsPositive
  <2> HIDE DEF a, c, mt, ms, us, trail, coef, automatic
  <2>13. Numerator(s, t, divisor, dividend, amount) = big * Numer
         /\ Denominator(s, t, divisor, dividend) = ms * Denom
    <3>1. /\ Numerator(s, t, divisor, dividend, amount)
               = amount * mt * dividend.coefficient * pow10[divisor.scale]
          /\ Denominator(s, t, divisor, dividend)
               = ms * divisor.coefficient * pow10[dividend.scale]
      BY DEF Numerator, Denominator, mt, ms
    <3>2. pow10[divisor.scale] \in Nat /\ pow10[dividend.scale] \in Nat
      BY <2>8, PowersArePositive
    <3> DEFINE x == dividend.coefficient
               y == divisor.coefficient
               v == pow10[divisor.scale]
               z == pow10[dividend.scale]
    <3>3. x \in Nat /\ y \in Nat /\ v \in Nat /\ z \in Nat
      BY <2>8, <3>2
    <3>4. Numer = x * v /\ Denom = y * z
      BY DEF Numer, Denom
    <3> HIDE DEF x, y, v, z, big
    <3>5. big * x * v = big * (x * v) /\ ms * y * z = ms * (y * z)
      BY <2>11, <3>3
    <3> QED BY <3>1, <3>4, <3>5 DEF x, y, v, z, big
  <2>14. Numerator(s, t, One, quote, amount) = big * coef
         /\ Denominator(s, t, One, quote) = ms * us
    <3>1. /\ Numerator(s, t, One, quote, amount) = big * coef * pow10[One.scale]
          /\ Denominator(s, t, One, quote) = ms * One.coefficient * us
      BY DEF Numerator, Denominator, mt, ms, us, coef
    <3>2. pow10[One.scale] = 1
      BY <2>8, PowersArePositive
    <3> HIDE DEF big
    <3>3. big * coef \in Nat /\ (big * coef) * 1 = big * coef /\ ms * 1 = ms
      BY <2>11, Product
    <3> QED BY <2>8, <3>1, <3>2, <3>3
  <2> HIDE DEF big
  <2>15. a \in Nat /\ Near(a * (ms * Denom), big * Numer, ms * Denom)
    BY <2>9, <2>11, <2>12, <2>13, Product, NearestIsNear
  <2>16. c \in Nat /\ Near(c * (ms * us), big * coef, ms * us)
    BY <2>10, <2>11, <2>14, Product, NearestIsNear
  <2>17. Near((coef * trail) * Denom, Numer * (us * trail), Denom)
         /\ ((coef * trail) * Denom # Numer * (us * trail)
               => coef * trail >= pow10[SignificantDigits - 1])
    <3>1. coef * trail = LastDigit /\ Nearest(LastDigit, Numer * (us * trail), Denom)
          /\ (LastDigit * Denom # Numer * (us * trail)
                => LastDigit >= pow10[SignificantDigits - 1])
      BY <2>7, <2>11 DEF coef, trail
    <3>2. Numer * (us * trail) \in Nat
      BY <2>11, <2>12, Product
    <3> QED BY <2>12, <3>1, <3>2, NearestIsNear
  <2>18. a < pow10[SignificantDigits - 1]
    BY <2>1 DEF a
  <2> DEFINE p == pow10[SignificantDigits - 1]
  <2>19. p \in Nat \ {0} /\ a < p
         /\ ((coef * trail) * Denom # Numer * (us * trail) => coef * trail >= p)
    BY <2>11, <2>17, <2>18
  <2> HIDE DEF p
  <2>20. Distance(a, c) <= 1
    BY <2>11, <2>12, <2>15, <2>16, <2>17, <2>19, QuoteOrRatio
  <2> QED BY <2>20 DEF a, c
<1> QED BY <1>1, MoneyInvariant, PTL

================================================================================
