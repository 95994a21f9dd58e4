----------------------------- MODULE NumberFacts -----------------------------
(***************************************************************************)
(* The facts about numbers that the proofs rest on.  First the arithmetic  *)
(* of counters that wrap around, as C's unsigned integers do: sequence     *)
(* numbers, identifications, byte counts.  Then induction, and sums that a *)
(* recursive function adds up.                                             *)
(***************************************************************************)
EXTENDS Integers, WellFoundedInduction, TLAPS

\* A remainder is a number below the modulus: a counter stays within its type.
LEMMA ModRange ==
    ASSUME NEW a \in Int, NEW m \in Nat, m > 0
    PROVE  a % m \in 0..(m - 1)
  BY SMT

\* The quotient and the remainder that \div and % name.
LEMMA ModSplit ==
    ASSUME NEW a \in Int, NEW m \in Nat, m > 0
    PROVE  a \div m \in Int /\ a = m * (a \div m) + (a % m)
  BY SMT

\* Whoever writes a number as a multiple and a small rest has its remainder.
LEMMA ModUnique ==
    ASSUME NEW m \in Nat, m > 0, NEW a \in Int, NEW q \in Int, NEW r \in 0..(m - 1),
           a = m * q + r
    PROVE  a % m = r
  BY SMT

\* A number below the modulus is its own remainder.
LEMMA ModSmall ==
    ASSUME NEW m \in Nat, NEW a \in Nat, a < m
    PROVE  a % m = a
  <1>1. m > 0 /\ a \in Int /\ 0 \in Int /\ a = m * 0 + a /\ a \in 0..(m - 1) OBVIOUS
  <1> QED BY <1>1, ModUnique

\* Adding a multiple of the modulus changes no remainder.
LEMMA ModShift ==
    ASSUME NEW m \in Nat, m > 0, NEW a \in Int, NEW j \in Int
    PROVE  (a + m * j) % m = a % m
  <1> DEFINE q == a \div m
             r == a % m
             s == q + j
             c == a + m * j
  <1>1. r \in 0..(m - 1) /\ q \in Int /\ a = m * q + r BY ModRange, ModSplit
  <1>2. m * s = m * q + m * j /\ s \in Int /\ m * j \in Int BY <1>1
  <1>3. c = m * s + r /\ c \in Int BY <1>1, <1>2
  <1> HIDE DEF r, s, c
  <1>4. c % m = r BY <1>1, <1>2, <1>3, ModUnique
  <1> QED BY <1>4 DEF c, r

\* A number may be reduced before it is added to (snd_nxt + n, seq + 1).
LEMMA ModAdd ==
    ASSUME NEW m \in Nat, m > 0, NEW a \in Int, NEW b \in Int
    PROVE  ((a % m) + b) % m = (a + b) % m
  <1> DEFINE q == a \div m
             c == (a % m) + b
  <1>1. q \in Int /\ a = m * q + (a % m) /\ a % m \in Int BY ModRange, ModSplit
  <1>2. a + b = c + m * q /\ c \in Int BY <1>1
  <1> HIDE DEF q, c
  <1>3. (c + m * q) % m = c % m BY <1>1, <1>2, ModShift
  <1> QED BY <1>2, <1>3 DEF c

\* Reducing by a multiple of the modulus first changes no remainder: the 64-bit
\* count of bytes agrees with the 32-bit sequence number.
LEMMA ModMultiple ==
    ASSUME NEW m \in Nat, m > 0, NEW big \in Nat, big > 0, big % m = 0,
           NEW a \in Int, NEW b \in Int
    PROVE  (a + (b % big)) % m = (a + b) % m
  <1> DEFINE k == big \div m
             q == b \div big
             j == k * q
             c == a + (b % big)
  <1>1. k \in Int /\ big = m * k BY ModSplit
  <1>2. q \in Int /\ b % big \in Int /\ b = big * q + (b % big) BY ModSplit, ModRange
  <1> HIDE DEF k, q
  <1>3. big * q = m * j /\ j \in Int BY <1>1, <1>2
  <1>4. a + b = c + m * j /\ c \in Int
    <2> HIDE DEF j
    <2> QED BY <1>2, <1>3
  <1> HIDE DEF j, c
  <1>5. (c + m * j) % m = c % m BY <1>3, <1>4, ModShift
  <1> QED BY <1>4, <1>5 DEF c
-----------------------------------------------------------------------------
\* A shift to the left makes room for a digit, and one to the right drops it again.
LEMMA DigitLast ==
    ASSUME NEW m \in Nat, m > 0, NEW q \in Nat, NEW r \in 0..(m - 1), NEW a, a = q * m + r
    PROVE  a \in Nat /\ a \div m = q /\ a % m = r
  <1>1. q * m \in Nat /\ q * m = m * q BY SMT
  <1>2. a \in Nat /\ a = m * q + r BY <1>1
  <1>3. a % m = r BY <1>2, ModUnique
  <1> DEFINE d == a \div m
  <1>4. d \in Int /\ a = m * d + r BY <1>2, <1>3, ModSplit
  <1> HIDE DEF d
  <1>5. m * d = m * q BY <1>1, <1>2, <1>4
  <1>6. d = q BY <1>4, <1>5
  <1> QED BY <1>2, <1>3, <1>6 DEF d

\* A number of n + 1 digits is one of n digits and the last.
LEMMA DigitSplit ==
    ASSUME NEW m \in Nat, m > 0, NEW n \in Nat, NEW a \in Nat, a < n * m
    PROVE  \E q \in Nat, r \in 0..(m - 1) : q < n /\ a = q * m + r
  <1>1. PICK r \in 0..(m - 1) : r = a % m BY ModRange
  <1>2. PICK q \in Int : q = a \div m /\ a = m * q + r BY <1>1, ModSplit
  <1>3. q >= 0
    <2> SUFFICES ASSUME q <= -1 PROVE FALSE BY <1>2
    <2>1. m * q <= m * (-1) BY <1>2
    <2>2. m * q <= -m /\ m * q \in Int BY <2>1
    <2> QED BY <1>1, <1>2, <2>2
  <1>4. q < n
    <2> SUFFICES ASSUME q >= n PROVE FALSE BY <1>2
    <2>1. m * q >= m * n /\ m * n = n * m /\ m * n \in Int /\ m * q \in Int BY <1>2
    <2> QED BY <1>1, <1>2, <2>1
  <1>5. q \in Nat /\ q < n /\ a = q * m + r
    <2>1. m * q = q * m BY <1>2
    <2> QED BY <1>2, <1>3, <1>4, <2>1
  <1> QED BY <1>1, <1>5

\* Two shifts to the right are one that is as far as both.
LEMMA DivTwice ==
    ASSUME NEW m \in Nat, m > 0, NEW k \in Nat, k > 0, NEW a \in Nat
    PROVE  a \div (k * m) = (a \div m) \div k
  <1>1. PICK q \in Int, r \in 0..(m - 1) : q = a \div m /\ r = a % m /\ a = m * q + r
    BY ModRange, ModSplit
  <1>2. PICK p \in Int, s \in 0..(k - 1) : p = q \div k /\ s = q % k /\ q = k * p + s
    BY ModRange, ModSplit
  <1> DEFINE rest == s * m + r
             km == k * m
  <1>3. km \in Nat /\ km > 0 BY SMT
  <1>4. rest \in 0..(km - 1)
    <2>1. s * m \in Nat /\ s * m <= (k - 1) * m BY <1>2
    <2>2. (k - 1) * m = km - m BY SMT
    <2> HIDE DEF km
    <2> DEFINE sm == s * m
    <2>3. sm \in Nat /\ sm <= km - m BY <2>1, <2>2
    <2> HIDE DEF sm
    <2>4. sm + r \in 0..(km - 1) BY <1>1, <1>3, <2>3
    <2> QED BY <2>4 DEF sm
  <1>5. a = km * p + rest
    <2>1. a = m * (k * p + s) + r BY <1>1, <1>2
    <2>2. m * (k * p + s) = m * (k * p) + m * s BY <1>2
    <2>3. m * (k * p) = km * p /\ m * s = s * m BY <1>2
    <2> QED BY <1>2, <2>1, <2>2, <2>3
  <1>6. a % km = rest
    <2> HIDE DEF km, rest
    <2> QED BY <1>3, <1>4, <1>5, ModUnique
  <1> DEFINE d == a \div km
  <1>7. d \in Int /\ a = km * d + rest
    <2> HIDE DEF km, rest
    <2> QED BY <1>3, <1>6, ModSplit
  <1> HIDE DEF d, km, rest
  <1>8. km * d = km * p BY <1>3, <1>4, <1>5, <1>7
  <1>9. d = p BY <1>3, <1>7, <1>8
  <1> QED BY <1>1, <1>2, <1>9 DEF d, km

\* The number v has four digits to the base m, the first of them a.
IsWord(m, a, b, c, d, v) == v = ((a * m + b) * m + c) * m + d

\* They are what division by the powers of m and the rest leave of it.
HasDigits(m, a, b, c, d, v) ==
    /\ v % m = d /\ (v \div m) % m = c
    /\ (v \div (m * m)) % m = b /\ (v \div ((m * m) * m)) % m = a

\* The four digits of a number, as shifts and masks find them.
LEMMA FourDigits ==
    ASSUME NEW m \in Nat, m > 0,
           NEW a \in 0..(m - 1), NEW b \in 0..(m - 1), NEW c \in 0..(m - 1),
           NEW d \in 0..(m - 1), NEW v, IsWord(m, a, b, c, d, v)
    PROVE  v \in Nat /\ HasDigits(m, a, b, c, d, v)
  <1>1. PICK x : x = a * m + b OBVIOUS
  <1>2. PICK y : y = x * m + c OBVIOUS
  <1>3. x \in Nat /\ x \div m = a /\ x % m = b
    <2>1. a \in Nat OBVIOUS
    <2> QED BY <1>1, <2>1, DigitLast
  <1>4. y \in Nat /\ y \div m = x /\ y % m = c BY <1>2, <1>3, DigitLast
  <1>5. v = y * m + d BY <1>1, <1>2 DEF IsWord
  <1>6. v \in Nat /\ v \div m = y /\ v % m = d BY <1>4, <1>5, DigitLast
  <1>7. m * m \in Nat /\ m * m > 0 BY SMT
  <1>8. v \div (m * m) = x BY <1>4, <1>6, DivTwice
  <1>9. v \div ((m * m) * m) = y \div (m * m) BY <1>6, <1>7, DivTwice
  <1>10. y \div (m * m) = a BY <1>3, <1>4, DivTwice
  <1>11. a % m = a BY ModSmall
  <1> QED BY <1>3, <1>4, <1>6, <1>8, <1>9, <1>10, <1>11 DEF HasDigits

\* A number below the fourth power has four digits, and four digits are below it.
LEMMA FourDigitsOf ==
    ASSUME NEW m \in Nat, m > 0
    PROVE  /\ ((m * m) * m) * m \in Nat
           /\ \A v \in 0..(((m * m) * m) * m - 1) :
                \E a, b, c, d \in 0..(m - 1) : IsWord(m, a, b, c, d, v)
           /\ \A a, b, c, d \in 0..(m - 1) : ((a * m + b) * m + c) * m + d < ((m * m) * m) * m
  <1>1. PICK m2 \in Nat : m2 = m * m BY SMT
  <1>2. PICK m3 \in Nat : m3 = m2 * m BY SMT
  <1>3. PICK m4 \in Nat : m4 = m3 * m BY SMT
  <1>4. m4 = ((m * m) * m) * m BY <1>1, <1>2, <1>3
  <1>5. ASSUME NEW v \in 0..(m4 - 1)
        PROVE  \E a, b, c, d \in 0..(m - 1) : IsWord(m, a, b, c, d, v)
    <2>1. PICK y \in Nat, d \in 0..(m - 1) : y < m3 /\ v = y * m + d
      <3>1. v \in Nat /\ v < m3 * m BY <1>3, <1>5
      <3> QED BY <3>1, DigitSplit
    <2>2. PICK x \in Nat, c \in 0..(m - 1) : x < m2 /\ y = x * m + c
      <3>1. y < m2 * m BY <1>2, <2>1
      <3> QED BY <3>1, DigitSplit
    <2>3. PICK a \in Nat, b \in 0..(m - 1) : a < m /\ x = a * m + b
      <3>1. x < m * m BY <1>1, <2>2
      <3> QED BY <3>1, DigitSplit
    <2>4. a \in 0..(m - 1) BY <2>3
    <2>5. IsWord(m, a, b, c, d, v) BY <2>1, <2>2, <2>3 DEF IsWord
    <2> QED BY <2>4, <2>5
  <1>6. ASSUME NEW n \in Nat, NEW q \in Nat, q < n, NEW r \in 0..(m - 1)
        PROVE  q * m + r \in Nat /\ q * m + r < n * m
    <2>1. q * m \in Nat /\ n * m \in Nat /\ (q + 1) * m = q * m + m BY SMT
    <2>2. (q + 1) * m <= n * m BY <1>6
    <2> DEFINE x == q * m
               z == n * m
    <2>3. x \in Nat /\ z \in Nat /\ x + m <= z BY <2>1, <2>2
    <2> HIDE DEF x, z
    <2>4. x + r \in Nat /\ x + r < z BY <2>3
    <2> QED BY <2>4 DEF x, z
  <1>7. ASSUME NEW a \in 0..(m - 1), NEW b \in 0..(m - 1), NEW c \in 0..(m - 1),
               NEW d \in 0..(m - 1)
        PROVE  ((a * m + b) * m + c) * m + d < m4
    <2>1. PICK x : x = a * m + b OBVIOUS
    <2>2. x \in Nat /\ x < m2 BY <1>1, <1>6, <2>1
    <2>3. PICK y : y = x * m + c OBVIOUS
    <2>4. y \in Nat /\ y < m3 BY <1>2, <1>6, <2>2, <2>3
    <2>5. y * m + d < m4 BY <1>3, <1>6, <2>4
    <2> QED BY <2>1, <2>3, <2>5
  <1> QED BY <1>4, <1>5, <1>7
-----------------------------------------------------------------------------
\* Induction over the natural numbers, for the set of those that have the property.
LEMMA Induction ==
    ASSUME NEW S \in SUBSET Nat, 0 \in S, \A n \in S : n + 1 \in S
    PROVE  S = Nat
  <1> DEFINE R == {ss \in Nat \X Nat : ss[1] < ss[2]}
  <1>1. IsWellFoundedOn(R, Nat) BY NatLessThanWellFounded, Zenon DEF OpToRel
  <1> SUFFICES ASSUME S # Nat PROVE FALSE OBVIOUS
  <1>2. (Nat \ S) \subseteq Nat /\ Nat \ S # {} OBVIOUS
  <1>3. \E m \in Nat \ S : \A k \in Nat \ S : <<k, m>> \notin R
    <2> HIDE DEF R
    <2> QED BY <1>1, <1>2, WFMin
  <1>4. PICK m \in Nat \ S : \A k \in Nat \ S : ~(k < m) BY <1>3
  <1>5. m - 1 \in Nat \ S /\ m - 1 < m
    <2>1. m # 0 OBVIOUS
    <2>2. m - 1 \in Nat /\ m - 1 < m /\ (m - 1) + 1 = m BY <2>1
    <2> QED BY <2>2
  <1> QED BY <1>4, <1>5

\* A set of numbers up to a bound has a greatest one.
LEMMA Greatest ==
    ASSUME NEW N \in Nat, NEW X \in SUBSET (1..N), X # {}
    PROVE  \E k \in X : \A j \in X : j <= k
  <1> DEFINE HasOne(S) == S # {} => \E k \in S : \A j \in S : j <= k
             T == {n \in Nat : \A S \in SUBSET (1..n) : HasOne(S)}
  <1>1. 0 \in T
    <2>1. ASSUME NEW S \in SUBSET (1..0) PROVE HasOne(S)
      <3>1. S = {} OBVIOUS
      <3> QED BY <3>1
    <2> HIDE DEF HasOne
    <2> QED BY <2>1
  <1>2. ASSUME NEW n \in T PROVE n + 1 \in T
    <2> SUFFICES ASSUME NEW S \in SUBSET (1..(n + 1)) PROVE HasOne(S) OBVIOUS
    <2>1. CASE n + 1 \in S BY <2>1
    <2>2. CASE n + 1 \notin S
      <3>1. S \in SUBSET (1..n) BY <2>2
      <3> HIDE DEF HasOne
      <3> QED BY <3>1
    <2> QED BY <2>1, <2>2
  <1> HIDE DEF T
  <1>3. T \in SUBSET Nat BY DEF T
  <1>4. T = Nat BY <1>1, <1>2, <1>3, Induction
  <1>5. \A n \in Nat : \A S \in SUBSET (1..n) : HasOne(S)
    <2> HIDE DEF HasOne
    <2> QED BY <1>4 DEF T
  <1> QED BY <1>5

\* There is a function that adds up the values of w one after the other: a recursive
\* definition of that form defines one.
LEMMA SumsExist ==
    ASSUME NEW w
    PROVE  \E f : f = [j \in Nat |-> IF j = 0 THEN 0 ELSE f[j - 1] + w[j - 1]]
  <1> DEFINE P(n, g) == g = [j \in 0..n |-> IF j = 0 THEN 0 ELSE g[j - 1] + w[j - 1]]
             S == {n \in Nat : \E g : P(n, g)}
             Agree(j) == \A m, n \in Nat : \A g, h :
                           P(m, g) /\ P(n, h) /\ j <= m /\ j <= n => g[j] = h[j]
             T == {j \in Nat : Agree(j)}
             F == [n \in Nat |-> CHOOSE g : P(n, g)]
             f == [n \in Nat |-> F[n][n]]
  <1>1. S = Nat
    <2>1. 0 \in S
      <3>1. P(0, [j \in 0..0 |-> 0]) OBVIOUS
      <3> QED BY <3>1, Zenon
    <2>2. ASSUME NEW n \in S PROVE n + 1 \in S
      <3>1. PICK g : P(n, g) BY <2>2
      <3> DEFINE h == [j \in 0..(n + 1) |-> IF j <= n THEN g[j] ELSE g[n] + w[n]]
      <3>2. ASSUME NEW j \in 0..(n + 1)
            PROVE  h[j] = IF j = 0 THEN 0 ELSE h[j - 1] + w[j - 1]
        <4>1. CASE j <= n BY <3>1, <4>1
        <4>2. CASE j = n + 1 BY <4>2
        <4> QED BY <4>1, <4>2
      <3>3. P(n + 1, h) BY <3>2
      <3> HIDE DEF P, h
      <3> QED BY <3>3
    <2> HIDE DEF S
    <2>3. S \in SUBSET Nat BY DEF S
    <2> QED BY <2>1, <2>2, <2>3, Induction
  <1>2. \A n \in Nat : P(n, F[n])
    <2> HIDE DEF P
    <2> QED BY <1>1
  <1>3. T = Nat
    <2>1. 0 \in T OBVIOUS
    <2>2. ASSUME NEW j \in T PROVE j + 1 \in T
      <3> SUFFICES ASSUME NEW m \in Nat, NEW n \in Nat, NEW g, NEW h,
                          P(m, g), P(n, h), j + 1 <= m, j + 1 <= n
                   PROVE  g[j + 1] = h[j + 1]
        OBVIOUS
      <3>1. g[j] = h[j]
        <4> HIDE DEF P
        <4> QED BY <2>2
      <3>2. g[j + 1] = g[j] + w[j] /\ h[j + 1] = h[j] + w[j] OBVIOUS
      <3> QED BY <3>1, <3>2
    <2> HIDE DEF T
    <2>3. T \in SUBSET Nat BY DEF T
    <2> QED BY <2>1, <2>2, <2>3, Induction
  <1>4. ASSUME NEW j \in Nat, j # 0 PROVE f[j] = f[j - 1] + w[j - 1]
    <2>1. j - 1 \in Nat BY <1>4
    <2>2. P(j, F[j]) /\ P(j - 1, F[j - 1])
      <3> HIDE DEF P, F
      <3> QED BY <1>2, <2>1
    <2>3. F[j][j] = F[j][j - 1] + w[j - 1]
      <3> HIDE DEF F
      <3> QED BY <2>2, <1>4
    <2>4. F[j][j - 1] = F[j - 1][j - 1]
      <3>1. Agree(j - 1)
        <4> HIDE DEF Agree
        <4> QED BY <1>3, <2>1
      <3> HIDE DEF F, P
      <3> QED BY <2>1, <2>2, <3>1, <1>4
    <2> QED BY <2>3, <2>4, <1>4
  <1>5. f[0] = 0
    <2>1. P(0, F[0]) BY <1>2
    <2> HIDE DEF F
    <2> QED BY <2>1
  <1>6. f = [j \in Nat |-> IF j = 0 THEN 0 ELSE f[j - 1] + w[j - 1]]
    <2>1. f = [j \in Nat |-> f[j]] OBVIOUS
    <2> HIDE DEF f
    <2>2. \A j \in Nat : f[j] = IF j = 0 THEN 0 ELSE f[j - 1] + w[j - 1] BY <1>4, <1>5
    <2> QED BY <2>1, <2>2
  <1> QED BY <1>6, Zenon
==============================================================================
