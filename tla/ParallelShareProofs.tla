------------------------ MODULE ParallelShareProofs -------------------------
(***************************************************************************)
(* What the float arithmetic of ParallelShare computes, for all documented *)
(* percentages and any number of problems up to the bounds of the lemmas,  *)
(* which lie far above the 127 that TLC's integers allow.                  *)
(***************************************************************************)
EXTENDS ParallelShare, TLAPS

-----------------------------------------------------------------------------
(***************************************************************************)
(* Powers of two, as a function: the provers know the powers of literals,  *)
(* and reason about an application of a function.                          *)
(***************************************************************************)

Power == [i \in 0 .. 31 |-> 2^i]

LEMMA PowerValues ==
  /\ Power[0] = 1 /\ Power[1] = 2 /\ Power[2] = 4
  /\ Power[3] = 8 /\ Power[4] = 16 /\ Power[5] = 32
  /\ Power[6] = 64 /\ Power[7] = 128 /\ Power[8] = 256
  /\ Power[9] = 512 /\ Power[10] = 1024 /\ Power[11] = 2048
  /\ Power[12] = 4096 /\ Power[13] = 8192 /\ Power[14] = 16384
  /\ Power[15] = 32768 /\ Power[16] = 65536 /\ Power[17] = 131072
  /\ Power[18] = 262144 /\ Power[19] = 524288 /\ Power[20] = 1048576
  /\ Power[21] = 2097152 /\ Power[22] = 4194304 /\ Power[23] = 8388608
  /\ Power[24] = 16777216 /\ Power[25] = 33554432 /\ Power[26] = 67108864
  /\ Power[27] = 134217728 /\ Power[28] = 268435456 /\ Power[29] = 536870912
  /\ Power[30] = 1073741824 /\ Power[31] = 2147483648
BY DEF Power

LEMMA PowerIs == \A i \in 0 .. 31 : 2^i = Power[i]
BY Zenon DEF Power

LEMMA PowersAreNumbers == \A i \in 0 .. 31 : Power[i] \in Nat \ {0}
BY PowerValues

LEMMA PowersAscend == \A i \in 0 .. 31, j \in 0 .. 31 : i < j => Power[i] < Power[j]
BY PowerValues

LEMMA PowersMultiply ==
  ASSUME NEW i \in 0 .. 31, NEW k \in 0 .. i
  PROVE  Power[k] * Power[i - k] = Power[i]
BY PowerValues

-----------------------------------------------------------------------------
(***************************************************************************)
(* Rounding.                                                               *)
(***************************************************************************)

\* Quotient and remainder.
LEMMA Division ==
  ASSUME NEW a \in Nat, NEW b \in Nat \ {0}
  PROVE  /\ a \div b \in Nat /\ a % b \in 0 .. b - 1
         /\ a = b * (a \div b) + (a % b)
<1>1. a \div b \in Nat /\ a % b \in 0 .. b - 1
  OBVIOUS
<1>2. a = b * (a \div b) + (a % b)
  BY Z3
<1>. QED
  BY <1>1, <1>2

\* Products compare as their factors do.
LEMMA ProductsCompare ==
  ASSUME NEW b \in Nat \ {0}, NEW c \in Int, NEW d \in Int
  PROVE  /\ b * c <= b * d <=> c <= d
         /\ b * c < b * d <=> c < d
         /\ b * (c + 1) = b * c + b /\ b * c \in Int
OBVIOUS

\* A quotient between integers, from the products.
LEMMA QuotientBetween ==
  ASSUME NEW a \in Nat, NEW b \in Nat \ {0}, NEW c \in Int
  PROVE  /\ b * c <= a => c <= a \div b
         /\ a < b * c => a \div b < c
         /\ a <= b * c => a \div b <= c
<1> DEFINE q == a \div b
<1>1. q \in Nat /\ a % b \in 0 .. b - 1 /\ a = b * q + (a % b)
  BY Division
<1> HIDE DEF q
<1>2. b * q <= a /\ a < b * (q + 1)
  BY <1>1, ProductsCompare
<1>3. b * c <= a => b * c < b * (q + 1)
  BY <1>1, <1>2
<1>4. a < b * c => b * q < b * c
  BY <1>1, <1>2
<1>5. a <= b * c => b * q <= b * c
  BY <1>1, <1>2
<1>6. /\ b * c < b * (q + 1) => c < q + 1
      /\ b * q < b * c => q < c
      /\ b * q <= b * c => q <= c
  BY <1>1, ProductsCompare
<1>. QED
  BY <1>1, <1>3, <1>4, <1>5, <1>6 DEF q

\* Rounding takes the quotient, or the next integer for a remainder of at
\* least a half.
LEMMA RoundingChoice ==
  ASSUME NEW a \in Nat, NEW b \in Nat \ {0}
  PROVE  \/ RoundToEven(a, b) = a \div b /\ 2 * (a % b) <= b
         \/ RoundToEven(a, b) = a \div b + 1 /\ 2 * (a % b) >= b
BY Division DEF RoundToEven

\* Rounding is off by a half at most.
LEMMA RoundingError ==
  ASSUME NEW a \in Nat, NEW b \in Nat \ {0}
  PROVE  /\ RoundToEven(a, b) \in Nat
         /\ 2 * (b * RoundToEven(a, b)) <= 2 * a + b
         /\ 2 * a <= 2 * (b * RoundToEven(a, b)) + b
<1> DEFINE q == a \div b
           r == a % b
           x == RoundToEven(a, b)
<1>1. q \in Nat /\ r \in 0 .. b - 1 /\ a = b * q + r
  BY Division
<1>2. (x = q /\ 2 * r <= b) \/ (x = q + 1 /\ 2 * r >= b)
  BY RoundingChoice
<1> HIDE DEF q, r, x
<1>3. b * (q + 1) = b * q + b /\ b * q \in Int
  BY <1>1, ProductsCompare
<1>4. /\ x \in Nat
      /\ 2 * (b * x) <= 2 * a + b
      /\ 2 * a <= 2 * (b * x) + b
  BY <1>1, <1>2, <1>3
<1>. QED
  BY <1>4 DEF x

\* Rounding does not pass an integer.
LEMMA RoundingIsMonotone ==
  ASSUME NEW a \in Nat, NEW b \in Nat \ {0}, NEW c \in Nat
  PROVE  /\ a <= b * c => RoundToEven(a, b) <= c
         /\ a >= b * c => RoundToEven(a, b) >= c
<1> DEFINE q == a \div b
           r == a % b
           x == RoundToEven(a, b)
<1>1. q \in Nat /\ r \in 0 .. b - 1 /\ a = b * q + r
  BY Division
<1>2. (x = q /\ 2 * r <= b) \/ (x = q + 1 /\ 2 * r >= b)
  BY RoundingChoice
<1>3. (b * c <= a => c <= q) /\ (a <= b * c => q <= c)
  BY QuotientBetween
<1> HIDE DEF q, r, x
<1>4. ASSUME a <= b * c PROVE x <= c
  <2>1. CASE q = c
    <3>1. r = 0
      BY <1>1, <1>4, <2>1
    <3>. QED
      BY <1>1, <1>2, <2>1, <3>1
  <2>2. CASE q < c
    BY <1>1, <1>2, <2>2
  <2>. QED
    BY <1>1, <1>3, <1>4, <2>1, <2>2
<1>5. ASSUME a >= b * c PROVE x >= c
  BY <1>1, <1>2, <1>3, <1>5
<1>. QED
  BY <1>4, <1>5 DEF x

\* A quotient of 24 bits.
LEMMA QuotientInMantissas ==
  ASSUME NEW a \in Nat, NEW b \in Nat \ {0}
  PROVE  a \div b \in Mantissas <=> b * Power[23] <= a /\ a < b * Power[24]
<1>1. Mantissas = Power[23] .. Power[24] - 1
  BY DEF Power, Mantissas
<1>2. Power[23] \in Nat /\ Power[24] \in Nat
  BY PowersAreNumbers
<1> DEFINE q == a \div b
<1>3. q \in Nat
  BY Division
<1>4. /\ b * Power[23] <= a => Power[23] <= q
      /\ a < b * Power[23] => q < Power[23]
      /\ a < b * Power[24] => q < Power[24]
      /\ b * Power[24] <= a => Power[24] <= q
  BY <1>2, QuotientBetween
<1>5. b * Power[23] \in Nat /\ b * Power[24] \in Nat
  BY <1>2
<1> HIDE DEF q
<1>6. q \in Power[23] .. Power[24] - 1 <=> b * Power[23] <= a /\ a < b * Power[24]
  BY <1>2, <1>3, <1>4, <1>5
<1>. QED
  BY <1>1, <1>6 DEF q

-----------------------------------------------------------------------------
(***************************************************************************)
(* The float of a percentage.                                              *)
(***************************************************************************)

\* The power of two that scales p / 100 to a mantissa of 24 bits.
LEMMA ScaleExists ==
  ASSUME NEW p \in 1 .. 100
  PROVE  \E i \in 23 .. 30 : (p * 2^i) \div 100 \in Mantissas
<1>1. \E i \in 23 .. 30 :
        100 * Power[23] <= p * Power[i] /\ p * Power[i] < 100 * Power[24]
  <2>1. CASE p = 100
    BY <2>1, PowerValues
  <2>2. CASE p \in 50 .. 99
    BY <2>2, PowerValues
  <2>3. CASE p \in 25 .. 49
    BY <2>3, PowerValues
  <2>4. CASE p \in 13 .. 24
    BY <2>4, PowerValues
  <2>5. CASE p \in 7 .. 12
    BY <2>5, PowerValues
  <2>6. CASE p \in 4 .. 6
    BY <2>6, PowerValues
  <2>7. CASE p \in 2 .. 3
    BY <2>7, PowerValues
  <2>8. CASE p = 1
    BY <2>8, PowerValues
  <2>. QED
    BY <2>1, <2>2, <2>3, <2>4, <2>5, <2>6, <2>7, <2>8
<1>2. ASSUME NEW i \in 23 .. 30, 100 * Power[23] <= p * Power[i],
             p * Power[i] < 100 * Power[24]
      PROVE  (p * 2^i) \div 100 \in Mantissas
  <2>1. i \in 0 .. 31 /\ Power[i] \in Nat
    BY PowersAreNumbers
  <2>2. p * Power[i] \in Nat
    BY <2>1
  <2>3. (p * Power[i]) \div 100 \in Mantissas
    BY <1>2, <2>1, <2>2, QuotientInMantissas
  <2>4. 2^i = Power[i]
    BY <2>1, PowerIs, Zenon
  <2>. QED
    BY <2>3, <2>4, Zenon
<1>. QED
  BY <1>1, <1>2

Scale(p)    == Proportion(p).scale
Mantissa(p) == Proportion(p).mantissa

\* The mantissa of p / 100 has 24 bits, or is the power of two above, and is
\* off by a half at most.
LEMMA ProportionFacts ==
  ASSUME NEW p \in 1 .. 100
  PROVE  /\ Scale(p) \in 23 .. 31 /\ Mantissa(p) \in Nat
         /\ Power[23] <= Mantissa(p) /\ Mantissa(p) <= Power[Scale(p)]
         /\ 200 * Mantissa(p) <= 2 * (p * Power[Scale(p)]) + 100
         /\ 2 * (p * Power[Scale(p)]) <= 200 * Mantissa(p) + 100
         /\ p = 100 => Mantissa(p) = Power[Scale(p)]
<1> DEFINE s == Scale(p)
           m == Mantissa(p)
<1>1. s \in 0 .. 31 /\ (p * 2^s) \div 100 \in Mantissas /\ m = RoundToEven(p * 2^s, 100)
  <2> DEFINE c == CHOOSE i \in 0 .. 31 : (p * 2^i) \div 100 \in Mantissas
  <2>1. \A i \in 23 .. 30 : i \in 0 .. 31
    OBVIOUS
  <2>2. \E i \in 0 .. 31 : (p * 2^i) \div 100 \in Mantissas
    BY <2>1, ScaleExists, Zenon
  <2>3. c \in 0 .. 31 /\ (p * 2^c) \div 100 \in Mantissas
    BY <2>2, Zenon
  <2> DEFINE x == RoundToEven(p * 2^c, 100)
  <2>4. Proportion(p) = [mantissa |-> x, scale |-> c]
    BY Zenon DEF Proportion
  <2> HIDE DEF c, x
  <2>5. s = c /\ m = x
    BY <2>4 DEF Scale, Mantissa
  <2>. QED
    BY <2>3, <2>5, Zenon DEF x
<1> HIDE DEF s, m
<1>2. 2^s = Power[s]
  BY <1>1, PowerIs, Zenon
<1> DEFINE a == p * Power[s]
<1>3. a \in Nat /\ a <= 100 * Power[s] /\ Power[s] \in Nat \ {0}
      /\ Power[23] \in Nat /\ Power[24] \in Nat
  BY <1>1, PowersAreNumbers
<1>4. m = RoundToEven(a, 100) /\ 100 * Power[23] <= a /\ a < 100 * Power[24]
  <2>1. m = RoundToEven(a, 100) /\ a \div 100 \in Mantissas
    BY <1>1, <1>2, Zenon
  <2> HIDE DEF a
  <2>2. 100 \in Nat \ {0}
    OBVIOUS
  <2>3. a \div 100 \in Mantissas <=> 100 * Power[23] <= a /\ a < 100 * Power[24]
    BY <1>3, <2>2, QuotientInMantissas
  <2>. QED
    BY <2>1, <2>3
<1>5. p = 100 => a = 100 * Power[s]
  OBVIOUS
<1> HIDE DEF a
<1>6. Power[23] <= m /\ m <= Power[s] /\ m \in Nat
  <2>1. m \in Nat
    BY <1>3, <1>4, RoundingError
  <2>2. m <= Power[s]
    BY <1>3, <1>4, RoundingIsMonotone
  <2>3. m >= Power[23]
    BY <1>3, <1>4, RoundingIsMonotone
  <2>. QED
    BY <1>3, <2>1, <2>2, <2>3
<1>7. 2 * (100 * m) <= 2 * a + 100 /\ 2 * a <= 2 * (100 * m) + 100
  BY <1>3, <1>4, RoundingError
<1>8. s \in 23 .. 31
  <2>1. Power[23] <= Power[s]
    BY <1>3, <1>4
  <2>2. ASSUME s < 23 PROVE FALSE
    BY <1>1, <1>3, <2>1, <2>2, PowersAscend
  <2>. QED
    BY <1>1, <2>2
<1>9. ASSUME p = 100 PROVE m = Power[s]
  BY <1>3, <1>4, <1>5, <1>6, <1>9, RoundingIsMonotone
<1>. QED
  BY <1>6, <1>7, <1>8, <1>9 DEF a, s, m

-----------------------------------------------------------------------------
(***************************************************************************)
(* The product with a number of problems.                                  *)
(***************************************************************************)

\* Every number has a place among the mantissas' multiples.
LEMMA MultiplesCover ==
  ASSUME NEW s \in 23 .. 31, NEW e \in Nat,
         Power[23] <= e, e < Power[s] * Power[24]
  PROVE  \E k \in 0 .. s : Power[k] * Power[23] <= e /\ e < Power[k] * Power[24]
BY PowerValues, SMTT(60)

\* The power of two that scales a product to a mantissa of 24 bits.
LEMMA ProductScaleExists ==
  ASSUME NEW s \in 23 .. 31, NEW m \in Nat, NEW n \in Nat \ {0},
         Power[23] <= m, m <= Power[s], n < Power[24]
  PROVE  \E k \in 0 .. s : (n * m) \div 2^k \in Mantissas
<1> DEFINE e == n * m
<1>1. Power[s] \in Nat \ {0} /\ Power[23] \in Nat /\ Power[24] \in Nat
  BY PowersAreNumbers
<1>2. e \in Nat /\ m <= e
  OBVIOUS
<1>3. e <= n * Power[s]
  BY <1>1
<1>4. n * Power[s] = Power[s] * n /\ Power[s] * n < Power[s] * Power[24]
        /\ Power[s] * n \in Nat /\ Power[s] * Power[24] \in Nat
  BY <1>1
<1> HIDE DEF e
<1>5. Power[23] <= e /\ e < Power[s] * Power[24]
  BY <1>1, <1>2, <1>3, <1>4
<1>6. PICK k \in 0 .. s : Power[k] * Power[23] <= e /\ e < Power[k] * Power[24]
  BY <1>2, <1>5, MultiplesCover
<1>7. k \in 0 .. 31 /\ Power[k] \in Nat \ {0}
  BY PowersAreNumbers
<1>8. e \div Power[k] \in Mantissas
  BY <1>2, <1>6, <1>7, QuotientInMantissas
<1>9. 2^k = Power[k]
  BY <1>7, PowerIs, Zenon
<1>. QED
  BY <1>8, <1>9, Zenon DEF e

LEMMA ProductFacts ==
  ASSUME NEW p \in 1 .. 100, NEW n \in Nat \ {0}, n < Power[24]
  PROVE  \E k \in 0 .. Scale(p) :
           /\ Power[k] * Power[23] <= n * Mantissa(p)
           /\ ParallelCount(p, n)
                = RoundToEven(n * Mantissa(p), Power[k]) \div Power[Scale(p) - k]
<1> DEFINE s == Scale(p)
           m == Mantissa(p)
<1>1. s \in 23 .. 31 /\ m \in Nat /\ Power[23] <= m /\ m <= Power[s]
  BY ProportionFacts
<1> DEFINE k == CHOOSE i \in 0 .. s : (n * m) \div 2^i \in Mantissas
           e == n * m
<1>2. \E i \in 0 .. s : (n * m) \div 2^i \in Mantissas
  <2> HIDE DEF s, m, k, e
  <2>. QED
    BY <1>1, ProductScaleExists
<1>3. k \in 0 .. s /\ e \div 2^k \in Mantissas
  BY <1>2, Zenon
<1>4. ParallelCount(p, n) = RoundToEven(e, 2^k) \div 2^(s - k)
  <2>1. p # 0 /\ n # 0
    OBVIOUS
  <2>2. TruncatedProduct(n, Proportion(p)) = RoundToEven(e, 2^k) \div 2^(s - k)
    BY Zenon DEF TruncatedProduct, Scale, Mantissa
  <2>. QED
    BY <2>1, <2>2, Zenon DEF ParallelCount
<1> HIDE DEF k, s, m
<1>5. e \in Nat
  BY <1>1
<1> HIDE DEF e
<1>6. k \in 0 .. 31 /\ s - k \in 0 .. 31
  BY <1>1, <1>3
<1>7. 2^k = Power[k] /\ 2^(s - k) = Power[s - k]
  BY <1>6, PowerIs, Zenon
<1>8. e \div Power[k] \in Mantissas
  BY <1>3, <1>7, Zenon
<1>9. Power[k] \in Nat \ {0}
  BY <1>6, PowersAreNumbers
<1>10. Power[k] * Power[23] <= e
  BY <1>5, <1>8, <1>9, QuotientInMantissas
<1>11. ParallelCount(p, n) = RoundToEven(e, Power[k]) \div Power[s - k]
  BY <1>4, <1>7, Zenon
<1>. QED
  BY <1>3, <1>10, <1>11, Zenon DEF e, s, m

\* The computation without its choices: the mantissa m and the powers of two
\* q of the float, b of the product, and d of what is left to divide by.
LEMMA ShareSteps ==
  ASSUME NEW p \in 1 .. 100, NEW n \in Nat \ {0}, n < Power[24]
  PROVE  \E m \in Nat, q \in Nat \ {0}, b \in Nat \ {0}, d \in Nat \ {0} :
           /\ b * d = q /\ Power[23] <= q
           /\ m <= q /\ 200 * m <= 2 * (p * q) + 100 /\ 2 * (p * q) <= 200 * m + 100
           /\ p = 100 => m = q
           /\ b * Power[23] <= n * m
           /\ ParallelCount(p, n) = RoundToEven(n * m, b) \div d
<1> DEFINE s == Scale(p)
           m == Mantissa(p)
<1>1. /\ s \in 23 .. 31 /\ m \in Nat /\ m <= Power[s]
      /\ 200 * m <= 2 * (p * Power[s]) + 100
      /\ 2 * (p * Power[s]) <= 200 * m + 100
      /\ p = 100 => m = Power[s]
  BY ProportionFacts
<1>2. PICK k \in 0 .. s :
        /\ Power[k] * Power[23] <= n * m
        /\ ParallelCount(p, n) = RoundToEven(n * m, Power[k]) \div Power[s - k]
  BY ProductFacts, Zenon
<1> HIDE DEF s, m
<1>3. k \in 0 .. 31 /\ s - k \in 0 .. 31 /\ s \in 0 .. 31
  BY <1>1
<1>4. /\ Power[k] \in Nat \ {0} /\ Power[s - k] \in Nat \ {0}
      /\ Power[s] \in Nat \ {0} /\ Power[23] \in Nat
  BY <1>3, PowersAreNumbers
<1>5. Power[k] * Power[s - k] = Power[s]
  BY <1>3, PowersMultiply
<1>6. Power[23] <= Power[s]
  BY <1>1, <1>3, <1>4, PowersAscend
<1>. QED
  BY <1>1, <1>2, <1>4, <1>5, <1>6, Zenon

\* No more than all problems are handled in parallel, and all of them for 100
\* percent: up to the largest number that has a float of its own.
LEMMA ShareIsAtMostAll ==
  ASSUME NEW p \in 0 .. 100, NEW n \in Nat, n < Power[24]
  PROVE  /\ ParallelCount(p, n) \in 0 .. n
         /\ p = 0 => ParallelCount(p, n) = 0
         /\ p = 100 => ParallelCount(p, n) = n
<1>1. CASE p = 0 \/ n = 0
  BY <1>1 DEF ParallelCount
<1>2. ASSUME p # 0, n # 0
      PROVE  /\ ParallelCount(p, n) \in 0 .. n
             /\ p = 100 => ParallelCount(p, n) = n
  <2>1. p \in 1 .. 100 /\ n \in Nat \ {0}
    BY <1>2
  <2>2. PICK m \in Nat, q \in Nat \ {0}, b \in Nat \ {0}, d \in Nat \ {0} :
          /\ b * d = q /\ Power[23] <= q
          /\ m <= q /\ 200 * m <= 2 * (p * q) + 100 /\ 2 * (p * q) <= 200 * m + 100
          /\ p = 100 => m = q
          /\ b * Power[23] <= n * m
          /\ ParallelCount(p, n) = RoundToEven(n * m, b) \div d
    BY <2>1, ShareSteps, Zenon
  <2> DEFINE r == RoundToEven(n * m, b)
             e == n * m
             c == d * n
  <2>3. e \in Nat /\ c \in Nat /\ b * c = n * q /\ e <= n * q
    BY <2>1, <2>2
  <2>4. p = 100 => e = n * q
    BY <2>2
  <2> HIDE DEF c, e
  <2>5. /\ RoundToEven(e, b) \in Nat /\ RoundToEven(e, b) <= c
        /\ p = 100 => RoundToEven(e, b) >= c
    BY <2>3, <2>4, RoundingError, RoundingIsMonotone
  <2>6. r \in Nat /\ r <= d * n /\ (p = 100 => r >= d * n)
    BY <2>5 DEF e, c
  <2> HIDE DEF r
  <2>7. r \div d \in Nat /\ r \div d <= n /\ (p = 100 => n <= r \div d)
    <3>1. r \div d \in Nat
      BY <2>6, Division
    <3>2. (d * n <= r => n <= r \div d) /\ (r <= d * n => r \div d <= n)
      BY <2>6, QuotientBetween
    <3>. QED
      BY <2>6, <3>1, <3>2
  <2>8. ParallelCount(p, n) = r \div d
    BY <2>2 DEF r
  <2>. QED
    BY <2>7, <2>8
<1>. QED
  BY <1>1, <1>2

\* The share is p/100 of the problems, rounded down, or one less.
LEMMA ShareIsNearProportion ==
  ASSUME NEW p \in 0 .. 100, NEW n \in Nat, n <= Power[16]
  PROVE  /\ ParallelCount(p, n) <= (p * n) \div 100
         /\ ParallelCount(p, n) >= (p * n) \div 100 - 1
<1>0. n < Power[24]
  BY PowerValues
<1>1. CASE p = 0 \/ n = 0
  <2>1. p * n = 0
    BY <1>0, <1>1
  <2>2. ParallelCount(p, n) = 0
    BY <1>1 DEF ParallelCount
  <2>. QED
    BY <2>1, <2>2
<1>2. CASE p # 0 /\ n # 0
  <2>1. p \in 1 .. 100 /\ n \in Nat \ {0}
    BY <1>0, <1>2
  <2>2. PICK m \in Nat, q \in Nat \ {0}, b \in Nat \ {0}, d \in Nat \ {0} :
          /\ b * d = q /\ Power[23] <= q
          /\ m <= q /\ 200 * m <= 2 * (p * q) + 100 /\ 2 * (p * q) <= 200 * m + 100
          /\ p = 100 => m = q
          /\ b * Power[23] <= n * m
          /\ ParallelCount(p, n) = RoundToEven(n * m, b) \div d
    BY <1>0, <2>1, ShareSteps, Zenon
  <2> DEFINE e == n * m
             r == RoundToEven(e, b)
             y == p * n
             c == y \div 100
             w == q * c
  <2>3. y \in Nat /\ e \in Nat /\ c \in Nat /\ w \in Nat
        /\ 100 * c <= y /\ y <= 100 * c + 99
    <3>1. y \in Nat /\ e \in Nat
      BY <2>1
    <3> HIDE DEF y, e
    <3>2. c \in Nat /\ 100 * c <= y /\ y <= 100 * c + 99
      BY <3>1
    <3>. QED
      BY <3>1, <3>2
  <2>4. 200 * e <= 2 * (q * y) + 100 * n /\ 2 * (q * y) <= 200 * e + 100 * n
    <3>1. /\ n * (200 * m) <= n * (2 * (p * q) + 100)
          /\ n * (2 * (p * q)) <= n * (200 * m + 100)
      <4>1. 200 * m \in Int /\ 2 * (p * q) \in Int /\ n \in Nat \ {0}
        BY <2>1
      <4>. QED
        BY <4>1, <2>2, ProductsCompare
    <3>2. /\ n * (200 * m) = 200 * e
          /\ n * (2 * (p * q) + 100) = 2 * (q * y) + 100 * n
          /\ n * (2 * (p * q)) = 2 * (q * y)
          /\ n * (200 * m + 100) = 200 * e + 100 * n
      BY <2>1
    <3>. QED
      BY <3>1, <3>2
  <2>5. 100 * w <= q * y /\ q * y <= 100 * w + 99 * q
    <3>1. q * (100 * c) <= q * y /\ q * y <= q * (100 * c + 99)
      BY <2>3, ProductsCompare
    <3>2. q * (100 * c) = 100 * w /\ q * (100 * c + 99) = 100 * w + 99 * q
      BY <2>3
    <3>. QED
      BY <3>1, <3>2
  <2>6. 100 * n < q /\ 100 * b < q
    <3> DEFINE z == Power[23]
    <3>1. 100 * n < z /\ z \in Nat \ {0} /\ z <= q
      BY <2>2, PowerValues
    <3>2. z * b <= n * m /\ n * m <= n * q
      <4>1. n * m <= n * q
        BY <2>1, <2>2, ProductsCompare
      <4>2. b * z <= n * m
        BY <2>2
      <4> HIDE DEF z
      <4>3. b * z = z * b
        BY <3>1
      <4>. QED
        BY <4>1, <4>2, <4>3
    <3> HIDE DEF z
    <3>3. (100 * n) * q < z * q /\ (100 * n) * q = 100 * (n * q)
      BY <3>1
    <3>4. n * q \in Int /\ z * b \in Int /\ z * q \in Int
      BY <2>1, <3>1
    <3>5. 100 * (z * b) < z * q /\ 100 * (z * b) = z * (100 * b)
      <4>1. 100 * (z * b) = z * (100 * b)
        BY <3>1
      <4>2. n * m \in Int
        OBVIOUS
      <4>3. z * b <= n * q
        BY <3>2, <3>4, <4>2
      <4>. QED
        BY <3>3, <3>4, <4>1, <4>3
    <3>6. 100 * b < q
      BY <3>1, <3>5, ProductsCompare
    <3>. QED
      BY <3>1, <3>6
  <2>7. r \in Nat /\ 2 * (b * r) <= 2 * e + b /\ 2 * e <= 2 * (b * r) + b
    <3> HIDE DEF e
    <3>. QED
      BY <2>3, RoundingError
  <2> HIDE DEF e, r, y, c
  <2>8. b * r < w + q /\ w - q <= b * r
    <3>1. q * y \in Int /\ b * r \in Int
      BY <2>3, <2>7
    <3> HIDE DEF w
    <3>. QED
      BY <2>3, <2>4, <2>5, <2>6, <2>7, <3>1
  <2>9. r < d * (c + 1) /\ d * (c - 1) <= r
    <3>1. w + q = b * (d * (c + 1)) /\ w - q = b * (d * (c - 1))
      BY <2>2, <2>3
    <3>2. d * (c + 1) \in Int /\ d * (c - 1) \in Int
      BY <2>3
    <3>. QED
      BY <2>7, <2>8, <3>1, <3>2, ProductsCompare
  <2>10. r \div d < c + 1 /\ c - 1 <= r \div d
    BY <2>3, <2>7, <2>9, QuotientBetween
  <2>11. r \div d \in Nat
    BY <2>7, Division
  <2>12. ParallelCount(p, n) = r \div d
    BY <2>2 DEF r, e
  <2>. QED
    BY <2>3, <2>10, <2>11, <2>12 DEF c, y
<1>. QED
  BY <1>1, <1>2
=============================================================================
