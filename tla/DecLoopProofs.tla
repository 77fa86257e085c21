--------------------------- MODULE DecLoopProofs ---------------------------
(***************************************************************************)
(* Theorems about DecLoop and MergePfd, for any factors Q, with common     *)
(* zeros or without, any exponents, degrees and numerators, and any number *)
(* of terms: adding lists keeps them sorted and keeps their sum, the       *)
(* decomposition steps keep the sum and put aside only what cannot be      *)
(* split, and the passes of the loop over a chunk have ever lower degree.  *)
(***************************************************************************)
EXTENDS DecLoop, NaturalsInduction, WellFoundedInduction, SequenceTheorems,
        TLAPS

-----------------------------------------------------------------------------
(***************************************************************************)
(* Induction over numbers, and loops.                                      *)
(***************************************************************************)

LessThan == {ss \in Nat \X Nat : ss[1] < ss[2]}

\* Every set of numbers that is not empty has a least one.
LEMMA LeastNumber ==
  ASSUME NEW T \in SUBSET Nat, T # {}
  PROVE  \E m \in T : \A n \in T : m <= n
<1>1. OpToRel(<, Nat) = LessThan
  BY DEF OpToRel, LessThan
<1>2. IsWellFoundedOn(LessThan, Nat)
  BY <1>1, NatLessThanWellFounded, Zenon
<1>3. PICK m \in T : \A n \in T : ~ (<<n, m>> \in LessThan)
  BY <1>2, WFMin
<1>4. \A n \in T : ~ (n < m)
  BY <1>3 DEF LessThan
<1>. QED
  BY <1>4

\* A set that has 0 and the successor of each of its numbers has all of them.
LEMMA Induction ==
  ASSUME NEW S, 0 \in S, \A n \in Nat : n \in S => n + 1 \in S
  PROVE  Nat \subseteq S
<1>1. SUFFICES ASSUME Nat \ S # {} PROVE FALSE
  OBVIOUS
<1>2. PICK m \in Nat \ S : \A n \in Nat \ S : m <= n
  BY LeastNumber, <1>1
<1>3. m # 0 /\ m - 1 \in Nat /\ m - 1 \in S
  BY <1>2
<1>. QED
  BY <1>2, <1>3

\* The same for the numbers up to n.
LEMMA InductionUpTo ==
  ASSUME NEW n \in Nat, NEW S, 0 \in S,
         \A i \in 1 .. n : i - 1 \in S => i \in S
  PROVE  0 .. n \subseteq S
<1> DEFINE T == {i \in Nat : i <= n => i \in S}
<1>1. 0 \in T
  OBVIOUS
<1>2. ASSUME NEW i \in Nat, i \in T PROVE i + 1 \in T
  BY <1>2
<1>3. Nat \subseteq T
  <2> HIDE DEF T
  <2>. QED
    BY <1>1, <1>2, Induction, Zenon
<1>. QED
  BY <1>3

\* The values that a loop of n turns goes through.
Loop(f, a, g, n) == f[0] = a /\ \A i \in 1 .. n : f[i] = g[<<f[i - 1], i>>]

\* A loop has a value after each of its turns.
LEMMA LoopExists ==
  ASSUME NEW A, NEW a \in A, NEW n \in Nat, NEW g \in [A \X (1 .. n) -> A]
  PROVE  \E f \in [0 .. n -> A] : Loop(f, a, g, n)
<1> DEFINE S == {k \in 0 .. n : \E f \in [0 .. k -> A] : Loop(f, a, g, k)}
<1>1. 0 \in S
  <2> DEFINE f == [i \in 0 .. 0 |-> a]
  <2>1. f \in [0 .. 0 -> A]
    OBVIOUS
  <2>2. f[0] = a /\ \A i \in 1 .. 0 : FALSE
    OBVIOUS
  <2>3. Loop(f, a, g, 0)
    BY <2>2 DEF Loop
  <2> HIDE DEF f
  <2>. QED
    BY <2>1, <2>3
<1>2. ASSUME NEW k \in 1 .. n, k - 1 \in S PROVE k \in S
  <2>1. PICK f \in [0 .. k - 1 -> A] : Loop(f, a, g, k - 1)
    BY <1>2
  <2> DEFINE v == g[<<f[k - 1], k>>]
             h == [i \in 0 .. k |-> IF i = k THEN v ELSE f[i]]
  <2>2. v \in A
    <3>1. k - 1 \in 0 .. k - 1
      OBVIOUS
    <3>2. <<f[k - 1], k>> \in A \X (1 .. n)
      BY <3>1
    <3>. QED
      BY <3>2
  <2>3. h \in [0 .. k -> A]
    BY <2>2
  <2>4. h[0] = a
    BY <2>1 DEF Loop
  <2>5. ASSUME NEW i \in 1 .. k PROVE h[i] = g[<<h[i - 1], i>>]
    <3>1. h[i - 1] = f[i - 1]
      OBVIOUS
    <3>2. CASE i = k
      <4>1. h[i] = v
        BY <3>2
      <4>2. h[i - 1] = f[k - 1]
        BY <3>1, <3>2
      <4> HIDE DEF h
      <4>. QED
        BY <3>2, <4>1, <4>2
    <3>3. CASE i # k
      <4>1. i \in 1 .. k - 1 /\ h[i] = f[i]
        BY <3>3
      <4>2. f[i] = g[<<f[i - 1], i>>]
        BY <4>1, <2>1 DEF Loop
      <4>. QED
        BY <3>1, <4>1, <4>2
    <3>. QED
      BY <3>2, <3>3
  <2>6. Loop(h, a, g, k)
    BY <2>4, <2>5 DEF Loop
  <2>7. k \in 0 .. n
    OBVIOUS
  <2> HIDE DEF h
  <2>. QED
    BY <2>3, <2>6, <2>7
<1>3. 0 .. n \subseteq S
  <2> HIDE DEF S
  <2>. QED
    BY <1>1, <1>2, InductionUpTo, Zenon
<1>4. n \in S
  BY <1>3
<1>. QED
  BY <1>4

\* What holds before a loop and is kept by its turns holds after each of them.
LEMMA LoopKeeps ==
  ASSUME NEW n \in Nat, NEW f, NEW A, f[0] \in A,
         \A i \in 1 .. n : f[i - 1] \in A => f[i] \in A
  PROVE  \A i \in 0 .. n : f[i] \in A
<1> DEFINE S == {i \in 0 .. n : f[i] \in A}
<1>1. 0 \in S /\ \A i \in 1 .. n : i - 1 \in S => i \in S
  OBVIOUS
<1>2. 0 .. n \subseteq S
  <2> HIDE DEF S
  <2>. QED
    BY <1>1, InductionUpTo, Zenon
<1>. QED
  BY <1>2

-----------------------------------------------------------------------------
(***************************************************************************)
(* Sums.                                                                   *)
(***************************************************************************)

\* The partial sums of a list of numbers.
Sums(e, f) == f[0] = 0 /\ \A i \in 1 .. Len(e) : f[i] = f[i - 1] + e[i]

\* Total adds from left to right: it has partial sums.
LEMMA TotalIsSum ==
  ASSUME NEW e \in Seq(Int)
  PROVE  \E f \in [0 .. Len(e) -> Int] : Sums(e, f) /\ Total[e] = f[Len(e)]
<1> DEFINE n == Len(e)
           Turn(f, i) == IF i = 0 THEN 0 ELSE f[i - 1] + e[i]
           IsLoop(f) == f = [i \in 0 .. n |-> Turn(f, i)]
           s == CHOOSE f : IsLoop(f)
           g == [p \in Int \X (1 .. n) |-> p[1] + e[p[2]]]
<1>0. n \in Nat /\ \A i \in 1 .. n : e[i] \in Int
  OBVIOUS
<1>1. Total[e] = s[n]
  BY DEF Total
<1>2. PICK f \in [0 .. n -> Int] : Loop(f, 0, g, n)
  <2>1. g \in [Int \X (1 .. n) -> Int]
    BY <1>0
  <2> HIDE DEF g, n
  <2>2. n \in Nat /\ 0 \in Int
    BY <1>0
  <2>. QED
    BY <2>1, <2>2, LoopExists, Zenon
<1>3. IsLoop(f)
  <2>1. ASSUME NEW i \in 1 .. n PROVE f[i] = f[i - 1] + e[i]
    <3>1. f[i - 1] \in Int
      BY <1>0
    <3>2. <<f[i - 1], i>> \in Int \X (1 .. n)
      BY <3>1
    <3>3. f[i] = g[<<f[i - 1], i>>]
      BY <1>2 DEF Loop
    <3> HIDE DEF n
    <3>. QED
      BY <3>2, <3>3
  <2>2. \A i \in 0 .. n : f[i] = Turn(f, i)
    BY <1>2, <2>1 DEF Loop
  <2> HIDE DEF n, Turn
  <2>. QED
    BY <2>2
<1>4. IsLoop(s)
  <2> HIDE DEF IsLoop
  <2>. QED
    BY <1>3
<1>5. s[0] = 0 /\ \A i \in 1 .. n : s[i] = s[i - 1] + e[i]
  <2> HIDE DEF s
  <2>1. \A i \in 0 .. n : s[i] = Turn(s, i)
    BY <1>4
  <2>. QED
    BY <1>0, <2>1
<1>6. \A i \in 0 .. n : s[i] \in Int
  <2> HIDE DEF s
  <2>1. \A i \in 1 .. n : s[i - 1] \in Int => s[i] \in Int
    BY <1>0, <1>5
  <2>2. n \in Nat /\ s[0] \in Int
    BY <1>0, <1>5
  <2> HIDE DEF n
  <2>. QED
    BY <2>1, <2>2, LoopKeeps, Zenon
<1>7. s \in [0 .. n -> Int]
  <2>1. s = [i \in 0 .. n |-> s[i]]
    BY <1>4
  <2> HIDE DEF s
  <2>. QED
    BY <1>6, <2>1
<1>. QED
  BY <1>1, <1>5, <1>7 DEF Sums

\* A sum of integers is one.
LEMMA TotalType == \A e \in Seq(Int) : Total[e] \in Int
<1> SUFFICES ASSUME NEW e \in Seq(Int) PROVE Total[e] \in Int
  OBVIOUS
<1>1. PICK f \in [0 .. Len(e) -> Int] : Sums(e, f) /\ Total[e] = f[Len(e)]
  BY TotalIsSum
<1>. QED
  BY <1>1

\* The sum of two lists, one after the other.
LEMMA TotalOfConcat ==
  ASSUME NEW s \in Seq(Int), NEW t \in Seq(Int)
  PROVE  Total[s \o t] = Total[s] + Total[t]
<1> DEFINE u == s \o t
           m == Len(s)
           n == Len(t)
<1>0. /\ u \in Seq(Int) /\ m \in Nat /\ n \in Nat /\ Len(u) = m + n
      /\ \A i \in 1 .. m : u[i] = s[i]
      /\ \A i \in 1 .. n : u[m + i] = t[i] /\ t[i] \in Int
  OBVIOUS
<1>1. PICK f \in [0 .. Len(s) -> Int] : Sums(s, f) /\ Total[s] = f[Len(s)]
  BY TotalIsSum
<1>2. PICK h \in [0 .. Len(t) -> Int] : Sums(t, h) /\ Total[t] = h[Len(t)]
  BY TotalIsSum
<1> HIDE DEF u
<1>3. PICK g \in [0 .. Len(u) -> Int] : Sums(u, g) /\ Total[u] = g[Len(u)]
  BY <1>0, TotalIsSum
<1>4. g[m] = f[m] /\ f[m] \in Int
  <2> DEFINE S == {i \in 0 .. m : g[i] = f[i]}
  <2>1. 0 \in S
    BY <1>0, <1>1, <1>3 DEF Sums
  <2>2. ASSUME NEW i \in 1 .. m, i - 1 \in S PROVE i \in S
    <3>1. i \in 1 .. Len(u)
      BY <1>0
    <3>2. f[i] = f[i - 1] + s[i] /\ g[i] = g[i - 1] + u[i]
      BY <1>1, <1>3, <3>1 DEF Sums
    <3>. QED
      BY <1>0, <2>2, <3>2
  <2>3. 0 .. m \subseteq S
    <3>1. m \in Nat
      OBVIOUS
    <3> HIDE DEF S, m
    <3>. QED
      BY <2>1, <2>2, <3>1, InductionUpTo, Zenon
  <2>4. m \in 0 .. m /\ m \in 0 .. Len(s)
    OBVIOUS
  <2>5. m \in S
    BY <2>3, <2>4, Zenon
  <2>. QED
    BY <1>1, <2>4, <2>5
<1> DEFINE S == {i \in 0 .. n : g[m + i] = f[m] + h[i]}
<1>5. 0 \in S
  <2>1. h[0] = 0 /\ m + 0 = m
    BY <1>0, <1>2 DEF Sums
  <2>. QED
    BY <1>0, <1>4, <2>1
<1>6. ASSUME NEW i \in 1 .. n, i - 1 \in S PROVE i \in S
  <2>1. h[i] = h[i - 1] + t[i]
    BY <1>2 DEF Sums
  <2>2. h[i - 1] \in Int /\ t[i] \in Int
    <3>1. i - 1 \in 0 .. Len(t)
      OBVIOUS
    <3>. QED
      BY <1>0, <1>2, <3>1
  <2>3. m + i \in 1 .. Len(u) /\ (m + i) - 1 = m + (i - 1)
    BY <1>0
  <2>4. g[m + i] = g[m + (i - 1)] + t[i]
    BY <1>0, <1>3, <2>3 DEF Sums
  <2>. QED
    BY <1>0, <1>4, <1>6, <2>1, <2>2, <2>4
<1>7. 0 .. n \subseteq S
  <2>1. n \in Nat
    OBVIOUS
  <2> HIDE DEF S, n
  <2>. QED
    BY <1>5, <1>6, <2>1, InductionUpTo, Zenon
<1>8. g[m + n] = f[m] + h[n]
  <2>1. n \in 0 .. n
    OBVIOUS
  <2>2. n \in S
    BY <1>7, <2>1, Zenon
  <2>. QED
    BY <2>2
<1>9. Total[u] = Total[s] + Total[t]
  BY <1>0, <1>1, <1>2, <1>3, <1>8
<1>. QED
  BY <1>9 DEF u

\* The sum of no number, and of one.
LEMMA TotalOfFew ==
  Total[<<>>] = 0 /\ \A x \in Int : Total[<<x>>] = x
<1>1. Total[<<>>] = 0
  <2>1. PICK f \in [0 .. Len(<<>>) -> Int] :
          Sums(<<>>, f) /\ Total[<<>>] = f[Len(<<>>)]
    <3>1. <<>> \in Seq(Int)
      OBVIOUS
    <3>. QED
      BY <3>1, TotalIsSum, Zenon
  <2>. QED
    BY <2>1 DEF Sums
<1>2. ASSUME NEW x \in Int PROVE Total[<<x>>] = x
  <2>1. <<x>> \in Seq(Int) /\ Len(<<x>>) = 1 /\ <<x>>[1] = x
    OBVIOUS
  <2>2. PICK f \in [0 .. Len(<<x>>) -> Int] :
          Sums(<<x>>, f) /\ Total[<<x>>] = f[Len(<<x>>)]
    BY <2>1, TotalIsSum, Zenon
  <2>3. f[0] = 0 /\ f[1] = f[1 - 1] + x
    BY <2>1, <2>2 DEF Sums
  <2>. QED
    BY <2>1, <2>2, <2>3
<1>. QED
  BY <1>1, <1>2

\* Exponents are integers, so Total is defined for them.
LEMMA PositiveNumbers == \A s \in Seq(Nat \ {0}) : s \in Seq(Int)
OBVIOUS

\* Numbers that are positive have a positive sum.
LEMMA TotalIsPositive ==
  ASSUME NEW s \in Seq(Nat \ {0})
  PROVE  Total[s] \in Nat /\ (s # <<>> => Total[s] > 0)
<1>0. s \in Seq(Int) /\ \A i \in 1 .. Len(s) : s[i] \in Nat /\ s[i] > 0
  OBVIOUS
<1>1. PICK f \in [0 .. Len(s) -> Int] : Sums(s, f) /\ Total[s] = f[Len(s)]
  BY <1>0, TotalIsSum
<1> DEFINE S == {i \in 0 .. Len(s) : f[i] >= i}
<1>2. 0 \in S
  BY <1>1 DEF Sums
<1>3. ASSUME NEW i \in 1 .. Len(s), i - 1 \in S PROVE i \in S
  <2>1. f[i] = f[i - 1] + s[i] /\ f[i - 1] \in Int
    BY <1>1 DEF Sums
  <2>. QED
    BY <1>0, <1>3, <2>1
<1>4. 0 .. Len(s) \subseteq S
  <2>1. Len(s) \in Nat
    OBVIOUS
  <2> HIDE DEF S
  <2>. QED
    BY <1>2, <1>3, <2>1, InductionUpTo, Zenon
<1>5. Len(s) \in S
  BY <1>4
<1>. QED
  BY <1>1, <1>5

\* A factor that all numbers have can be taken out of the sum.
LEMMA TotalOfMultiple ==
  ASSUME NEW s \in Seq(Int), NEW t \in Seq(Int), NEW c \in Int,
         Len(t) = Len(s), \A i \in 1 .. Len(s) : t[i] = c * s[i]
  PROVE  Total[t] = c * Total[s]
<1>1. PICK f \in [0 .. Len(s) -> Int] : Sums(s, f) /\ Total[s] = f[Len(s)]
  BY TotalIsSum
<1>2. PICK g \in [0 .. Len(t) -> Int] : Sums(t, g) /\ Total[t] = g[Len(t)]
  BY TotalIsSum
<1> DEFINE n == Len(s)
           S == {i \in 0 .. n : g[i] = c * f[i]}
<1>3. 0 \in S
  BY <1>1, <1>2 DEF Sums
<1>4. ASSUME NEW i \in 1 .. n, i - 1 \in S PROVE i \in S
  <2>1. f[i] = f[i - 1] + s[i] /\ g[i] = g[i - 1] + c * s[i]
    BY <1>1, <1>2 DEF Sums
  <2>2. f[i - 1] \in Int /\ s[i] \in Int
    <3>1. i - 1 \in 0 .. Len(s)
      OBVIOUS
    <3>2. f[i - 1] \in Int
      BY <1>1, <3>1
    <3>3. s[i] \in Int
      OBVIOUS
    <3>. QED
      BY <3>2, <3>3
  <2>3. c * (f[i - 1] + s[i]) = c * f[i - 1] + c * s[i]
    BY <2>2
  <2>4. g[i - 1] = c * f[i - 1]
    BY <1>4
  <2>5. g[i] = c * f[i]
    BY <2>1, <2>3, <2>4, Zenon
  <2>. QED
    BY <2>5
<1>5. 0 .. n \subseteq S
  <2>1. n \in Nat
    OBVIOUS
  <2> HIDE DEF S, n
  <2>. QED
    BY <1>3, <1>4, <2>1, InductionUpTo, Zenon
<1>6. n \in 0 .. n
  OBVIOUS
<1>7. n \in S
  BY <1>5, <1>6, Zenon
<1>. QED
  BY <1>1, <1>2, <1>7

\* A list of positive numbers has a larger sum than its rest.
LEMMA TotalOfRest ==
  ASSUME NEW s \in Seq(Nat \ {0}), NEW t \in Seq(Nat \ {0}), Len(t) < Len(s),
         \A i \in 0 .. Len(t) - 1 : s[Len(s) - i] = t[Len(t) - i]
  PROVE  Total[t] < Total[s]
<1> DEFINE d == Len(s) - Len(t)
           u == SubSeq(s, 1, d)
<1>1. /\ d \in 1 .. Len(s)
      /\ u \in Seq(Nat \ {0}) /\ Len(u) = d
      /\ \A i \in 1 .. d : u[i] = s[i]
  <2>1. d \in 1 .. Len(s)
    OBVIOUS
  <2> HIDE DEF d
  <2>. QED
    BY <2>1
<1>2. ASSUME NEW i \in 1 .. Len(t) PROVE s[d + i] = t[i]
  <2>1. Len(t) - i \in 0 .. Len(t) - 1
    OBVIOUS
  <2>2. s[Len(s) - (Len(t) - i)] = t[Len(t) - (Len(t) - i)]
    BY <2>1
  <2>3. Len(s) - (Len(t) - i) = d + i /\ Len(t) - (Len(t) - i) = i
    OBVIOUS
  <2>. QED
    BY <2>2, <2>3
<1>3. u # <<>> /\ u \in Seq(Int) /\ t \in Seq(Int)
  <2> HIDE DEF u, d
  <2>2. u # <<>>
    BY <1>1
  <2>3. u \in Seq(Nat \ {0}) /\ t \in Seq(Nat \ {0})
    BY <1>1, Zenon
  <2>. QED
    BY <2>2, <2>3, PositiveNumbers, Zenon
<1>4. s = u \o t
  <2>1. Len(u \o t) = Len(s)
    BY <1>1, <1>3
  <2>2. ASSUME NEW i \in 1 .. Len(s) PROVE s[i] = (u \o t)[i]
    <3>1. CASE i <= d
      BY <1>1, <1>3, <3>1
    <3>2. CASE i > d
      <4>1. i - d \in 1 .. Len(t) /\ d + (i - d) = i
        BY <1>1, <3>2
      <4>2. (u \o t)[i] = t[i - d]
        BY <1>1, <1>3, <3>2, <4>1
      <4>3. s[d + (i - d)] = t[i - d]
        BY <1>2, <4>1
      <4>. QED
        BY <4>1, <4>2, <4>3
    <3>. QED
      BY <1>1, <3>1, <3>2
  <2>3. u \o t \in Seq(Int) /\ s \in Seq(Int)
    BY <1>3
  <2> HIDE DEF u, d
  <2>. QED
    BY <2>1, <2>2, <2>3, SeqEqual
<1> HIDE DEF u, d
<1>5. Total[s] = Total[u] + Total[t]
  BY <1>3, <1>4, TotalOfConcat
<1>6. Total[u] \in Nat /\ Total[u] > 0
  BY <1>1, <1>3, TotalIsPositive
<1>7. Total[t] \in Int
  BY <1>3, TotalType
<1>. QED
  BY <1>5, <1>6, <1>7

-----------------------------------------------------------------------------
(***************************************************************************)
(* The order of the denominators.                                          *)
(***************************************************************************)

\* What a denominator is in a term: as many indices as exponents, none of them 0.
Denominator ==
  {d \in [ind : Seq(Nat), exp : Seq(Nat \ {0})] : Len(d.ind) = Len(d.exp)}

IndAt(d, i) == d.ind[Len(d.ind) - i]
ExpAt(d, i) == d.exp[Len(d.exp) - i]

SameAt(d, e, i) == IndAt(d, i) = IndAt(e, i) /\ ExpAt(d, i) = ExpAt(e, i)
FirstAt(d, e, i) ==
  \/ IndAt(d, i) > IndAt(e, i)
  \/ IndAt(d, i) = IndAt(e, i) /\ ExpAt(d, i) > ExpAt(e, i)

\* Of two denominators of the same degree the first comes first.
FirstByFactors(d, e) ==
  \E i \in Nat :
    /\ i < Len(d.ind) /\ i < Len(e.ind)
    /\ FirstAt(d, e, i) /\ \A k \in 0 .. i - 1 : SameAt(d, e, k)

\* is_dp_smaller in terms of the two orders above.
LEMMA SmallerMeans ==
  ASSUME NEW d \in Denominator, NEW e \in Denominator
  PROVE  IsDpSmaller(d, e) <=>
           /\ e.exp # <<>>
           /\ \/ d.exp = <<>>
              \/ Total[d.exp] < Total[e.exp]
              \/ ~(Total[e.exp] < Total[d.exp]) /\ FirstByFactors(d, e)
<1> DEFINE common == 0 .. Smaller2(Len(d.ind), Len(e.ind)) - 1
           First(i) == FirstAt(d, e, i) /\ \A k \in 0 .. i - 1 : SameAt(d, e, k)
<1>1. \A i : i \in common <=> i \in Nat /\ i < Len(d.ind) /\ i < Len(e.ind)
  BY DEF Denominator, Smaller2
<1>2. IsDpSmaller(d, e) <=>
           /\ e.exp # <<>>
           /\ \/ d.exp = <<>>
              \/ Total[d.exp] < Total[e.exp]
              \/ ~(Total[e.exp] < Total[d.exp]) /\ \E i \in common : First(i)
  BY DEF IsDpSmaller, LowerDegree, FirstAt, SameAt, IndAt, ExpAt
<1>3. (\E i \in common : First(i)) <=> FirstByFactors(d, e)
  <2> HIDE DEF common
  <2>. QED
    BY <1>1 DEF FirstByFactors
<1>. QED
  BY <1>2, <1>3

\* The entries of a denominator.
LEMMA FactorType ==
  ASSUME NEW d \in Denominator, NEW i \in Nat, i < Len(d.ind)
  PROVE  IndAt(d, i) \in Nat /\ ExpAt(d, i) \in Nat \ {0}
<1>1. /\ Len(d.ind) - i \in 1 .. Len(d.ind)
      /\ d.ind \in Seq(Nat) /\ d.exp \in Seq(Nat \ {0})
      /\ Len(d.exp) = Len(d.ind)
  BY DEF Denominator
<1>2. d.ind[Len(d.ind) - i] \in Nat
  BY <1>1
<1>3. d.exp[Len(d.ind) - i] \in Nat \ {0}
  BY <1>1
<1>. QED
  BY <1>1, <1>2, <1>3 DEF IndAt, ExpAt

\* The total degree of a denominator is a number.
LEMMA DegreeType == \A d \in Denominator : Total[d.exp] \in Int
BY TotalType, PositiveNumbers DEF Denominator

\* No denominator is smaller than itself.
LEMMA SmallerIsIrreflexive == \A d \in Denominator : ~IsDpSmaller(d, d)
<1> SUFFICES ASSUME NEW d \in Denominator, IsDpSmaller(d, d) PROVE FALSE
  OBVIOUS
<1>1. d.exp # <<>> /\ ~(Total[d.exp] < Total[d.exp])
  BY SmallerMeans, DegreeType
<1>2. FirstByFactors(d, d)
  BY <1>1, SmallerMeans
<1>3. PICK i \in Nat : i < Len(d.ind) /\ FirstAt(d, d, i)
  BY <1>2 DEF FirstByFactors
<1>4. IndAt(d, i) \in Nat /\ ExpAt(d, i) \in Nat
  BY <1>3, FactorType
<1>. QED
  BY <1>3, <1>4 DEF FirstAt

\* The order from the last factor on is transitive.
LEMMA FirstIsTransitive ==
  ASSUME NEW d \in Denominator, NEW e \in Denominator, NEW f \in Denominator,
         FirstByFactors(d, e), FirstByFactors(e, f)
  PROVE  FirstByFactors(d, f)
<1>1. PICK i \in Nat :
        /\ i < Len(d.ind) /\ i < Len(e.ind)
        /\ FirstAt(d, e, i) /\ \A k \in 0 .. i - 1 : SameAt(d, e, k)
  BY DEF FirstByFactors
<1>2. PICK j \in Nat :
        /\ j < Len(e.ind) /\ j < Len(f.ind)
        /\ FirstAt(e, f, j) /\ \A k \in 0 .. j - 1 : SameAt(e, f, k)
  BY DEF FirstByFactors
<1>3. CASE i < j
  <2>1. i < Len(f.ind) /\ SameAt(e, f, i)
    BY <1>2, <1>3 DEF Denominator
  <2>2. FirstAt(d, f, i)
    BY <1>1, <2>1 DEF FirstAt, SameAt
  <2>3. \A k \in 0 .. i - 1 : SameAt(d, f, k)
    BY <1>1, <1>2, <1>3 DEF SameAt
  <2>. QED
    BY <1>1, <2>1, <2>2, <2>3 DEF FirstByFactors
<1>4. CASE j < i
  <2>1. j < Len(d.ind) /\ SameAt(d, e, j)
    BY <1>1, <1>4 DEF Denominator
  <2>2. FirstAt(d, f, j)
    BY <1>2, <2>1 DEF FirstAt, SameAt
  <2>3. \A k \in 0 .. j - 1 : SameAt(d, f, k)
    BY <1>1, <1>2, <1>4 DEF SameAt
  <2>. QED
    BY <1>2, <2>1, <2>2, <2>3 DEF FirstByFactors
<1>5. CASE i = j
  <2>1. /\ IndAt(d, i) \in Nat /\ IndAt(e, i) \in Nat /\ IndAt(f, i) \in Nat
        /\ ExpAt(d, i) \in Nat /\ ExpAt(e, i) \in Nat /\ ExpAt(f, i) \in Nat
    BY <1>1, <1>2, <1>5, FactorType
  <2>2. FirstAt(d, f, i)
    BY <1>1, <1>2, <1>5, <2>1 DEF FirstAt
  <2>3. \A k \in 0 .. i - 1 : SameAt(d, f, k)
    BY <1>1, <1>2, <1>5 DEF SameAt
  <2>. QED
    BY <1>1, <1>2, <1>5, <2>2, <2>3 DEF FirstByFactors
<1>. QED
  BY <1>3, <1>4, <1>5

\* is_dp_smaller is transitive, as a sort needs it to be.
LEMMA SmallerIsTransitive ==
  ASSUME NEW d \in Denominator, NEW e \in Denominator, NEW f \in Denominator,
         IsDpSmaller(d, e), IsDpSmaller(e, f)
  PROVE  IsDpSmaller(d, f)
<1> DEFINE p == Total[d.exp]
           q == Total[e.exp]
           r == Total[f.exp]
<1>0. p \in Int /\ q \in Int /\ r \in Int
  BY DegreeType
<1>1. /\ e.exp # <<>>
      /\ d.exp = <<>> \/ p < q \/ (~(q < p) /\ FirstByFactors(d, e))
  BY SmallerMeans
<1>2. f.exp # <<>> /\ (q < r \/ (~(r < q) /\ FirstByFactors(e, f)))
  BY <1>1, SmallerMeans
<1>3. d.exp = <<>> \/ p < r \/ (~(r < p) /\ FirstByFactors(d, f))
  BY <1>0, <1>1, <1>2, FirstIsTransitive
<1>. QED
  BY <1>2, <1>3, SmallerMeans

\* Denominators that have the same factors from the end on, as far as the
\* shorter one goes, and the same degree are equal.
LEMMA SameFactorsAreEqual ==
  ASSUME NEW d \in Denominator, NEW e \in Denominator,
         \A i \in Nat : i < Len(d.ind) /\ i < Len(e.ind) => SameAt(d, e, i),
         Total[d.exp] = Total[e.exp]
  PROVE  d = e
<1>0. /\ d.ind \in Seq(Nat) /\ d.exp \in Seq(Nat \ {0}) /\ Len(d.ind) = Len(d.exp)
      /\ e.ind \in Seq(Nat) /\ e.exp \in Seq(Nat \ {0}) /\ Len(e.ind) = Len(e.exp)
      /\ d = [ind |-> d.ind, exp |-> d.exp] /\ e = [ind |-> e.ind, exp |-> e.exp]
  BY DEF Denominator
<1>1. ~(Len(e.exp) < Len(d.exp))
  <2> SUFFICES ASSUME Len(e.exp) < Len(d.exp) PROVE FALSE
    OBVIOUS
  <2>1. ASSUME NEW i \in 0 .. Len(e.exp) - 1
        PROVE  d.exp[Len(d.exp) - i] = e.exp[Len(e.exp) - i]
    <3>1. i \in Nat /\ i < Len(d.ind) /\ i < Len(e.ind)
      BY <1>0
    <3>2. SameAt(d, e, i)
      BY <3>1
    <3>. QED
      BY <3>2 DEF SameAt, ExpAt
  <2>2. Total[e.exp] < Total[d.exp]
    BY <1>0, <2>1, TotalOfRest
  <2>. QED
    BY <2>2, DegreeType
<1>2. ~(Len(d.exp) < Len(e.exp))
  <2> SUFFICES ASSUME Len(d.exp) < Len(e.exp) PROVE FALSE
    OBVIOUS
  <2>1. ASSUME NEW i \in 0 .. Len(d.exp) - 1
        PROVE  e.exp[Len(e.exp) - i] = d.exp[Len(d.exp) - i]
    <3>1. i \in Nat /\ i < Len(d.ind) /\ i < Len(e.ind)
      BY <1>0
    <3>2. SameAt(d, e, i)
      BY <3>1
    <3>. QED
      BY <3>2 DEF SameAt, ExpAt
  <2>2. Total[d.exp] < Total[e.exp]
    BY <1>0, <2>1, TotalOfRest
  <2>. QED
    BY <2>2, DegreeType
<1>3. Len(d.exp) = Len(e.exp)
  BY <1>0, <1>1, <1>2
<1>4. ASSUME NEW k \in 1 .. Len(d.exp)
      PROVE  d.ind[k] = e.ind[k] /\ d.exp[k] = e.exp[k]
  <2> DEFINE n == Len(d.exp)
  <2>1. n - k \in Nat /\ n - k < n /\ n - (n - k) = k
    BY <1>0
  <2>2. SameAt(d, e, n - k)
    BY <1>0, <1>3, <2>1
  <2>. QED
    BY <1>0, <1>3, <2>1, <2>2 DEF SameAt, IndAt, ExpAt
<1>5. d.ind = e.ind
  BY <1>0, <1>3, <1>4, SeqEqual
<1>6. d.exp = e.exp
  BY <1>0, <1>3, <1>4, SeqEqual
<1>. QED
  BY <1>0, <1>5, <1>6

\* Of two different denominators one is smaller.
LEMMA SmallerIsTotal ==
  ASSUME NEW d \in Denominator, NEW e \in Denominator,
         ~IsDpSmaller(d, e), ~IsDpSmaller(e, d)
  PROVE  d = e
<1>0. /\ Total[d.exp] \in Int /\ Total[e.exp] \in Int
      /\ d.exp \in Seq(Nat \ {0}) /\ e.exp \in Seq(Nat \ {0})
      /\ Len(d.ind) = Len(d.exp) /\ Len(e.ind) = Len(e.exp)
  BY DegreeType DEF Denominator
<1>1. (d.exp = <<>>) <=> (e.exp = <<>>)
  BY SmallerMeans
<1>2. CASE d.exp = <<>>
  <2>1. Len(d.ind) = 0 /\ Len(e.ind) = 0 /\ d.exp = e.exp
    BY <1>0, <1>1, <1>2
  <2>. QED
    BY <2>1, SameFactorsAreEqual
<1>3. CASE d.exp # <<>>
  <2>1. /\ Total[d.exp] = Total[e.exp]
        /\ ~FirstByFactors(d, e) /\ ~FirstByFactors(e, d)
    BY <1>0, <1>1, <1>3, SmallerMeans
  <2> DEFINE T == {i \in Nat : /\ i < Len(d.ind) /\ i < Len(e.ind)
                               /\ ~SameAt(d, e, i)}
  <2>2. T = {}
    <3> SUFFICES ASSUME T # {} PROVE FALSE
      OBVIOUS
    <3>1. PICK i \in T : \A k \in T : i <= k
      <4>1. T \in SUBSET Nat
        OBVIOUS
      <4> HIDE DEF T
      <4>. QED
        BY <4>1, LeastNumber
    <3>2. ASSUME NEW k \in 0 .. i - 1 PROVE SameAt(d, e, k)
      <4>1. k \in Nat /\ k < i /\ k \notin T
        BY <3>1
      <4>2. k < Len(d.ind) /\ k < Len(e.ind)
        BY <1>0, <3>1, <4>1
      <4>. QED
        BY <4>1, <4>2
    <3>3. \A k \in 0 .. i - 1 : SameAt(e, d, k)
      BY <3>2 DEF SameAt
    <3>4. /\ IndAt(d, i) \in Nat /\ IndAt(e, i) \in Nat
          /\ ExpAt(d, i) \in Nat /\ ExpAt(e, i) \in Nat
      BY FactorType
    <3>5. FirstAt(d, e, i) \/ FirstAt(e, d, i)
      BY <3>4 DEF FirstAt, SameAt
    <3>. QED
      BY <2>1, <3>2, <3>3, <3>5 DEF FirstByFactors
  <2>3. \A i \in Nat : i < Len(d.ind) /\ i < Len(e.ind) => SameAt(d, e, i)
    BY <2>2
  <2>. QED
    BY <2>1, <2>3, SameFactorsAreEqual
<1>. QED
  BY <1>2, <1>3

-----------------------------------------------------------------------------
(***************************************************************************)
(* Lists with an entry more, less or another.                              *)
(***************************************************************************)

\* A list in two parts.
LEMMA PartsOfList ==
  ASSUME NEW S, NEW s \in Seq(S), NEW i \in 0 .. Len(s)
  PROVE  /\ SubSeq(s, 1, i) \in Seq(S) /\ Len(SubSeq(s, 1, i)) = i
         /\ SubSeq(s, i + 1, Len(s)) \in Seq(S)
         /\ Len(SubSeq(s, i + 1, Len(s))) = Len(s) - i
         /\ \A k \in 1 .. i : SubSeq(s, 1, i)[k] = s[k]
         /\ \A k \in 1 .. Len(s) - i : SubSeq(s, i + 1, Len(s))[k] = s[i + k]
<1>1. i \in Int /\ Len(s) \in Nat /\ i + 1 \in Int
  OBVIOUS
<1>2. \A k \in 1 .. i : s[k] \in S
  OBVIOUS
<1>3. \A k \in i + 1 .. Len(s) : s[k] \in S
  OBVIOUS
<1>4. /\ SubSeq(s, 1, i) \in Seq(S)
      /\ Len(SubSeq(s, 1, i)) = IF 1 <= i THEN i - 1 + 1 ELSE 0
      /\ \A k \in 1 .. i - 1 + 1 : SubSeq(s, 1, i)[k] = s[1 + k - 1]
  BY <1>1, <1>2, SubSeqProperties
<1>5. /\ SubSeq(s, i + 1, Len(s)) \in Seq(S)
      /\ Len(SubSeq(s, i + 1, Len(s)))
           = IF i + 1 <= Len(s) THEN Len(s) - (i + 1) + 1 ELSE 0
      /\ \A k \in 1 .. Len(s) - (i + 1) + 1 :
           SubSeq(s, i + 1, Len(s))[k] = s[(i + 1) + k - 1]
  BY <1>1, <1>3, SubSeqProperties
<1>. QED
  BY <1>1, <1>4, <1>5

\* Three lists, one after the other.
LEMMA JoinedLists ==
  ASSUME NEW S, NEW s \in Seq(S), NEW e \in S, NEW t \in Seq(S)
  PROVE  /\ s \o <<e>> \o t \in Seq(S)
         /\ Len(s \o <<e>> \o t) = Len(s) + 1 + Len(t)
         /\ \A k \in 1 .. Len(s) : (s \o <<e>> \o t)[k] = s[k]
         /\ (s \o <<e>> \o t)[Len(s) + 1] = e
         /\ \A k \in 1 .. Len(t) : (s \o <<e>> \o t)[Len(s) + 1 + k] = t[k]
<1> DEFINE u == s \o <<e>>
<1>1. /\ u \in Seq(S) /\ Len(u) = Len(s) + 1
      /\ \A k \in 1 .. Len(s) : u[k] = s[k]
      /\ u[Len(s) + 1] = e
  OBVIOUS
<1> HIDE DEF u
<1>2. /\ u \o t \in Seq(S) /\ Len(u \o t) = Len(u) + Len(t)
      /\ \A k \in 1 .. Len(u) : (u \o t)[k] = u[k]
      /\ \A k \in 1 .. Len(t) : (u \o t)[Len(u) + k] = t[k]
  BY <1>1
<1>3. \A k \in 1 .. Len(s) + 1 : (u \o t)[k] = u[k]
  BY <1>1, <1>2
<1>4. Len(s) \in Nat /\ Len(t) \in Nat
  OBVIOUS
<1>5. /\ u \o t \in Seq(S)
      /\ Len(u \o t) = Len(s) + 1 + Len(t)
      /\ \A k \in 1 .. Len(s) : (u \o t)[k] = s[k]
      /\ (u \o t)[Len(s) + 1] = e
      /\ \A k \in 1 .. Len(t) : (u \o t)[Len(s) + 1 + k] = t[k]
  BY <1>1, <1>2, <1>3, <1>4
<1>. QED
  BY <1>5 DEF u

\* What is where after an insertion.
LEMMA InsertedAt ==
  ASSUME NEW S, NEW s \in Seq(S), NEW i \in 1 .. Len(s) + 1, NEW e \in S
  PROVE  /\ InsertAt(s, i, e) \in Seq(S)
         /\ Len(InsertAt(s, i, e)) = Len(s) + 1
         /\ \A k \in 1 .. Len(s) + 1 :
              InsertAt(s, i, e)[k] =
                IF k < i THEN s[k] ELSE IF k = i THEN e ELSE s[k - 1]
<1> DEFINE h == SubSeq(s, 1, i - 1)
           t == SubSeq(s, i, Len(s))
<1>1. i - 1 \in 0 .. Len(s) /\ (i - 1) + 1 = i
  OBVIOUS
<1>2. /\ h \in Seq(S) /\ Len(h) = i - 1
      /\ t \in Seq(S) /\ Len(t) = Len(s) - (i - 1)
      /\ \A k \in 1 .. i - 1 : h[k] = s[k]
      /\ \A k \in 1 .. Len(s) - (i - 1) : t[k] = s[(i - 1) + k]
  BY <1>1, PartsOfList
<1> HIDE DEF h, t
<1>3. /\ h \o <<e>> \o t \in Seq(S)
      /\ Len(h \o <<e>> \o t) = Len(h) + 1 + Len(t)
      /\ \A k \in 1 .. Len(h) : (h \o <<e>> \o t)[k] = h[k]
      /\ (h \o <<e>> \o t)[Len(h) + 1] = e
      /\ \A k \in 1 .. Len(t) : (h \o <<e>> \o t)[Len(h) + 1 + k] = t[k]
  <2>1. h \in Seq(S) /\ t \in Seq(S)
    BY <1>2
  <2>. QED
    BY <2>1, JoinedLists
<1> DEFINE u == h \o <<e>> \o t
<1> HIDE DEF u
<1>4. ASSUME NEW k \in 1 .. Len(s) + 1
      PROVE  u[k] = IF k < i THEN s[k] ELSE IF k = i THEN e ELSE s[k - 1]
  <2>1. CASE k < i
    BY <1>2, <1>3, <2>1 DEF u
  <2>2. CASE k = i
    BY <1>1, <1>2, <1>3, <2>2 DEF u
  <2>3. CASE k > i
    <3>1. k - i \in 1 .. Len(t) /\ Len(h) + 1 + (k - i) = k
      BY <1>2, <2>3
    <3>2. u[k] = t[k - i]
      BY <1>3, <3>1 DEF u
    <3>3. t[k - i] = s[(i - 1) + (k - i)] /\ (i - 1) + (k - i) = k - 1
      BY <1>2, <3>1
    <3>. QED
      BY <2>3, <3>2, <3>3
  <2>. QED
    BY <2>1, <2>2, <2>3
<1>5. InsertAt(s, i, e) = u
  BY DEF InsertAt, h, t, u
<1>6. u \in Seq(S) /\ Len(u) = Len(s) + 1
  BY <1>2, <1>3 DEF u
<1>. QED
  BY <1>4, <1>5, <1>6

\* What is where after a deletion.
LEMMA RemovedAt ==
  ASSUME NEW S, NEW s \in Seq(S), NEW i \in 1 .. Len(s)
  PROVE  /\ RemoveAt(s, i) \in Seq(S)
         /\ Len(RemoveAt(s, i)) = Len(s) - 1
         /\ \A k \in 1 .. Len(s) - 1 :
              RemoveAt(s, i)[k] = IF k < i THEN s[k] ELSE s[k + 1]
<1> DEFINE h == SubSeq(s, 1, i - 1)
           t == SubSeq(s, i + 1, Len(s))
<1>1. i - 1 \in 0 .. Len(s) /\ i \in 0 .. Len(s)
  OBVIOUS
<1>2. h \in Seq(S) /\ Len(h) = i - 1 /\ \A k \in 1 .. i - 1 : h[k] = s[k]
  BY <1>1, PartsOfList
<1>3. /\ t \in Seq(S) /\ Len(t) = Len(s) - i
      /\ \A k \in 1 .. Len(s) - i : t[k] = s[i + k]
  BY <1>1, PartsOfList
<1> HIDE DEF h, t
<1> DEFINE u == h \o t
<1>4. /\ u \in Seq(S) /\ Len(u) = Len(h) + Len(t)
      /\ \A k \in 1 .. Len(h) : u[k] = h[k]
      /\ \A k \in 1 .. Len(t) : u[Len(h) + k] = t[k]
  <2>1. h \in Seq(S) /\ t \in Seq(S)
    BY <1>2, <1>3
  <2>. QED
    BY <2>1
<1> HIDE DEF u
<1>5. ASSUME NEW k \in 1 .. Len(s) - 1
      PROVE  u[k] = IF k < i THEN s[k] ELSE s[k + 1]
  <2>1. CASE k < i
    BY <1>2, <1>4, <2>1
  <2>2. CASE k >= i
    <3>1. k - (i - 1) \in 1 .. Len(t) /\ Len(h) + (k - (i - 1)) = k
      BY <1>2, <1>3, <2>2
    <3>2. u[k] = t[k - (i - 1)]
      BY <1>4, <3>1
    <3>3. t[k - (i - 1)] = s[i + (k - (i - 1))] /\ i + (k - (i - 1)) = k + 1
      BY <1>3, <3>1
    <3>. QED
      BY <2>2, <3>2, <3>3
  <2>. QED
    BY <2>1, <2>2
<1>6. RemoveAt(s, i) = u
  BY DEF RemoveAt, h, t, u
<1>7. Len(u) = Len(s) - 1
  BY <1>2, <1>3, <1>4
<1>. QED
  BY <1>4, <1>5, <1>6, <1>7

-----------------------------------------------------------------------------
(***************************************************************************)
(* mergepfd and mergepfd_sorted keep lists sorted.                         *)
(***************************************************************************)

\* Terms with denominators of D and a numerator that is not 0, and the lists of
\* them in ascending order.
Term(D) == [num : Int \ {0}, den : D]

Sorted(D) == {list \in Seq(Term(D)) : InOrder(list)}

\* The entries of a sorted list, and that they are in order.
LEMMA SortedMeans ==
  ASSUME NEW D \in SUBSET Denominator, NEW list \in Sorted(D)
  PROVE  /\ list \in Seq(Term(D)) /\ Len(list) \in Nat
         /\ \A i \in 1 .. Len(list) :
              list[i] \in Term(D) /\ list[i].den \in D /\ list[i].den \in Denominator
         /\ \A i, k \in 1 .. Len(list) :
              i < k => IsDpSmaller(list[i].den, list[k].den)
<1>1. list \in Seq(Term(D)) /\ InOrder(list)
  BY DEF Sorted
<1>2. ASSUME NEW i \in 1 .. Len(list)
      PROVE  list[i] \in Term(D) /\ list[i].den \in D /\ list[i].den \in Denominator
  <2>1. list[i] \in Term(D)
    BY <1>1
  <2>. QED
    BY <2>1 DEF Term
<1>3. Len(list) \in Nat
  BY <1>1
<1>. QED
  BY <1>1, <1>2, <1>3 DEF InOrder

\* The empty list is sorted.
LEMMA EmptyIsSorted == \A D : <<>> \in Sorted(D)
BY DEF Sorted, InOrder

\* Terms are entries of the lists that the procedures take.
LEMMA TermIsEntry ==
  ASSUME NEW D \in SUBSET Denominator
  PROVE  Term(D) \subseteq Entry
<1>1. ASSUME NEW d \in Denominator PROVE d \in [ind : Seq(Nat), exp : Seq(Nat)]
  <2>1. d.exp \in Seq(Nat \ {0})
    BY DEF Denominator
  <2>2. d.exp \in Seq(Nat)
    BY <2>1
  <2>. QED
    BY <2>2 DEF Denominator
<1>. QED
  BY <1>1 DEF Term, Entry

\* A list of terms is one of entries, as mergepfd takes it.
LEMMA ListOfEntries ==
  ASSUME NEW D \in SUBSET Denominator, NEW list \in Seq(Term(D))
  PROVE  list \in Seq(Entry)
<1>1. \A t \in Term(D) : t \in Entry
  BY TermIsEntry
<1>2. \A i \in 1 .. Len(list) : list[i] \in Entry
  BY <1>1
<1>. QED
  BY <1>2

\* The range that a turn of the binary search leaves.
Halved(list, entry, r) ==
  LET m == (r.a + r.b) \div 2
  IN  IF r.b <= r.a THEN r
      ELSE IF IsDpSmaller(list[m].den, entry.den) THEN [r EXCEPT !.a = m + 1]
      ELSE [r EXCEPT !.b = m]

\* The entries before the range are smaller, the one at its end is not, unless it
\* is the last one.
Encloses(list, entry, r) ==
  /\ r.a \in 1 .. Len(list) /\ r.b \in 1 .. Len(list) /\ r.a <= r.b
  /\ \A k \in 1 .. r.a - 1 : IsDpSmaller(list[k].den, entry.den)
  /\ r.b < Len(list) => ~IsDpSmaller(list[r.b].den, entry.den)

\* A turn of the binary search keeps the place of the entry between a and b,
\* and brings these closer until they meet.
LEMMA HalvedEncloses ==
  ASSUME NEW D \in SUBSET Denominator, NEW list \in Sorted(D),
         NEW entry, entry.den \in Denominator,
         NEW r \in [a : Nat, b : Nat], Encloses(list, entry, r)
  PROVE  /\ Halved(list, entry, r) \in [a : Nat, b : Nat]
         /\ Encloses(list, entry, Halved(list, entry, r))
         /\ r.a < r.b =>
              Halved(list, entry, r).b - Halved(list, entry, r).a < r.b - r.a
         /\ r.a = r.b => Halved(list, entry, r) = r
<1> DEFINE n == Len(list)
           m == (r.a + r.b) \div 2
           h == Halved(list, entry, r)
<1>0. /\ r.a \in 1 .. n /\ r.b \in 1 .. n /\ r.a <= r.b /\ n \in Nat
      /\ \A k \in 1 .. r.a - 1 : IsDpSmaller(list[k].den, entry.den)
      /\ r.b < n => ~IsDpSmaller(list[r.b].den, entry.den)
  BY SortedMeans DEF Encloses
<1>1. CASE r.b <= r.a
  <2>1. h = r
    BY <1>1 DEF Halved
  <2>. QED
    BY <1>0, <1>1, <2>1
<1>2. CASE r.a < r.b
  <2>1. m \in r.a .. r.b - 1
    BY <1>0, <1>2
  <2>2. m \in 1 .. n /\ m + 1 \in 1 .. n /\ m < n
    BY <1>0, <2>1
  <2> HIDE DEF m
  <2>3. CASE IsDpSmaller(list[m].den, entry.den)
    <3>1. h = [a |-> m + 1, b |-> r.b]
      BY <1>2, <2>3 DEF Halved, m
    <3>2. ASSUME NEW k \in 1 .. m PROVE IsDpSmaller(list[k].den, entry.den)
      <4>1. k \in 1 .. n /\ (k < m \/ k = m)
        BY <2>2
      <4>2. list[k].den \in Denominator /\ list[m].den \in Denominator
        BY <2>2, <4>1, SortedMeans
      <4>3. k < m => IsDpSmaller(list[k].den, list[m].den)
        BY <2>2, <4>1, SortedMeans
      <4>4. k < m => IsDpSmaller(list[k].den, entry.den)
        BY <2>3, <4>2, <4>3, SmallerIsTransitive
      <4>. QED
        BY <2>3, <4>1, <4>4
    <3>3. (m + 1) - 1 = m /\ m + 1 <= r.b
      BY <1>0, <2>1
    <3>4. h \in [a : Nat, b : Nat] /\ h.a = m + 1 /\ h.b = r.b
      BY <1>0, <2>2, <3>1
    <3>5. Encloses(list, entry, h)
      <4> HIDE DEF h
      <4>. QED
        BY <1>0, <2>2, <3>2, <3>3, <3>4 DEF Encloses
    <3>6. h.b - h.a < r.b - r.a
      <4> HIDE DEF h
      <4>. QED
        BY <1>0, <2>1, <3>4
    <3>. QED
      BY <1>2, <3>4, <3>5, <3>6
  <2>4. CASE ~IsDpSmaller(list[m].den, entry.den)
    <3>1. h = [a |-> r.a, b |-> m]
      BY <1>2, <2>4 DEF Halved, m
    <3>2. h \in [a : Nat, b : Nat] /\ h.a = r.a /\ h.b = m
      BY <1>0, <2>2, <3>1
    <3>3. Encloses(list, entry, h)
      <4> HIDE DEF h
      <4>. QED
        BY <1>0, <2>1, <2>2, <2>4, <3>2 DEF Encloses
    <3>4. h.b - h.a < r.b - r.a
      <4> HIDE DEF h
      <4>. QED
        BY <1>0, <2>1, <3>2
    <3>. QED
      BY <1>2, <3>2, <3>3, <3>4
  <2>. QED
    BY <2>3, <2>4
<1>. QED
  BY <1>0, <1>1, <1>2

\* The binary search of mergepfd ends, and finds the first entry that is not
\* smaller, or the last one.
LEMMA SearchFinds ==
  ASSUME NEW D \in SUBSET Denominator, NEW list \in Sorted(D), list # <<>>,
         NEW entry, entry.den \in Denominator
  PROVE  /\ SearchPlace(list, entry) \in 1 .. Len(list)
         /\ \A k \in 1 .. SearchPlace(list, entry) - 1 :
              IsDpSmaller(list[k].den, entry.den)
         /\ SearchPlace(list, entry) < Len(list) =>
              ~IsDpSmaller(list[SearchPlace(list, entry)].den, entry.den)
<1> DEFINE n == Len(list)
           A == [a : Nat, b : Nat]
           all == [a |-> 1, b |-> n]
           halved == [r \in A |-> Halved(list, entry, r)]
           Turn(f, k) == IF k = 0 THEN all ELSE halved[f[k - 1]]
           IsLoop(f) == f = [k \in 0 .. n |-> Turn(f, k)]
           s == CHOOSE f : IsLoop(f)
           g == [p \in A \X (1 .. n) |-> Halved(list, entry, p[1])]
<1>0. n \in Nat /\ n > 0 /\ all \in A
  BY SortedMeans
<1>1. SearchPlace(list, entry) = s[n].a
  BY DEF SearchPlace, Halved
<1>2. ASSUME NEW r \in A PROVE Halved(list, entry, r) \in A
  <2>1. (r.a + r.b) \div 2 \in Nat
    OBVIOUS
  <2>. QED
    BY <2>1 DEF Halved
<1>3. PICK f \in [0 .. n -> A] : Loop(f, all, g, n)
  <2>1. g \in [A \X (1 .. n) -> A]
    BY <1>2
  <2> HIDE DEF g, n, all, A
  <2>. QED
    BY <1>0, <2>1, LoopExists, Zenon
<1>4. IsLoop(f)
  <2>1. ASSUME NEW k \in 1 .. n PROVE f[k] = halved[f[k - 1]]
    <3>0. k - 1 \in 0 .. n
      BY <1>0
    <3> HIDE DEF A, n, all, g
    <3>1. f[k - 1] \in A
      BY <1>3, <3>0
    <3>2. <<f[k - 1], k>> \in A \X (1 .. n)
      BY <3>1
    <3>3. f[k] = g[<<f[k - 1], k>>]
      BY <1>3 DEF Loop
    <3>. QED
      BY <3>1, <3>2, <3>3 DEF g
  <2>2. f[0] = all
    BY <1>3 DEF Loop
  <2> HIDE DEF n, all, halved, A
  <2>3. \A k \in 0 .. n : f[k] = Turn(f, k)
    BY <2>1, <2>2, <1>0
  <2> HIDE DEF Turn
  <2>. QED
    BY <1>3, <2>3
<1>5. IsLoop(s)
  <2> HIDE DEF IsLoop
  <2>. QED
    BY <1>4
<1>6. s[0] = all /\ \A k \in 1 .. n : s[k] = halved[s[k - 1]]
  <2> HIDE DEF s, all, halved
  <2>1. \A k \in 0 .. n : s[k] = Turn(s, k)
    BY <1>5
  <2>. QED
    BY <1>0, <2>1
<1> HIDE DEF s
<1> DEFINE S == {k \in 0 .. n : /\ s[k] \in A /\ Encloses(list, entry, s[k])
                                /\ \/ s[k].b - s[k].a <= (n - 1) - k
                                   \/ s[k].a = s[k].b}
<1>7. 0 \in S
  <2>1. s[0].a = 1 /\ s[0].b = n /\ s[0] \in A
    BY <1>0, <1>6
  <2>2. Encloses(list, entry, s[0])
    BY <1>0, <2>1 DEF Encloses
  <2>. QED
    BY <1>0, <2>1, <2>2
<1>8. ASSUME NEW k \in 1 .. n, k - 1 \in S PROVE k \in S
  <2> DEFINE r == s[k - 1]
  <2>1. /\ r \in A /\ Encloses(list, entry, r)
        /\ r.b - r.a <= (n - 1) - (k - 1) \/ r.a = r.b
    BY <1>8
  <2>2. s[k] = Halved(list, entry, r)
    BY <1>6, <2>1
  <2> HIDE DEF r
  <2>3. /\ s[k] \in A /\ Encloses(list, entry, s[k])
        /\ r.a < r.b => s[k].b - s[k].a < r.b - r.a
        /\ r.a = r.b => s[k] = r
    BY <2>1, <2>2, HalvedEncloses
  <2>4. r.a \in Nat /\ r.b \in Nat /\ r.a <= r.b /\ s[k].a \in Nat /\ s[k].b \in Nat
    BY <2>1, <2>3 DEF Encloses
  <2>5. s[k].b - s[k].a <= (n - 1) - k \/ s[k].a = s[k].b
    BY <1>0, <2>1, <2>3, <2>4
  <2>. QED
    BY <1>0, <2>3, <2>5
<1>9. 0 .. n \subseteq S
  <2> HIDE DEF S, n
  <2>. QED
    BY <1>0, <1>7, <1>8, InductionUpTo, Zenon
<1>10. n \in S
  BY <1>0, <1>9
<1>11. /\ s[n].a \in 1 .. n
       /\ \A k \in 1 .. s[n].a - 1 : IsDpSmaller(list[k].den, entry.den)
       /\ s[n].a < n => ~IsDpSmaller(list[s[n].a].den, entry.den)
  <2>1. /\ s[n] \in A /\ Encloses(list, entry, s[n])
        /\ s[n].b - s[n].a <= (n - 1) - n \/ s[n].a = s[n].b
    BY <1>10
  <2>2. s[n].a = s[n].b
    BY <1>0, <2>1 DEF Encloses
  <2>. QED
    BY <2>1, <2>2 DEF Encloses
<1>. QED
  BY <1>1, <1>11

\* Inserting between the smaller and the larger entries keeps a list sorted.
LEMMA InsertedIsSorted ==
  ASSUME NEW D \in SUBSET Denominator, NEW list \in Sorted(D), NEW entry \in Term(D),
         NEW a \in 1 .. Len(list) + 1,
         \A k \in 1 .. a - 1 : IsDpSmaller(list[k].den, entry.den),
         \A k \in a .. Len(list) : IsDpSmaller(entry.den, list[k].den)
  PROVE  InsertAt(list, a, entry) \in Sorted(D)
<1> DEFINE u == InsertAt(list, a, entry)
           n == Len(list)
<1>0. n \in Nat /\ list \in Seq(Term(D))
  BY SortedMeans
<1>1. /\ u \in Seq(Term(D)) /\ Len(u) = n + 1
      /\ \A k \in 1 .. n + 1 :
           u[k] = IF k < a THEN list[k] ELSE IF k = a THEN entry ELSE list[k - 1]
  <2> DEFINE T == Term(D)
  <2>1. list \in Seq(T) /\ entry \in T /\ a \in 1 .. Len(list) + 1
    BY <1>0
  <2> HIDE DEF T
  <2>2. /\ InsertAt(list, a, entry) \in Seq(T)
        /\ Len(InsertAt(list, a, entry)) = Len(list) + 1
        /\ \A k \in 1 .. Len(list) + 1 :
             InsertAt(list, a, entry)[k] =
               IF k < a THEN list[k] ELSE IF k = a THEN entry ELSE list[k - 1]
    BY <2>1, InsertedAt
  <2>. QED
    BY <2>2 DEF T
<1> HIDE DEF u
<1>2. ASSUME NEW i \in 1 .. Len(u), NEW k \in 1 .. Len(u), i < k
      PROVE  IsDpSmaller(u[i].den, u[k].den)
  <2>0. i \in 1 .. n + 1 /\ k \in 1 .. n + 1
    BY <1>1
  <2>1. CASE k < a
    <3>1. u[i] = list[i] /\ u[k] = list[k] /\ i \in 1 .. n /\ k \in 1 .. n
      BY <1>1, <1>2, <2>0, <2>1, <1>0
    <3>. QED
      BY <1>2, <3>1, SortedMeans
  <2>2. CASE k = a
    <3>1. u[i] = list[i] /\ u[k] = entry /\ i \in 1 .. a - 1
      BY <1>1, <1>2, <2>0, <2>2, <1>0
    <3>. QED
      BY <3>1
  <2>3. CASE i = a
    <3>1. u[i] = entry /\ u[k] = list[k - 1] /\ k - 1 \in a .. n
      BY <1>1, <1>2, <2>0, <2>3, <1>0
    <3>. QED
      BY <3>1
  <2>4. CASE i < a /\ a < k
    <3>1. u[i] = list[i] /\ u[k] = list[k - 1]
      BY <1>1, <1>2, <2>0, <2>4, <1>0
    <3>2. i \in 1 .. n /\ k - 1 \in 1 .. n /\ i < k - 1
      BY <1>2, <2>0, <2>4, <1>0
    <3>. QED
      BY <3>1, <3>2, SortedMeans
  <2>5. CASE a < i
    <3>1. u[i] = list[i - 1] /\ u[k] = list[k - 1]
      BY <1>1, <1>2, <2>0, <2>5, <1>0
    <3>2. i - 1 \in 1 .. n /\ k - 1 \in 1 .. n /\ i - 1 < k - 1
      BY <1>2, <2>0, <2>5, <1>0
    <3>. QED
      BY <3>1, <3>2, SortedMeans
  <2>. QED
    BY <1>2, <2>0, <2>1, <2>2, <2>3, <2>4, <2>5
<1>3. u \in Sorted(D)
  BY <1>1, <1>2 DEF Sorted, InOrder
<1>. QED
  BY <1>3 DEF u

\* Deleting an entry keeps a list sorted.
LEMMA RemovedIsSorted ==
  ASSUME NEW D \in SUBSET Denominator, NEW list \in Sorted(D),
         NEW a \in 1 .. Len(list)
  PROVE  RemoveAt(list, a) \in Sorted(D)
<1> DEFINE u == RemoveAt(list, a)
           n == Len(list)
<1>0. n \in Nat /\ list \in Seq(Term(D))
  BY SortedMeans
<1>1. /\ u \in Seq(Term(D)) /\ Len(u) = n - 1
      /\ \A k \in 1 .. n - 1 : u[k] = IF k < a THEN list[k] ELSE list[k + 1]
  BY <1>0, RemovedAt
<1> HIDE DEF u
<1>2. ASSUME NEW i \in 1 .. Len(u), NEW k \in 1 .. Len(u), i < k
      PROVE  IsDpSmaller(u[i].den, u[k].den)
  <2> DEFINE At(j) == IF j < a THEN j ELSE j + 1
  <2>1. /\ At(i) \in 1 .. n /\ At(k) \in 1 .. n /\ At(i) < At(k)
        /\ u[i] = list[At(i)] /\ u[k] = list[At(k)]
    BY <1>0, <1>1, <1>2
  <2> HIDE DEF At
  <2>. QED
    BY <2>1, SortedMeans
<1>3. u \in Sorted(D)
  BY <1>1, <1>2 DEF Sorted, InOrder
<1>. QED
  BY <1>3 DEF u

\* So does a change of a numerator.
LEMMA ReplacedIsSorted ==
  ASSUME NEW D \in SUBSET Denominator, NEW list \in Sorted(D), NEW entry \in Term(D),
         NEW a \in 1 .. Len(list), entry.den = list[a].den
  PROVE  ReplaceAt(list, a, entry) \in Sorted(D)
<1> DEFINE u == ReplaceAt(list, a, entry)
           n == Len(list)
<1>0. n \in Nat /\ list \in Seq(Term(D))
  BY SortedMeans
<1>1. /\ u \in Seq(Term(D)) /\ Len(u) = n
      /\ \A k \in 1 .. n : u[k] = IF k = a THEN entry ELSE list[k]
  BY <1>0 DEF ReplaceAt
<1> HIDE DEF u
<1>2. \A k \in 1 .. n : u[k].den = list[k].den
  BY <1>1
<1>3. ASSUME NEW i \in 1 .. Len(u), NEW k \in 1 .. Len(u), i < k
      PROVE  IsDpSmaller(u[i].den, u[k].den)
  <2>1. i \in 1 .. n /\ k \in 1 .. n
    BY <1>1
  <2>2. u[i].den = list[i].den /\ u[k].den = list[k].den
    BY <1>2, <2>1
  <2>3. IsDpSmaller(list[i].den, list[k].den)
    BY <1>3, <2>1, SortedMeans
  <2>. QED
    BY <2>2, <2>3
<1>4. u \in Sorted(D)
  BY <1>1, <1>3 DEF Sorted, InOrder
<1>. QED
  BY <1>4 DEF u

\* The sum of two terms with the same denominator.
LEMMA SumOfTerms ==
  ASSUME NEW D, NEW x \in Term(D), NEW y \in Term(D), x.num + y.num # 0
  PROVE  /\ [x EXCEPT !.num = @ + y.num] \in Term(D)
         /\ [x EXCEPT !.num = @ + y.num].den = x.den
BY DEF Term

\* One turn of mergepfd keeps the list sorted: binary search finds the place where
\* the entry belongs.
LEMMA InsertTermSorts ==
  ASSUME NEW D \in SUBSET Denominator, NEW list \in Sorted(D), NEW entry \in Term(D)
  PROVE  InsertTerm[<<list, entry>>] \in Sorted(D)
<1> DEFINE a == SearchPlace(list, entry)
           n == Len(list)
<1>0. /\ n \in Nat /\ list \in Seq(Term(D)) /\ list \in Seq(Entry) /\ entry \in Entry
      /\ entry.den \in D /\ entry.den \in Denominator
  <2>1. entry.den \in D
    BY DEF Term
  <2>. QED
    BY <2>1, SortedMeans, ListOfEntries, TermIsEntry
<1>1. <<list, entry>> \in Seq(Entry) \X Entry
  BY <1>0
<1>2. InsertTerm[<<list, entry>>] =
        IF list = <<>> THEN <<entry>>
        ELSE IF IsDpSmaller(list[a].den, entry.den) THEN InsertAt(list, a + 1, entry)
        ELSE IF list[a].den = entry.den THEN AddedAt(list, a, entry)
        ELSE InsertAt(list, a, entry)
  BY <1>1 DEF InsertTerm
<1>3. CASE list = <<>>
  <2>1. <<entry>> \in Seq(Term(D)) /\ Len(<<entry>>) = 1
    OBVIOUS
  <2>2. <<entry>> \in Sorted(D)
    BY <2>1 DEF Sorted, InOrder
  <2>. QED
    BY <1>2, <1>3, <2>2
<1>4. CASE list # <<>>
  <2>1. /\ a \in 1 .. n
        /\ \A k \in 1 .. a - 1 : IsDpSmaller(list[k].den, entry.den)
        /\ a < n => ~IsDpSmaller(list[a].den, entry.den)
    BY <1>0, <1>4, SearchFinds
  <2> HIDE DEF a
  <2>2. list[a] \in Term(D) /\ list[a].den \in Denominator
    BY <2>1, SortedMeans
  <2>3. CASE IsDpSmaller(list[a].den, entry.den)
    <3>1. a = n
      BY <1>0, <2>1, <2>3
    <3>2. \A k \in 1 .. (a + 1) - 1 : IsDpSmaller(list[k].den, entry.den)
      BY <2>1, <2>3
    <3>3. a + 1 \in 1 .. n + 1 /\ \A k \in a + 1 .. n : FALSE
      BY <1>0, <3>1
    <3>4. InsertAt(list, a + 1, entry) \in Sorted(D)
      BY <3>2, <3>3, InsertedIsSorted
    <3>. QED
      BY <1>2, <1>4, <2>3, <3>4
  <2>4. CASE /\ ~IsDpSmaller(list[a].den, entry.den)
             /\ list[a].den = entry.den
    <3>1. CASE list[a].num + entry.num = 0
      <4>1. RemoveAt(list, a) \in Sorted(D)
        BY <2>1, RemovedIsSorted
      <4>. QED
        BY <1>2, <1>4, <2>4, <3>1, <4>1 DEF AddedAt
    <3>2. CASE list[a].num + entry.num # 0
      <4> DEFINE t == [list[a] EXCEPT !.num = @ + entry.num]
      <4>1. t \in Term(D) /\ t.den = list[a].den
        BY <2>2, <3>2, SumOfTerms
      <4> HIDE DEF t
      <4>2. ReplaceAt(list, a, t) \in Sorted(D)
        BY <2>1, <4>1, ReplacedIsSorted
      <4>. QED
        BY <1>2, <1>4, <2>4, <3>2, <4>2 DEF AddedAt, t
    <3>. QED
      BY <3>1, <3>2
  <2>5. CASE /\ ~IsDpSmaller(list[a].den, entry.den)
             /\ list[a].den # entry.den
    <3>1. IsDpSmaller(entry.den, list[a].den)
      BY <1>0, <2>2, <2>5, SmallerIsTotal
    <3>2. ASSUME NEW k \in a .. n PROVE IsDpSmaller(entry.den, list[k].den)
      <4>1. k \in 1 .. n /\ (a < k \/ k = a)
        BY <2>1
      <4>2. list[k].den \in Denominator /\ (a < k => IsDpSmaller(list[a].den, list[k].den))
        BY <2>1, <4>1, SortedMeans
      <4>3. a < k => IsDpSmaller(entry.den, list[k].den)
        BY <1>0, <2>2, <3>1, <4>2, SmallerIsTransitive
      <4>. QED
        BY <3>1, <4>1, <4>3
    <3>3. a \in 1 .. n + 1
      BY <1>0, <2>1
    <3>4. InsertAt(list, a, entry) \in Sorted(D)
      BY <2>1, <3>2, <3>3, InsertedIsSorted
    <3>. QED
      BY <1>2, <1>4, <2>5, <3>4
  <2>. QED
    BY <2>3, <2>4, <2>5
<1>. QED
  BY <1>3, <1>4

\* The lists that mergepfd goes through.
Inserts(dec1, dec2, f) ==
  f[0] = dec1 /\ \A i \in 1 .. Len(dec2) : f[i] = InsertTerm[<<f[i - 1], dec2[i]>>]

\* mergepfd inserts the terms of dec2 one by one, and stays in any set that an
\* insertion stays in.
LEMMA MergePfdInserts ==
  ASSUME NEW A, NEW dec1 \in A, NEW dec2, Len(dec2) \in Nat,
         \A x \in A : \A i \in 1 .. Len(dec2) : InsertTerm[<<x, dec2[i]>>] \in A
  PROVE  \E f \in [0 .. Len(dec2) -> A] :
           Inserts(dec1, dec2, f) /\ MergePfd(dec1, dec2) = f[Len(dec2)]
<1> DEFINE n == Len(dec2)
           Turn(f, i) == IF i = 0 THEN dec1 ELSE InsertTerm[<<f[i - 1], dec2[i]>>]
           IsLoop(f) == f = [i \in 0 .. n |-> Turn(f, i)]
           s == CHOOSE f : IsLoop(f)
           g == [p \in A \X (1 .. n) |-> InsertTerm[<<p[1], dec2[p[2]]>>]]
<1>1. MergePfd(dec1, dec2) = s[n]
  BY DEF MergePfd
<1>2. PICK f \in [0 .. n -> A] : Loop(f, dec1, g, n)
  <2>1. g \in [A \X (1 .. n) -> A]
    <3>1. ASSUME NEW p \in A \X (1 .. n) PROVE InsertTerm[<<p[1], dec2[p[2]]>>] \in A
      <4>1. p[1] \in A /\ p[2] \in 1 .. n
        OBVIOUS
      <4>. QED
        BY <4>1
    <3> HIDE DEF n
    <3>. QED
      BY <3>1
  <2>2. n \in Nat
    OBVIOUS
  <2> HIDE DEF g, n
  <2>. QED
    BY <2>1, <2>2, LoopExists, Zenon
<1>3. IsLoop(f)
  <2>1. ASSUME NEW k \in 1 .. n PROVE f[k] = InsertTerm[<<f[k - 1], dec2[k]>>]
    <3>0. k - 1 \in 0 .. n
      OBVIOUS
    <3> HIDE DEF n, g
    <3>1. f[k - 1] \in A
      BY <1>2, <3>0
    <3>2. <<f[k - 1], k>> \in A \X (1 .. n)
      BY <3>1
    <3>3. f[k] = g[<<f[k - 1], k>>]
      BY <1>2 DEF Loop
    <3>. QED
      BY <3>2, <3>3 DEF g
  <2>2. f[0] = dec1
    BY <1>2 DEF Loop
  <2>3. \A k \in 0 .. n : f[k] = Turn(f, k)
    <3>1. \A k \in 0 .. n : k # 0 => k \in 1 .. n
      OBVIOUS
    <3> HIDE DEF n
    <3>. QED
      BY <2>1, <2>2, <3>1
  <2> HIDE DEF Turn, n
  <2>. QED
    BY <1>2, <2>3
<1>4. IsLoop(s)
  <2> HIDE DEF IsLoop
  <2>. QED
    BY <1>3
<1>5. s[0] = dec1 /\ \A i \in 1 .. n : s[i] = InsertTerm[<<s[i - 1], dec2[i]>>]
  <2> HIDE DEF s
  <2>1. \A k \in 0 .. n : s[k] = Turn(s, k)
    BY <1>4
  <2>2. 0 \in 0 .. n /\ \A i \in 1 .. n : i \in 0 .. n /\ i # 0
    OBVIOUS
  <2> HIDE DEF n
  <2>. QED
    BY <2>1, <2>2
<1>6. \A i \in 0 .. n : s[i] \in A
  <2> HIDE DEF s
  <2>1. \A i \in 1 .. n : s[i - 1] \in A => s[i] \in A
    BY <1>5
  <2>2. n \in Nat /\ s[0] \in A
    BY <1>5
  <2> HIDE DEF n
  <2>. QED
    BY <2>1, <2>2, LoopKeeps, Zenon
<1>7. s \in [0 .. n -> A]
  <2>1. s = [i \in 0 .. n |-> s[i]]
    BY <1>4
  <2> HIDE DEF s
  <2>. QED
    BY <1>6, <2>1
<1>. QED
  BY <1>1, <1>5, <1>7 DEF Inserts

\* mergepfd: whatever the order of the second list is, the first stays sorted,
\* has every denominator once and no numerator 0.
THEOREM MergePfdSorts ==
  ASSUME NEW D \in SUBSET Denominator,
         NEW dec1 \in Sorted(D), NEW dec2 \in Seq(Term(D))
  PROVE  MergePfd(dec1, dec2) \in Sorted(D)
<1>1. Len(dec2) \in Nat /\ \A i \in 1 .. Len(dec2) : dec2[i] \in Term(D)
  OBVIOUS
<1>2. \A x \in Sorted(D) : \A i \in 1 .. Len(dec2) :
        InsertTerm[<<x, dec2[i]>>] \in Sorted(D)
  BY <1>1, InsertTermSorts
<1>3. PICK f \in [0 .. Len(dec2) -> Sorted(D)] :
        Inserts(dec1, dec2, f) /\ MergePfd(dec1, dec2) = f[Len(dec2)]
  BY <1>1, <1>2, MergePfdInserts
<1>4. Len(dec2) \in 0 .. Len(dec2)
  BY <1>1
<1>. QED
  BY <1>3, <1>4

\* What a turn of mergepfd_sorted does.
MergeTurn(dec1, dec2, s) ==
  LET x == dec1[s.i1]
      y == dec2[s.i2]
      Take(list, k1, k2) ==
        [i1 |-> s.i1 + k1, i2 |-> s.i2 + k2, merged |-> s.merged \o list]
  IN  IF s.i1 > Len(dec1)
        THEN IF s.i2 > Len(dec2) THEN s ELSE Take(<<y>>, 0, 1)
      ELSE IF s.i2 > Len(dec2) \/ IsDpSmaller(x.den, y.den) THEN Take(<<x>>, 1, 0)
      ELSE IF x.den = y.den THEN Take(SumOfTwo(x, y), 1, 1)
      ELSE Take(<<y>>, 0, 1)

MergeState == [i1 : Nat, i2 : Nat, merged : Seq(Entry)]
MergeStart == [i1 |-> 1, i2 |-> 1, merged |-> <<>>]

Merges(dec1, dec2, f, n) ==
  f[0] = MergeStart /\ \A k \in 1 .. n : f[k] = MergeTurn(dec1, dec2, f[k - 1])

\* The same for mergepfd_sorted and its turns.
LEMMA MergePfdSortedMerges ==
  ASSUME NEW dec1, NEW dec2, Len(dec1) \in Nat, Len(dec2) \in Nat,
         NEW A \in SUBSET MergeState, MergeStart \in A,
         \A x \in A : MergeTurn(dec1, dec2, x) \in A
  PROVE  \E f \in [0 .. Len(dec1) + Len(dec2) -> A] :
           /\ Merges(dec1, dec2, f, Len(dec1) + Len(dec2))
           /\ MergePfdSorted(dec1, dec2) = f[Len(dec1) + Len(dec2)].merged
<1> DEFINE n == Len(dec1) + Len(dec2)
           turn == [x \in MergeState |-> MergeTurn(dec1, dec2, x)]
           Turn(f, k) == IF k = 0 THEN MergeStart ELSE turn[f[k - 1]]
           IsLoop(f) == f = [k \in 0 .. n |-> Turn(f, k)]
           s == CHOOSE f : IsLoop(f)
           g == [p \in A \X (1 .. n) |-> MergeTurn(dec1, dec2, p[1])]
<1>0. n \in Nat
  OBVIOUS
<1>1. MergePfdSorted(dec1, dec2) = s[n].merged
  BY DEF MergePfdSorted, MergeTurn, MergeState, MergeStart
<1>2. PICK f \in [0 .. n -> A] : Loop(f, MergeStart, g, n)
  <2>1. g \in [A \X (1 .. n) -> A]
    <3>1. ASSUME NEW p \in A \X (1 .. n) PROVE MergeTurn(dec1, dec2, p[1]) \in A
      OBVIOUS
    <3> HIDE DEF n
    <3>. QED
      BY <3>1
  <2> HIDE DEF g, n
  <2>. QED
    BY <1>0, <2>1, LoopExists, Zenon
<1> HIDE DEF n
<1>3. IsLoop(f)
  <2>1. ASSUME NEW k \in 1 .. n PROVE f[k] = turn[f[k - 1]]
    <3>0. k - 1 \in 0 .. n
      BY <1>0
    <3> HIDE DEF g
    <3>1. f[k - 1] \in A /\ f[k - 1] \in MergeState
      BY <1>2, <3>0
    <3>2. <<f[k - 1], k>> \in A \X (1 .. n)
      BY <3>1
    <3>3. f[k] = g[<<f[k - 1], k>>]
      BY <1>2 DEF Loop
    <3>. QED
      BY <3>1, <3>2, <3>3 DEF g
  <2>2. f[0] = MergeStart
    BY <1>2 DEF Loop
  <2>3. \A k \in 0 .. n : f[k] = Turn(f, k)
    <3>1. \A k \in 0 .. n : k # 0 => k \in 1 .. n
      BY <1>0
    <3> HIDE DEF turn
    <3>. QED
      BY <2>1, <2>2, <3>1
  <2> HIDE DEF Turn
  <2>. QED
    BY <1>2, <2>3
<1>4. IsLoop(s)
  <2> HIDE DEF IsLoop
  <2>. QED
    BY <1>3
<1>5. s[0] = MergeStart /\ \A k \in 1 .. n : s[k] = turn[s[k - 1]]
  <2> HIDE DEF s, turn
  <2>1. \A k \in 0 .. n : s[k] = Turn(s, k)
    BY <1>4
  <2>. QED
    BY <1>0, <2>1
<1>6. \A k \in 1 .. n : s[k - 1] \in A => s[k] = MergeTurn(dec1, dec2, s[k - 1])
  <2> HIDE DEF s
  <2>. QED
    BY <1>5
<1>7. \A k \in 0 .. n : s[k] \in A
  <2> HIDE DEF s
  <2>1. \A k \in 1 .. n : s[k - 1] \in A => s[k] \in A
    BY <1>6
  <2>2. s[0] \in A
    BY <1>5
  <2>. QED
    BY <1>0, <2>1, <2>2, LoopKeeps, Zenon
<1>8. s \in [0 .. n -> A]
  <2>1. s = [k \in 0 .. n |-> s[k]]
    BY <1>4
  <2> HIDE DEF s
  <2>. QED
    BY <1>7, <2>1
<1>9. Merges(dec1, dec2, s, n)
  <2> HIDE DEF s
  <2>1. ASSUME NEW k \in 1 .. n PROVE s[k] = MergeTurn(dec1, dec2, s[k - 1])
    <3>1. k - 1 \in 0 .. n
      BY <1>0
    <3>. QED
      BY <1>6, <1>7, <3>1
  <2>. QED
    BY <1>5, <2>1 DEF Merges
<1> HIDE DEF s
<1>. QED
  BY <1>1, <1>8, <1>9 DEF n

\* All entries of a list are smaller than those of another from i on.
Below(list, rest, i) ==
  \A k \in 1 .. Len(list), j \in i .. Len(rest) : IsDpSmaller(list[k].den, rest[j].den)

\* Appending an entry that is larger than all of a list keeps it sorted, and
\* below what the entry is below.
LEMMA AppendedIsSorted ==
  ASSUME NEW D \in SUBSET Denominator, NEW list \in Sorted(D), NEW entry \in Term(D),
         \A k \in 1 .. Len(list) : IsDpSmaller(list[k].den, entry.den)
  PROVE  /\ list \o <<entry>> \in Sorted(D)
         /\ \A rest, i : Below(list, rest, i)
                        /\ (\A j \in i .. Len(rest) : IsDpSmaller(entry.den, rest[j].den))
                        => Below(list \o <<entry>>, rest, i)
<1> DEFINE u == list \o <<entry>>
           n == Len(list)
<1>0. n \in Nat /\ list \in Seq(Term(D))
  BY SortedMeans
<1>1. /\ u \in Seq(Term(D)) /\ Len(u) = n + 1
      /\ \A k \in 1 .. n : u[k] = list[k]
      /\ u[n + 1] = entry
  BY <1>0
<1> HIDE DEF u
<1>2. ASSUME NEW i \in 1 .. Len(u), NEW k \in 1 .. Len(u), i < k
      PROVE  IsDpSmaller(u[i].den, u[k].den)
  <2>1. i \in 1 .. n /\ u[i] = list[i]
    BY <1>0, <1>1, <1>2
  <2>2. CASE k = n + 1
    BY <1>1, <2>1, <2>2
  <2>3. CASE k # n + 1
    <3>1. k \in 1 .. n /\ u[k] = list[k]
      BY <1>0, <1>1, <2>3
    <3>. QED
      BY <1>2, <2>1, <3>1, SortedMeans
  <2>. QED
    BY <2>2, <2>3
<1>3. u \in Sorted(D)
  BY <1>1, <1>2 DEF Sorted, InOrder
<1>4. ASSUME NEW rest, NEW i, Below(list, rest, i),
             \A j \in i .. Len(rest) : IsDpSmaller(entry.den, rest[j].den)
      PROVE  Below(u, rest, i)
  <2> SUFFICES ASSUME NEW k \in 1 .. Len(u), NEW j \in i .. Len(rest)
               PROVE  IsDpSmaller(u[k].den, rest[j].den)
    BY DEF Below
  <2>1. k = n + 1 \/ k \in 1 .. n
    BY <1>0, <1>1
  <2>2. CASE k = n + 1
    BY <1>1, <1>4, <2>2
  <2>3. CASE k \in 1 .. n
    BY <1>1, <1>4, <2>3 DEF Below
  <2>. QED
    BY <2>1, <2>2, <2>3
<1>. QED
  BY <1>3, <1>4 DEF u

\* Entries that come later in a sorted list are larger.
LEMMA LaterIsLarger ==
  ASSUME NEW D \in SUBSET Denominator, NEW rest \in Sorted(D), NEW i \in 1 .. Len(rest),
         NEW d \in Denominator, d = rest[i].den \/ IsDpSmaller(d, rest[i].den)
  PROVE  /\ \A j \in i + 1 .. Len(rest) : IsDpSmaller(d, rest[j].den)
         /\ d # rest[i].den => \A j \in i .. Len(rest) : IsDpSmaller(d, rest[j].den)
<1>1. ASSUME NEW j \in i + 1 .. Len(rest) PROVE IsDpSmaller(d, rest[j].den)
  <2>1. j \in 1 .. Len(rest) /\ i < j
    BY SortedMeans
  <2>2. /\ IsDpSmaller(rest[i].den, rest[j].den)
        /\ rest[i].den \in Denominator /\ rest[j].den \in Denominator
    BY <2>1, SortedMeans
  <2>. QED
    BY <2>2, SmallerIsTransitive
<1>2. ASSUME d # rest[i].den, NEW j \in i .. Len(rest) PROVE IsDpSmaller(d, rest[j].den)
  <2>1. j = i \/ j \in i + 1 .. Len(rest)
    BY SortedMeans
  <2>. QED
    BY <1>1, <1>2, <2>1
<1>. QED
  BY <1>1, <1>2

\* Between two turns of mergepfd_sorted the list is sorted and its entries are
\* smaller than all that is left of the two.
MergeInv(D, dec1, dec2) ==
  {s \in [i1 : 1 .. Len(dec1) + 1, i2 : 1 .. Len(dec2) + 1, merged : Sorted(D)] :
     Below(s.merged, dec1, s.i1) /\ Below(s.merged, dec2, s.i2)}

\* A turn of mergepfd_sorted keeps the merged list sorted and below what is left
\* of both lists.
LEMMA MergeTurnSorts ==
  ASSUME NEW D \in SUBSET Denominator, NEW dec1 \in Sorted(D), NEW dec2 \in Sorted(D),
         NEW s \in MergeInv(D, dec1, dec2)
  PROVE  MergeTurn(dec1, dec2, s) \in MergeInv(D, dec1, dec2)
<1> DEFINE n1 == Len(dec1)
           n2 == Len(dec2)
           x == dec1[s.i1]
           y == dec2[s.i2]
           Inv(r) == r \in MergeInv(D, dec1, dec2)
           Take(list, k1, k2) ==
             [i1 |-> s.i1 + k1, i2 |-> s.i2 + k2, merged |-> s.merged \o list]
<1>0. /\ n1 \in Nat /\ n2 \in Nat
      /\ s.i1 \in 1 .. n1 + 1 /\ s.i2 \in 1 .. n2 + 1
      /\ s.merged \in Sorted(D)
      /\ Below(s.merged, dec1, s.i1) /\ Below(s.merged, dec2, s.i2)
  BY SortedMeans DEF MergeInv
<1>1. ASSUME s.i1 <= n1
      PROVE  /\ s.i1 \in 1 .. n1 /\ x \in Term(D) /\ x.den \in Denominator
             /\ \A k \in 1 .. Len(s.merged) : IsDpSmaller(s.merged[k].den, x.den)
             /\ \A j \in s.i1 + 1 .. n1 : IsDpSmaller(x.den, dec1[j].den)
  <2>1. s.i1 \in 1 .. n1 /\ s.i1 \in s.i1 .. n1
    BY <1>0, <1>1
  <2>2. x \in Term(D) /\ x.den \in Denominator
    BY <2>1, SortedMeans
  <2>3. \A k \in 1 .. Len(s.merged) : IsDpSmaller(s.merged[k].den, x.den)
    BY <1>0, <2>1 DEF Below
  <2>4. \A j \in s.i1 + 1 .. n1 : IsDpSmaller(x.den, dec1[j].den)
    <3>1. x.den = dec1[s.i1].den
      OBVIOUS
    <3> HIDE DEF x
    <3>. QED
      BY <2>1, <2>2, <3>1, LaterIsLarger
  <2>. QED
    BY <2>1, <2>2, <2>3, <2>4
<1>2. ASSUME s.i2 <= n2
      PROVE  /\ s.i2 \in 1 .. n2 /\ y \in Term(D) /\ y.den \in Denominator
             /\ \A k \in 1 .. Len(s.merged) : IsDpSmaller(s.merged[k].den, y.den)
             /\ \A j \in s.i2 + 1 .. n2 : IsDpSmaller(y.den, dec2[j].den)
  <2>1. s.i2 \in 1 .. n2 /\ s.i2 \in s.i2 .. n2
    BY <1>0, <1>2
  <2>2. y \in Term(D) /\ y.den \in Denominator
    BY <2>1, SortedMeans
  <2>3. \A k \in 1 .. Len(s.merged) : IsDpSmaller(s.merged[k].den, y.den)
    BY <1>0, <2>1 DEF Below
  <2>4. \A j \in s.i2 + 1 .. n2 : IsDpSmaller(y.den, dec2[j].den)
    <3>1. y.den = dec2[s.i2].den
      OBVIOUS
    <3> HIDE DEF y
    <3>. QED
      BY <2>1, <2>2, <3>1, LaterIsLarger
  <2>. QED
    BY <2>1, <2>2, <2>3, <2>4
<1>3. ASSUME s.i1 > n1, s.i2 > n2 PROVE Inv(s)
  OBVIOUS
<1>4. ASSUME s.i2 <= n2, s.i1 > n1 \/ IsDpSmaller(y.den, x.den)
      PROVE  Inv(Take(<<y>>, 0, 1))
  <2>1. \A j \in s.i1 .. n1 : IsDpSmaller(y.den, dec1[j].den)
    <3>1. CASE s.i1 > n1
      BY <1>0, <3>1
    <3>2. CASE s.i1 <= n1
      <4>1. /\ s.i1 \in 1 .. n1 /\ y.den \in Denominator /\ x.den \in Denominator
            /\ IsDpSmaller(y.den, dec1[s.i1].den)
        BY <1>0, <1>1, <1>2, <1>4, <3>2
      <4>2. y.den # dec1[s.i1].den
        BY <4>1, SmallerIsIrreflexive
      <4> DEFINE d == y.den
      <4> HIDE DEF d
      <4>3. \A j \in s.i1 .. n1 : IsDpSmaller(d, dec1[j].den)
        BY <4>1, <4>2, LaterIsLarger DEF d
      <4>. QED
        BY <4>3 DEF d
    <3>. QED
      BY <1>0, <3>1, <3>2
  <2> HIDE DEF y, x
  <2>2. /\ y \in Term(D)
        /\ \A k \in 1 .. Len(s.merged) : IsDpSmaller(s.merged[k].den, y.den)
        /\ \A j \in s.i2 + 1 .. n2 : IsDpSmaller(y.den, dec2[j].den)
    BY <1>2, <1>4
  <2>3. Below(s.merged, dec2, s.i2 + 1)
    BY <1>0 DEF Below
  <2>4. /\ s.merged \o <<y>> \in Sorted(D)
        /\ Below(s.merged \o <<y>>, dec1, s.i1)
        /\ Below(s.merged \o <<y>>, dec2, s.i2 + 1)
    BY <1>0, <2>1, <2>2, <2>3, AppendedIsSorted
  <2> DEFINE m == s.merged \o <<y>>
             r == Take(<<y>>, 0, 1)
  <2>5. r = [i1 |-> s.i1, i2 |-> s.i2 + 1, merged |-> m]
    <3>1. s.i1 + 0 = s.i1
      BY <1>0
    <3>2. r = [i1 |-> s.i1 + 0, i2 |-> s.i2 + 1, merged |-> m]
      OBVIOUS
    <3>. QED
      BY <3>1, <3>2, Zenon
  <2>6. s.i2 + 1 \in 1 .. n2 + 1
    BY <1>0, <1>4
  <2> HIDE DEF m, r
  <2>7. r \in MergeInv(D, dec1, dec2)
    BY <1>0, <2>4, <2>5, <2>6 DEF MergeInv, m
  <2>. QED
    BY <2>7 DEF r
<1>5. ASSUME s.i1 <= n1, s.i2 > n2 \/ IsDpSmaller(x.den, y.den)
      PROVE  Inv(Take(<<x>>, 1, 0))
  <2>1. \A j \in s.i2 .. n2 : IsDpSmaller(x.den, dec2[j].den)
    <3>1. CASE s.i2 > n2
      BY <1>0, <3>1
    <3>2. CASE s.i2 <= n2
      <4>1. /\ s.i2 \in 1 .. n2 /\ y.den \in Denominator /\ x.den \in Denominator
            /\ IsDpSmaller(x.den, dec2[s.i2].den)
        BY <1>0, <1>1, <1>2, <1>5, <3>2
      <4>2. x.den # dec2[s.i2].den
        BY <4>1, SmallerIsIrreflexive
      <4> DEFINE d == x.den
      <4> HIDE DEF d
      <4>3. \A j \in s.i2 .. n2 : IsDpSmaller(d, dec2[j].den)
        BY <4>1, <4>2, LaterIsLarger DEF d
      <4>. QED
        BY <4>3 DEF d
    <3>. QED
      BY <1>0, <3>1, <3>2
  <2> HIDE DEF y, x
  <2>2. /\ x \in Term(D)
        /\ \A k \in 1 .. Len(s.merged) : IsDpSmaller(s.merged[k].den, x.den)
        /\ \A j \in s.i1 + 1 .. n1 : IsDpSmaller(x.den, dec1[j].den)
    BY <1>1, <1>5
  <2>3. Below(s.merged, dec1, s.i1 + 1)
    BY <1>0 DEF Below
  <2>4. /\ s.merged \o <<x>> \in Sorted(D)
        /\ Below(s.merged \o <<x>>, dec1, s.i1 + 1)
        /\ Below(s.merged \o <<x>>, dec2, s.i2)
    BY <1>0, <2>1, <2>2, <2>3, AppendedIsSorted
  <2> DEFINE m == s.merged \o <<x>>
             r == Take(<<x>>, 1, 0)
  <2>5. r = [i1 |-> s.i1 + 1, i2 |-> s.i2, merged |-> m]
    <3>1. s.i2 + 0 = s.i2
      BY <1>0
    <3>2. r = [i1 |-> s.i1 + 1, i2 |-> s.i2 + 0, merged |-> m]
      OBVIOUS
    <3>. QED
      BY <3>1, <3>2, Zenon
  <2>6. s.i1 + 1 \in 1 .. n1 + 1
    BY <1>0, <1>5
  <2> HIDE DEF m, r
  <2>7. r \in MergeInv(D, dec1, dec2)
    BY <1>0, <2>4, <2>5, <2>6 DEF MergeInv, m
  <2>. QED
    BY <2>7 DEF r
<1>6. ASSUME s.i1 <= n1, s.i2 <= n2, x.den = y.den
      PROVE  Inv(Take(SumOfTwo(x, y), 1, 1))
  <2> DEFINE z == [x EXCEPT !.num = @ + y.num]
             m == s.merged \o SumOfTwo(x, y)
             r == Take(SumOfTwo(x, y), 1, 1)
  <2>1. m \in Sorted(D) /\ Below(m, dec1, s.i1 + 1) /\ Below(m, dec2, s.i2 + 1)
    <3>1. Below(s.merged, dec1, s.i1 + 1) /\ Below(s.merged, dec2, s.i2 + 1)
      BY <1>0 DEF Below
    <3>2. CASE x.num + y.num = 0
      <4>1. SumOfTwo(x, y) = <<>>
        BY <3>2 DEF SumOfTwo
      <4>2. s.merged \in Seq(Term(D))
        BY <1>0, SortedMeans
      <4>3. m = s.merged
        BY <4>1, <4>2
      <4>. QED
        BY <1>0, <3>1, <4>3
    <3>3. CASE x.num + y.num # 0
      <4>1. SumOfTwo(x, y) = <<z>>
        BY <3>3 DEF SumOfTwo
      <4>2. z \in Term(D) /\ z.den = x.den
        BY <1>1, <1>2, <1>6, <3>3, SumOfTerms
      <4> HIDE DEF z, x, y
      <4>3. /\ \A k \in 1 .. Len(s.merged) : IsDpSmaller(s.merged[k].den, z.den)
            /\ \A j \in s.i1 + 1 .. n1 : IsDpSmaller(z.den, dec1[j].den)
            /\ \A j \in s.i2 + 1 .. n2 : IsDpSmaller(z.den, dec2[j].den)
        BY <1>1, <1>2, <1>6, <4>2
      <4>4. /\ s.merged \o <<z>> \in Sorted(D)
            /\ Below(s.merged \o <<z>>, dec1, s.i1 + 1)
            /\ Below(s.merged \o <<z>>, dec2, s.i2 + 1)
        BY <1>0, <3>1, <4>2, <4>3, AppendedIsSorted
      <4>. QED
        BY <4>1, <4>4
    <3>. QED
      BY <3>2, <3>3
  <2>2. r = [i1 |-> s.i1 + 1, i2 |-> s.i2 + 1, merged |-> m]
    OBVIOUS
  <2>3. s.i1 + 1 \in 1 .. n1 + 1 /\ s.i2 + 1 \in 1 .. n2 + 1
    BY <1>0, <1>6
  <2> HIDE DEF m, r
  <2>4. r \in MergeInv(D, dec1, dec2)
    BY <2>1, <2>2, <2>3 DEF MergeInv
  <2>. QED
    BY <2>4 DEF r
<1>7. \/ s.i1 > n1 /\ s.i2 > n2 /\ MergeTurn(dec1, dec2, s) = s
      \/ /\ s.i1 > n1 /\ ~(s.i2 > n2)
         /\ MergeTurn(dec1, dec2, s) = Take(<<y>>, 0, 1)
      \/ /\ ~(s.i1 > n1) /\ (s.i2 > n2 \/ IsDpSmaller(x.den, y.den))
         /\ MergeTurn(dec1, dec2, s) = Take(<<x>>, 1, 0)
      \/ /\ ~(s.i1 > n1) /\ ~(s.i2 > n2) /\ x.den = y.den
         /\ MergeTurn(dec1, dec2, s) = Take(SumOfTwo(x, y), 1, 1)
      \/ /\ ~(s.i1 > n1) /\ ~(s.i2 > n2) /\ x.den # y.den
         /\ ~IsDpSmaller(x.den, y.den)
         /\ MergeTurn(dec1, dec2, s) = Take(<<y>>, 0, 1)
  <2> HIDE DEF n1, n2
  <2>. QED
    BY Zenon DEF MergeTurn, n1, n2
<1>8. s.i1 <= n1 /\ s.i2 <= n2 /\ x.den # y.den /\ ~IsDpSmaller(x.den, y.den)
        => IsDpSmaller(y.den, x.den)
  BY <1>1, <1>2, SmallerIsTotal
<1>9. (~(s.i1 > n1) => s.i1 <= n1) /\ (~(s.i2 > n2) => s.i2 <= n2)
  BY <1>0
<1> HIDE DEF n1, n2, x, y, Take
<1>10. Inv(MergeTurn(dec1, dec2, s))
  <2> HIDE DEF Inv
  <2>. QED
    BY <1>3, <1>4, <1>5, <1>6, <1>7, <1>8, <1>9, Zenon
<1>. QED
  BY <1>10

\* mergepfd_sorted: of two sorted lists it makes a sorted one, with every
\* denominator once and no numerator 0.
THEOREM MergePfdSortedSorts ==
  ASSUME NEW D \in SUBSET Denominator, NEW dec1 \in Sorted(D), NEW dec2 \in Sorted(D)
  PROVE  MergePfdSorted(dec1, dec2) \in Sorted(D)
<1> DEFINE A == MergeInv(D, dec1, dec2)
           n == Len(dec1) + Len(dec2)
<1>1. Len(dec1) \in Nat /\ Len(dec2) \in Nat
  BY SortedMeans
<1>2. A \subseteq MergeState
  <2>1. ASSUME NEW s \in A PROVE s \in MergeState
    <3>1. /\ s.i1 \in Nat /\ s.i2 \in Nat /\ s.merged \in Sorted(D)
          /\ s = [i1 |-> s.i1, i2 |-> s.i2, merged |-> s.merged]
      BY <1>1 DEF MergeInv
    <3>2. s.merged \in Seq(Entry)
      BY <3>1, SortedMeans, ListOfEntries
    <3>. QED
      BY <3>1, <3>2 DEF MergeState
  <2>. QED
    BY <2>1
<1>3. MergeStart \in A
  BY <1>1, EmptyIsSorted DEF MergeInv, MergeStart, Below
<1>4. \A s \in A : MergeTurn(dec1, dec2, s) \in A
  BY MergeTurnSorts
<1> HIDE DEF A
<1>5. PICK f \in [0 .. Len(dec1) + Len(dec2) -> A] :
        /\ Merges(dec1, dec2, f, Len(dec1) + Len(dec2))
        /\ MergePfdSorted(dec1, dec2) = f[Len(dec1) + Len(dec2)].merged
  BY <1>1, <1>2, <1>3, <1>4, MergePfdSortedMerges
<1>6. f[n] \in A
  BY <1>1, <1>5
<1>7. f[n].merged \in Sorted(D)
  BY <1>6 DEF A, MergeInv
<1>. QED
  BY <1>5, <1>7

-----------------------------------------------------------------------------
(***************************************************************************)
(* The denominators of a step, and what is left of them when a factor is   *)
(* taken out.                                                              *)
(***************************************************************************)

\* Lists are the sequences up to a length.
LEMMA ListsMeans ==
  ASSUME NEW S, NEW m \in Nat
  PROVE  \A s : s \in Lists(S, m) <=> s \in Seq(S) /\ Len(s) <= m
<1>1. ASSUME NEW s, s \in Lists(S, m) PROVE s \in Seq(S) /\ Len(s) <= m
  <2>1. PICK n \in 0 .. m : s \in [1 .. n -> S]
    BY <1>1 DEF Lists
  <2>. QED
    BY <2>1
<1>2. ASSUME NEW s, s \in Seq(S), Len(s) <= m PROVE s \in Lists(S, m)
  <2>1. Len(s) \in 0 .. m /\ s \in [1 .. Len(s) -> S]
    BY <1>2
  <2>. QED
    BY <2>1 DEF Lists
<1>. QED
  BY <1>1, <1>2

Ascending(s) == \A i, k \in 1 .. Len(s) : i < k => s[i] < s[k]

\* The denominators of the input, by their parts.
LEMMA DenominatorsMeans ==
  \A d : d \in Denominators <=>
           /\ d \in [ind : Seq(DOMAIN Q), exp : Seq(1 .. MaxExp)]
           /\ Len(d.ind) = Len(d.exp) /\ Len(d.ind) <= Len(Q)
           /\ Ascending(d.ind)
           /\ Total[d.exp] <= MaxDegree
<1>0. Len(Q) \in Nat
  BY FactorsAssumption
<1> DEFINE R == [ind : Lists(DOMAIN Q, Len(Q)), exp : Lists(1 .. MaxExp, Len(Q))]
<1>1. ASSUME NEW d, d \in Denominators
      PROVE  /\ d \in [ind : Seq(DOMAIN Q), exp : Seq(1 .. MaxExp)]
             /\ Len(d.ind) = Len(d.exp) /\ Len(d.ind) <= Len(Q)
             /\ Ascending(d.ind)
             /\ Total[d.exp] <= MaxDegree
  <2>1. /\ d \in R /\ Len(d.ind) = Len(d.exp)
        /\ \A i, k \in DOMAIN d.ind : i < k => d.ind[i] < d.ind[k]
        /\ Total[d.exp] <= MaxDegree
    BY <1>1 DEF Denominators
  <2>2. /\ d.ind \in Lists(DOMAIN Q, Len(Q)) /\ d.exp \in Lists(1 .. MaxExp, Len(Q))
        /\ d = [ind |-> d.ind, exp |-> d.exp]
    BY <2>1
  <2>3. d.ind \in Seq(DOMAIN Q) /\ Len(d.ind) <= Len(Q) /\ d.exp \in Seq(1 .. MaxExp)
    BY <1>0, <2>2, ListsMeans
  <2>4. DOMAIN d.ind = 1 .. Len(d.ind)
    BY <2>3
  <2>5. Ascending(d.ind)
    BY <2>1, <2>4 DEF Ascending
  <2>. QED
    BY <2>1, <2>2, <2>3, <2>5
<1>2. ASSUME NEW d, d \in [ind : Seq(DOMAIN Q), exp : Seq(1 .. MaxExp)],
             Len(d.ind) = Len(d.exp), Len(d.ind) <= Len(Q), Ascending(d.ind),
             Total[d.exp] <= MaxDegree
      PROVE  d \in Denominators
  <2>1. d.ind \in Lists(DOMAIN Q, Len(Q)) /\ d.exp \in Lists(1 .. MaxExp, Len(Q))
    BY <1>0, <1>2, ListsMeans
  <2>2. d \in R
    BY <1>2, <2>1
  <2>3. DOMAIN d.ind = 1 .. Len(d.ind)
    BY <1>2
  <2>. QED
    BY <1>2, <2>2, <2>3 DEF Denominators, Ascending
<1>. QED
  BY <1>1, <1>2

\* What a denominator of a step consists of.
LEMMA DenominatorParts ==
  ASSUME NEW d \in Denominators
  PROVE  /\ d \in Denominator
         /\ d.ind \in Seq(DOMAIN Q) /\ d.exp \in Seq(1 .. MaxExp) /\ d.exp \in Seq(Int)
         /\ Len(d.ind) \in Nat /\ Len(d.exp) = Len(d.ind) /\ Len(d.ind) <= Len(Q)
         /\ \A i \in 1 .. Len(d.ind) : /\ d.ind[i] \in DOMAIN Q
                                       /\ d.exp[i] \in 1 .. MaxExp
         /\ Ascending(d.ind)
         /\ Total[d.exp] \in Int /\ Total[d.exp] <= MaxDegree
<1>1. /\ d \in [ind : Seq(DOMAIN Q), exp : Seq(1 .. MaxExp)]
      /\ Len(d.ind) = Len(d.exp) /\ Len(d.ind) <= Len(Q)
      /\ Ascending(d.ind)
      /\ Total[d.exp] <= MaxDegree
  BY DenominatorsMeans
<1>2. /\ d.ind \in Seq(DOMAIN Q) /\ d.exp \in Seq(1 .. MaxExp)
      /\ Len(d.ind) \in Nat
  BY <1>1
<1>3. \A i \in 1 .. Len(d.ind) : /\ d.ind[i] \in DOMAIN Q /\ d.ind[i] \in Nat
                                 /\ d.exp[i] \in 1 .. MaxExp
                                 /\ d.exp[i] \in Nat \ {0}
  <2>1. ASSUME NEW i \in 1 .. Len(d.ind)
        PROVE  d.ind[i] \in DOMAIN Q /\ d.exp[i] \in 1 .. MaxExp
    <3>1. d.ind[i] \in DOMAIN Q
      BY <1>2
    <3>2. i \in 1 .. Len(d.exp)
      BY <1>1
    <3>3. d.exp[i] \in 1 .. MaxExp
      BY <1>2, <3>2, ElementOfSeq
    <3>. QED
      BY <3>1, <3>3
  <2>2. DOMAIN Q \subseteq Nat /\ 1 .. MaxExp \subseteq Nat \ {0}
    BY FactorsAssumption, MaxExpAssumption
  <2>. QED
    BY <2>1, <2>2
<1>4. d.ind \in Seq(Nat) /\ d.exp \in Seq(Nat \ {0})
  BY <1>1, <1>2, <1>3
<1>5. d \in Denominator
  BY <1>1, <1>4 DEF Denominator
<1>6. d.exp \in Seq(Int) /\ Total[d.exp] \in Int
  BY <1>4, PositiveNumbers, TotalType
<1>. QED
  BY <1>1, <1>2, <1>3, <1>5, <1>6

\* The denominators of a step are among those that is_dp_smaller compares.
LEMMA DenominatorsAre == Denominators \subseteq Denominator
BY DenominatorParts

\* The sum of a list without one of its numbers.
LEMMA TotalOfRemoved ==
  ASSUME NEW s \in Seq(Int), NEW i \in 1 .. Len(s)
  PROVE  Total[RemoveAt(s, i)] = Total[s] - s[i]
<1> DEFINE h == SubSeq(s, 1, i - 1)
           t == SubSeq(s, i + 1, Len(s))
<1>1. i - 1 \in 0 .. Len(s) /\ i \in 0 .. Len(s) /\ s[i] \in Int /\ Len(s) \in Nat
  OBVIOUS
<1>2. h \in Seq(Int) /\ Len(h) = i - 1 /\ \A k \in 1 .. i - 1 : h[k] = s[k]
  BY <1>1, PartsOfList
<1>3. /\ t \in Seq(Int) /\ Len(t) = Len(s) - i
      /\ \A k \in 1 .. Len(s) - i : t[k] = s[i + k]
  BY <1>1, PartsOfList
<1>4. RemoveAt(s, i) = h \o t
  BY DEF RemoveAt
<1> HIDE DEF h, t
<1> DEFINE u == h \o <<s[i]>> \o t
<1>5. /\ u \in Seq(Int) /\ Len(u) = Len(h) + 1 + Len(t)
      /\ \A k \in 1 .. Len(h) : u[k] = h[k]
      /\ u[Len(h) + 1] = s[i]
      /\ \A k \in 1 .. Len(t) : u[Len(h) + 1 + k] = t[k]
  <2>1. h \in Seq(Int) /\ t \in Seq(Int) /\ s[i] \in Int
    BY <1>1, <1>2, <1>3
  <2>. QED
    BY <2>1, JoinedLists
<1>6. u = s
  <2> HIDE DEF u
  <2>1. Len(u) = Len(s)
    BY <1>1, <1>2, <1>3, <1>5
  <2>2. ASSUME NEW k \in 1 .. Len(s) PROVE u[k] = s[k]
    <3>1. CASE k < i
      BY <1>2, <1>5, <3>1
    <3>2. CASE k = i
      BY <1>1, <1>2, <1>5, <3>2
    <3>3. CASE k > i
      <4>1. k - i \in 1 .. Len(t) /\ Len(h) + 1 + (k - i) = k /\ i + (k - i) = k
        BY <1>1, <1>2, <1>3, <3>3
      <4>2. u[k] = t[k - i]
        BY <1>5, <4>1
      <4>3. t[k - i] = s[k]
        BY <1>3, <4>1
      <4>. QED
        BY <4>2, <4>3
    <3>. QED
      BY <1>1, <3>1, <3>2, <3>3
  <2>. QED
    BY <1>5, <2>1, <2>2, SeqEqual
<1>7. Total[u] = Total[h] + s[i] + Total[t]
  <2>1. h \in Seq(Int) /\ t \in Seq(Int) /\ <<s[i]>> \in Seq(Int)
        /\ h \o <<s[i]>> \in Seq(Int)
    BY <1>1, <1>2, <1>3
  <2>2. Total[u] = Total[h \o <<s[i]>>] + Total[t]
    BY <2>1, TotalOfConcat
  <2>3. Total[h \o <<s[i]>>] = Total[h] + Total[<<s[i]>>]
    BY <2>1, TotalOfConcat
  <2>4. Total[<<s[i]>>] = s[i]
    BY <1>1, TotalOfFew
  <2>. QED
    BY <2>2, <2>3, <2>4, Zenon
<1>8. Total[h \o t] = Total[h] + Total[t]
  BY <1>2, <1>3, TotalOfConcat
<1>9. Total[h] \in Int /\ Total[t] \in Int
  BY <1>2, <1>3, TotalType
<1>10. Total[s] = Total[h] + s[i] + Total[t]
  BY <1>6, <1>7
<1> HIDE DEF u
<1>. QED
  BY <1>1, <1>4, <1>8, <1>9, <1>10

\* The sum of a list in which one number is replaced.
LEMMA TotalOfReplaced ==
  ASSUME NEW s \in Seq(Int), NEW i \in 1 .. Len(s), NEW x \in Int
  PROVE  /\ [s EXCEPT ![i] = x] \in Seq(Int)
         /\ Total[[s EXCEPT ![i] = x]] = Total[s] - s[i] + x
<1> DEFINE u == [s EXCEPT ![i] = x]
<1>1. /\ u \in Seq(Int) /\ Len(u) = Len(s) /\ u[i] = x /\ s[i] \in Int
      /\ \A k \in 1 .. Len(s) : k # i => u[k] = s[k]
  OBVIOUS
<1> HIDE DEF u
<1>2. Total[RemoveAt(s, i)] = Total[s] - s[i]
  BY TotalOfRemoved
<1>3. Total[RemoveAt(u, i)] = Total[u] - x
  BY <1>1, TotalOfRemoved
<1>4. RemoveAt(u, i) = RemoveAt(s, i)
  <2>1. /\ RemoveAt(s, i) \in Seq(Int) /\ Len(RemoveAt(s, i)) = Len(s) - 1
        /\ \A k \in 1 .. Len(s) - 1 :
             RemoveAt(s, i)[k] = IF k < i THEN s[k] ELSE s[k + 1]
    BY RemovedAt
  <2>2. /\ RemoveAt(u, i) \in Seq(Int) /\ Len(RemoveAt(u, i)) = Len(s) - 1
        /\ \A k \in 1 .. Len(s) - 1 :
             RemoveAt(u, i)[k] = IF k < i THEN u[k] ELSE u[k + 1]
    BY <1>1, RemovedAt
  <2>3. ASSUME NEW k \in 1 .. Len(s) - 1 PROVE RemoveAt(u, i)[k] = RemoveAt(s, i)[k]
    <3>1. /\ k < i => k \in 1 .. Len(s) /\ k # i
          /\ ~(k < i) => k + 1 \in 1 .. Len(s) /\ k + 1 # i
      OBVIOUS
    <3>2. IF k < i THEN u[k] = s[k] ELSE u[k + 1] = s[k + 1]
      BY <1>1, <3>1
    <3>. QED
      BY <2>1, <2>2, <3>2
  <2>. QED
    BY <2>1, <2>2, <2>3, SeqEqual
<1>5. Total[u] \in Int /\ Total[s] \in Int
  BY <1>1, TotalType
<1>6. Total[u] = Total[s] - s[i] + x
  BY <1>1, <1>2, <1>3, <1>4, <1>5
<1>. QED
  BY <1>1, <1>6 DEF u

\* A denominator without one of its factors.
LEMMA WithoutIsDenominator ==
  ASSUME NEW d \in Denominators, NEW i \in 1 .. Len(d.ind)
  PROVE  /\ Without(d, i) \in Denominators
         /\ Len(Without(d, i).ind) = Len(d.ind) - 1
<1> DEFINE ind == RemoveAt(d.ind, i)
           exp == RemoveAt(d.exp, i)
           E == 1 .. MaxExp
           n == Len(d.ind)
<1>0. /\ d.ind \in Seq(DOMAIN Q) /\ d.exp \in Seq(E) /\ d.exp \in Seq(Int)
      /\ n \in Nat /\ Len(d.exp) = n /\ n <= Len(Q) /\ Len(Q) \in Nat
      /\ Ascending(d.ind)
      /\ Total[d.exp] \in Int /\ Total[d.exp] <= MaxDegree
      /\ i \in 1 .. Len(d.exp) /\ d.exp[i] \in E
  BY DenominatorParts, FactorsAssumption
<1>1. /\ ind \in Seq(DOMAIN Q) /\ Len(ind) = n - 1
      /\ \A k \in 1 .. n - 1 : ind[k] = IF k < i THEN d.ind[k] ELSE d.ind[k + 1]
  BY <1>0, RemovedAt
<1>2. exp \in Seq(E) /\ Len(exp) = n - 1
  <2>1. d.exp \in Seq(E) /\ i \in 1 .. Len(d.exp) /\ Len(d.exp) = n
    BY <1>0
  <2> HIDE DEF E, n
  <2>2. RemoveAt(d.exp, i) \in Seq(E) /\ Len(RemoveAt(d.exp, i)) = Len(d.exp) - 1
    BY <2>1, RemovedAt
  <2>. QED
    BY <2>1, <2>2
<1>3. Total[exp] <= MaxDegree
  <2>1. Total[exp] = Total[d.exp] - d.exp[i]
    BY <1>0, TotalOfRemoved
  <2>2. d.exp[i] \in Nat /\ MaxDegree \in Nat
    BY <1>0, MaxDegreeAssumption
  <2> HIDE DEF exp
  <2>. QED
    BY <1>0, <2>1, <2>2
<1>4. Ascending(ind)
  <2> HIDE DEF ind
  <2> SUFFICES ASSUME NEW j \in 1 .. Len(ind), NEW k \in 1 .. Len(ind), j < k
               PROVE  ind[j] < ind[k]
    BY DEF Ascending
  <2> DEFINE At(m) == IF m < i THEN m ELSE m + 1
  <2>1. /\ At(j) \in 1 .. n /\ At(k) \in 1 .. n /\ At(j) < At(k)
        /\ ind[j] = d.ind[At(j)] /\ ind[k] = d.ind[At(k)]
    <3>1. n \in Nat /\ Len(ind) = n - 1
      BY <1>0, <1>1
    <3>2. j \in 1 .. n - 1 /\ k \in 1 .. n - 1
      BY <3>1
    <3>3. At(j) \in 1 .. n /\ At(k) \in 1 .. n /\ At(j) < At(k)
      BY <3>1, <3>2
    <3>4. ind[j] = d.ind[At(j)] /\ ind[k] = d.ind[At(k)]
      BY <1>1, <3>2
    <3>. QED
      BY <3>3, <3>4
  <2> HIDE DEF At
  <2>. QED
    BY <1>0, <2>1 DEF Ascending
<1>5. Without(d, i) = [ind |-> ind, exp |-> exp]
  BY DEF Without
<1> HIDE DEF ind, exp
<1> DEFINE w == [ind |-> ind, exp |-> exp]
<1>6. w.ind = ind /\ w.exp = exp /\ w \in [ind : Seq(DOMAIN Q), exp : Seq(E)]
  BY <1>1, <1>2
<1>7. n - 1 <= Len(Q)
  BY <1>0
<1> HIDE DEF w
<1>8. w \in Denominators
  BY <1>1, <1>2, <1>3, <1>4, <1>6, <1>7, DenominatorsMeans
<1>. QED
  BY <1>1, <1>5, <1>6, <1>8 DEF w

\* A denominator with one power less of one of its factors.
LEMMA LoweredIsDenominator ==
  ASSUME NEW d \in Denominators, NEW i \in 1 .. Len(d.ind)
  PROVE  Lowered(d, i) \in Denominators
<1>1. CASE d.exp[i] = 1
  BY <1>1, WithoutIsDenominator DEF Lowered
<1>2. CASE d.exp[i] # 1
  <2> DEFINE exp == [d.exp EXCEPT ![i] = d.exp[i] - 1]
             w == [ind |-> d.ind, exp |-> exp]
             E == 1 .. MaxExp
  <2>0. /\ d.ind \in Seq(DOMAIN Q) /\ d.exp \in Seq(E) /\ d.exp \in Seq(Int)
        /\ Len(d.exp) = Len(d.ind) /\ Len(d.ind) <= Len(Q)
        /\ Ascending(d.ind)
        /\ Total[d.exp] \in Int /\ Total[d.exp] <= MaxDegree
        /\ i \in 1 .. Len(d.exp) /\ d.exp[i] \in E
        /\ d \in [ind : Seq(DOMAIN Q), exp : Seq(E)]
    BY DenominatorParts, DenominatorsMeans
  <2>1. d.exp[i] - 1 \in E /\ d.exp[i] - 1 \in Int /\ d.exp[i] \in Int
    BY <1>2, <2>0, MaxExpAssumption
  <2>2. exp \in Seq(E) /\ Len(exp) = Len(d.ind)
    <3> HIDE DEF E
    <3>. QED
      BY <2>0, <2>1
  <2>3. Total[exp] <= MaxDegree
    <3>1. Total[exp] = Total[d.exp] - d.exp[i] + (d.exp[i] - 1)
      BY <2>0, <2>1, TotalOfReplaced
    <3>2. MaxDegree \in Nat
      BY MaxDegreeAssumption
    <3> HIDE DEF exp
    <3>. QED
      BY <2>0, <2>1, <3>1, <3>2
  <2>4. Lowered(d, i) = w
    BY <1>2, <2>0 DEF Lowered
  <2> HIDE DEF exp
  <2>5. w.ind = d.ind /\ w.exp = exp /\ w \in [ind : Seq(DOMAIN Q), exp : Seq(E)]
    BY <2>0, <2>2
  <2> HIDE DEF w
  <2>6. w \in Denominators
    BY <2>0, <2>2, <2>3, <2>5, DenominatorsMeans
  <2>. QED
    BY <2>4, <2>6
<1>. QED
  BY <1>1, <1>2

-----------------------------------------------------------------------------
(***************************************************************************)
(* Products and powers.                                                    *)
(***************************************************************************)

\* The partial products of a list of numbers.
Products(e, f) == f[0] = 1 /\ \A i \in 1 .. Len(e) : f[i] = f[i - 1] * e[i]

\* Product multiplies from left to right: it has partial products.
LEMMA ProductIsProduct ==
  ASSUME NEW e \in Seq(Int)
  PROVE  \E f \in [0 .. Len(e) -> Int] : Products(e, f) /\ Product[e] = f[Len(e)]
<1> DEFINE n == Len(e)
           Turn(f, i) == IF i = 0 THEN 1 ELSE f[i - 1] * e[i]
           IsLoop(f) == f = [i \in 0 .. n |-> Turn(f, i)]
           s == CHOOSE f : IsLoop(f)
           g == [p \in Int \X (1 .. n) |-> p[1] * e[p[2]]]
<1>0. n \in Nat /\ \A i \in 1 .. n : e[i] \in Int
  OBVIOUS
<1>1. Product[e] = s[n]
  BY DEF Product
<1>2. PICK f \in [0 .. n -> Int] : Loop(f, 1, g, n)
  <2>1. g \in [Int \X (1 .. n) -> Int]
    BY <1>0
  <2> HIDE DEF g, n
  <2>2. n \in Nat /\ 1 \in Int
    BY <1>0
  <2>. QED
    BY <2>1, <2>2, LoopExists, Zenon
<1>3. IsLoop(f)
  <2>1. ASSUME NEW i \in 1 .. n PROVE f[i] = f[i - 1] * e[i]
    <3>1. f[i - 1] \in Int
      BY <1>0
    <3>2. <<f[i - 1], i>> \in Int \X (1 .. n)
      BY <3>1
    <3>3. f[i] = g[<<f[i - 1], i>>]
      BY <1>2 DEF Loop
    <3> HIDE DEF n
    <3>. QED
      BY <3>2, <3>3
  <2>2. \A i \in 0 .. n : f[i] = Turn(f, i)
    BY <1>2, <2>1 DEF Loop
  <2> HIDE DEF n, Turn
  <2>. QED
    BY <2>2
<1>4. IsLoop(s)
  <2> HIDE DEF IsLoop
  <2>. QED
    BY <1>3
<1>5. s[0] = 1 /\ \A i \in 1 .. n : s[i] = s[i - 1] * e[i]
  <2> HIDE DEF s
  <2>1. \A i \in 0 .. n : s[i] = Turn(s, i)
    BY <1>4
  <2>. QED
    BY <1>0, <2>1
<1>6. \A i \in 0 .. n : s[i] \in Int
  <2> HIDE DEF s
  <2>1. \A i \in 1 .. n : s[i - 1] \in Int => s[i] \in Int
    BY <1>0, <1>5
  <2>2. n \in Nat /\ s[0] \in Int
    BY <1>0, <1>5
  <2> HIDE DEF n
  <2>. QED
    BY <2>1, <2>2, LoopKeeps, Zenon
<1>7. s \in [0 .. n -> Int]
  <2>1. s = [i \in 0 .. n |-> s[i]]
    BY <1>4
  <2> HIDE DEF s
  <2>. QED
    BY <1>6, <2>1
<1>. QED
  BY <1>1, <1>5, <1>7 DEF Products

\* A product of integers is one.
LEMMA ProductType == \A e \in Seq(Int) : Product[e] \in Int
<1> SUFFICES ASSUME NEW e \in Seq(Int) PROVE Product[e] \in Int
  OBVIOUS
<1>1. PICK f \in [0 .. Len(e) -> Int] : Products(e, f) /\ Product[e] = f[Len(e)]
  BY ProductIsProduct
<1>. QED
  BY <1>1

\* A product in which one factor gets another factor.
LEMMA ProductOfChanged ==
  ASSUME NEW s \in Seq(Int), NEW t \in Seq(Int), Len(t) = Len(s),
         NEW j \in 1 .. Len(s), NEW c \in Int, t[j] = s[j] * c,
         \A k \in 1 .. Len(s) : k # j => t[k] = s[k]
  PROVE  Product[t] = Product[s] * c
<1>1. PICK f \in [0 .. Len(s) -> Int] : Products(s, f) /\ Product[s] = f[Len(s)]
  BY ProductIsProduct
<1>2. PICK g \in [0 .. Len(t) -> Int] : Products(t, g) /\ Product[t] = g[Len(t)]
  BY ProductIsProduct
<1> DEFINE n == Len(s)
           S == {i \in 0 .. n : g[i] = IF i < j THEN f[i] ELSE f[i] * c}
<1>3. 0 \in S
  BY <1>1, <1>2 DEF Products
<1>4. ASSUME NEW i \in 1 .. n, i - 1 \in S PROVE i \in S
  <2>1. f[i] = f[i - 1] * s[i] /\ g[i] = g[i - 1] * t[i]
    BY <1>1, <1>2 DEF Products
  <2>2. f[i - 1] \in Int /\ s[i] \in Int
    <3>1. i - 1 \in 0 .. Len(s)
      OBVIOUS
    <3>2. f[i - 1] \in Int
      BY <1>1, <3>1
    <3>3. s[i] \in Int
      OBVIOUS
    <3>. QED
      BY <3>2, <3>3
  <2>3. g[i - 1] = IF i - 1 < j THEN f[i - 1] ELSE f[i - 1] * c
    BY <1>4
  <2>4. i \in 0 .. n
    OBVIOUS
  <2>5. CASE i < j
    <3>1. t[i] = s[i] /\ g[i - 1] = f[i - 1]
      BY <2>3, <2>5
    <3>. QED
      BY <2>1, <2>4, <2>5, <3>1
  <2>6. CASE i = j
    <3>1. t[i] = s[i] * c /\ g[i - 1] = f[i - 1]
      BY <2>3, <2>6
    <3>2. f[i - 1] * (s[i] * c) = (f[i - 1] * s[i]) * c
      BY <2>2
    <3>3. g[i] = f[i] * c
      BY <2>1, <3>1, <3>2, Zenon
    <3>. QED
      BY <2>4, <2>6, <3>3
  <2>7. CASE i > j
    <3>1. t[i] = s[i] /\ g[i - 1] = f[i - 1] * c
      BY <2>3, <2>7
    <3>2. (f[i - 1] * c) * s[i] = (f[i - 1] * s[i]) * c
      BY <2>2
    <3>3. g[i] = f[i] * c
      BY <2>1, <3>1, <3>2, Zenon
    <3>. QED
      BY <2>4, <2>7, <3>3
  <2>. QED
    BY <2>5, <2>6, <2>7
<1>5. 0 .. n \subseteq S
  <2>1. n \in Nat
    OBVIOUS
  <2> HIDE DEF S, n
  <2>. QED
    BY <1>3, <1>4, <2>1, InductionUpTo, Zenon
<1>6. n \in 0 .. n /\ ~(n < j)
  OBVIOUS
<1>7. n \in S
  BY <1>5, <1>6, Zenon
<1>. QED
  BY <1>1, <1>2, <1>6, <1>7

\* A product with a factor more.
LEMMA ProductOfAppend ==
  ASSUME NEW s \in Seq(Int), NEW t \in Seq(Int), Len(t) = Len(s) + 1,
         \A k \in 1 .. Len(s) : t[k] = s[k]
  PROVE  Product[t] = Product[s] * t[Len(t)]
<1>1. PICK f \in [0 .. Len(s) -> Int] : Products(s, f) /\ Product[s] = f[Len(s)]
  BY ProductIsProduct
<1>2. PICK g \in [0 .. Len(t) -> Int] : Products(t, g) /\ Product[t] = g[Len(t)]
  BY ProductIsProduct
<1> DEFINE n == Len(s)
           S == {i \in 0 .. n : g[i] = f[i]}
<1>3. 0 \in S
  BY <1>1, <1>2 DEF Products
<1>4. ASSUME NEW i \in 1 .. n, i - 1 \in S PROVE i \in S
  <2>1. i \in 1 .. Len(t) /\ t[i] = s[i]
    OBVIOUS
  <2>2. f[i] = f[i - 1] * s[i] /\ g[i] = g[i - 1] * t[i]
    BY <1>1, <1>2, <2>1 DEF Products
  <2>3. g[i - 1] = f[i - 1]
    BY <1>4
  <2>4. g[i] = f[i]
    BY <2>1, <2>2, <2>3, Zenon
  <2>. QED
    BY <2>4
<1>5. 0 .. n \subseteq S
  <2>1. n \in Nat
    OBVIOUS
  <2> HIDE DEF S, n
  <2>. QED
    BY <1>3, <1>4, <2>1, InductionUpTo, Zenon
<1>6. n \in 0 .. n /\ Len(t) \in 1 .. Len(t) /\ Len(t) - 1 = n
  OBVIOUS
<1>7. n \in S
  BY <1>5, <1>6, Zenon
<1>8. g[Len(t)] = g[Len(t) - 1] * t[Len(t)]
  BY <1>2, <1>6 DEF Products
<1>9. g[n] = f[n]
  BY <1>7
<1>. QED
  BY <1>1, <1>2, <1>6, <1>8, <1>9

\* The power of no factor.
LEMMA PowerOfZero == \A x \in Int : Power(x, 0) = 1
<1> SUFFICES ASSUME NEW x \in Int PROVE Power(x, 0) = 1
  OBVIOUS
<1> DEFINE s == [i \in 1 .. 0 |-> x]
<1>1. s \in Seq(Int) /\ Len(s) = 0
  OBVIOUS
<1> HIDE DEF s
<1>2. PICK f \in [0 .. Len(s) -> Int] : Products(s, f) /\ Product[s] = f[Len(s)]
  BY <1>1, ProductIsProduct
<1>3. Product[s] = 1
  BY <1>1, <1>2 DEF Products
<1>. QED
  BY <1>3 DEF Power, s

\* One factor more.
LEMMA PowerOfNext ==
  ASSUME NEW x \in Int, NEW n \in Nat
  PROVE  Power(x, n + 1) = Power(x, n) * x
<1> DEFINE s == [i \in 1 .. n |-> x]
           t == [i \in 1 .. n + 1 |-> x]
<1>1. /\ s \in Seq(Int) /\ Len(s) = n /\ t \in Seq(Int) /\ Len(t) = n + 1
      /\ t[n + 1] = x /\ \A k \in 1 .. n : t[k] = s[k]
  OBVIOUS
<1> HIDE DEF s, t
<1>2. Product[t] = Product[s] * x
  BY <1>1, ProductOfAppend
<1>. QED
  BY <1>2 DEF Power, s, t

\* A power of an integer is one.
LEMMA PowerType ==
  ASSUME NEW x \in Int, NEW n \in Nat
  PROVE  Power(x, n) \in Int
<1> DEFINE s == [i \in 1 .. n |-> x]
<1>1. s \in Seq(Int)
  OBVIOUS
<1> HIDE DEF s
<1>2. Product[s] \in Int
  BY <1>1, ProductType
<1>. QED
  BY <1>2 DEF Power, s

\* Powers of numbers greater than 1 are greater than 1.
LEMMA PowerIsLarge ==
  ASSUME NEW x \in Nat \ {0, 1}
  PROVE  /\ \A n \in Nat : Power(x, n) \in Nat /\ Power(x, n) > 0
         /\ \A n \in Nat \ {0} : Power(x, n) \in Nat \ {0, 1}
<1> DEFINE S == {n \in Nat : Power(x, n) >= 1 /\ (n > 0 => Power(x, n) >= 2)}
<1>1. 0 \in S
  BY PowerOfZero
<1>2. ASSUME NEW n \in Nat, n \in S PROVE n + 1 \in S
  <2>1. Power(x, n + 1) = Power(x, n) * x /\ Power(x, n) \in Int /\ Power(x, n) >= 1
    BY <1>2, PowerOfNext, PowerType
  <2> DEFINE p == Power(x, n)
  <2> HIDE DEF p
  <2>2. p \in Int /\ p >= 1 => p * x >= x
    <3> SUFFICES ASSUME p \in Int, p >= 1 PROVE p * x >= x
      OBVIOUS
    <3>1. p * x = (p - 1) * x + x
      OBVIOUS
    <3>2. (p - 1) * x >= 0
      OBVIOUS
    <3>3. p * x \in Int /\ (p - 1) * x \in Int
      OBVIOUS
    <3>. QED
      BY <3>1, <3>2, <3>3
  <2>3. Power(x, n + 1) >= 2
    BY <2>1, <2>2 DEF p
  <2>4. Power(x, n + 1) \in Int
    BY PowerType
  <2>. QED
    BY <2>3, <2>4
<1>3. Nat \subseteq S
  <2> HIDE DEF S
  <2>. QED
    BY <1>1, <1>2, Induction, Zenon
<1>4. ASSUME NEW n \in Nat
      PROVE  /\ Power(x, n) \in Int /\ Power(x, n) >= 1
             /\ n > 0 => Power(x, n) >= 2
  BY <1>3, PowerType
<1>. QED
  BY <1>4

\* The power of a sum of exponents is the product of the powers.
LEMMA PowerOfSum ==
  ASSUME NEW x \in Int, NEW m \in Nat, NEW n \in Nat
  PROVE  Power(x, m + n) = Power(x, m) * Power(x, n)
<1> DEFINE S == {k \in Nat : Power(x, m + k) = Power(x, m) * Power(x, k)}
<1>1. 0 \in S
  <2>1. m + 0 = m /\ Power(x, 0) = 1 /\ Power(x, m) \in Int
    BY PowerOfZero, PowerType
  <2>. QED
    BY <2>1
<1>2. ASSUME NEW k \in Nat, k \in S PROVE k + 1 \in S
  <2>1. m + (k + 1) = (m + k) + 1 /\ m + k \in Nat
    OBVIOUS
  <2>2. Power(x, (m + k) + 1) = Power(x, m + k) * x
    BY <2>1, PowerOfNext
  <2>3. Power(x, k + 1) = Power(x, k) * x
    BY PowerOfNext
  <2>4. Power(x, m) \in Int /\ Power(x, k) \in Int
    BY PowerType
  <2>5. Power(x, m + k) = Power(x, m) * Power(x, k)
    BY <1>2
  <2>6. (Power(x, m) * Power(x, k)) * x = Power(x, m) * (Power(x, k) * x)
    BY <2>4
  <2>7. Power(x, m + (k + 1)) = Power(x, m) * Power(x, k + 1)
    BY <2>1, <2>2, <2>3, <2>5, <2>6, Zenon
  <2>. QED
    BY <2>7
<1>3. Nat \subseteq S
  <2> HIDE DEF S
  <2>. QED
    BY <1>1, <1>2, Induction, Zenon
<1>. QED
  BY <1>3

-----------------------------------------------------------------------------
(***************************************************************************)
(* Division, common divisors, and what liftstd gives.                      *)
(***************************************************************************)

\* Division with remainder.
LEMMA Division ==
  ASSUME NEW y \in Nat \ {0}, NEW x \in Int
  PROVE  x % y \in 0 .. y - 1 /\ x \div y \in Int /\ x = y * (x \div y) + (x % y)
OBVIOUS

\* There is only one.
LEMMA DivisionIsUnique ==
  ASSUME NEW y \in Nat \ {0}, NEW x \in Int,
         NEW k \in Int, NEW r \in 0 .. y - 1, x = y * k + r
  PROVE  x % y = r /\ x \div y = k
OBVIOUS

\* Two numbers with a linear combination that is 1.
Comaximal(x, y) == \E u, v \in Int : u * x + v * y = 1

\* Linear combinations of two numbers.
IsCombination(n, x, y) == \E u, v \in Int : u * x + v * y = n

\* What the least positive combination d of two numbers leaves of another is 0.
LEMMA LeastCombinationDivides ==
  ASSUME NEW x \in Int, NEW y \in Int, NEW d \in Nat \ {0}, IsCombination(d, x, y),
         \A n \in Nat \ {0} : IsCombination(n, x, y) => d <= n,
         NEW z \in Int, IsCombination(z, x, y)
  PROVE  z % d = 0
<1>a. PICK u \in Int, v \in Int : u * x + v * y = d
  BY DEF IsCombination
<1>b. PICK a \in Int, b \in Int : a * x + b * y = z
  BY DEF IsCombination
<1> DEFINE q == z \div d
           r == z % d
<1>1. r \in 0 .. d - 1 /\ q \in Int /\ z = d * q + r
  BY Division
<1> HIDE DEF q, r
<1>2. r = (a - u * q) * x + (b - v * q) * y
  <2>1. d * q = (u * q) * x + (v * q) * y
    <3>1. (u * x + v * y) * q = (u * q) * x + (v * q) * y
      BY <1>1
    <3>. QED
      BY <1>a, <3>1
  <2>2. (a - u * q) * x = a * x - (u * q) * x
    BY <1>1
  <2>3. (b - v * q) * y = b * y - (v * q) * y
    BY <1>1
  <2>4. /\ (u * q) * x \in Int /\ (v * q) * y \in Int /\ d * q \in Int
        /\ a * x \in Int /\ b * y \in Int
    BY <1>1
  <2>. QED
    BY <1>1, <1>b, <2>1, <2>2, <2>3, <2>4
<1>3. a - u * q \in Int /\ b - v * q \in Int
  BY <1>1
<1>4. IsCombination(r, x, y)
  BY <1>2, <1>3, Zenon DEF IsCombination
<1>5. r \in Nat /\ ~(d <= r)
  BY <1>1
<1>6. r = 0
  BY <1>4, <1>5
<1>. QED
  BY <1>6 DEF r

\* A divisor of two numbers divides their combinations.
LEMMA DividesCombination ==
  ASSUME NEW n \in Nat \ {0}, NEW x \in Int, NEW y \in Int, x % n = 0, y % n = 0,
         NEW u \in Int, NEW v \in Int
  PROVE  (u * x + v * y) % n = 0
<1> DEFINE k == x \div n
           m == y \div n
<1>1. k \in Int /\ m \in Int /\ x = n * k /\ y = n * m
  <2>1. k \in Int /\ x = n * k + 0 /\ n * k \in Int
    BY Division
  <2>2. m \in Int /\ y = n * m + 0 /\ n * m \in Int
    BY Division
  <2> HIDE DEF k, m
  <2>. QED
    BY <2>1, <2>2
<1> HIDE DEF k, m
<1>2. u * x + v * y = n * (u * k + v * m) + 0
  <2>1. u * x = n * (u * k)
    BY <1>1
  <2>2. v * y = n * (v * m)
    BY <1>1
  <2>3. n * (u * k + v * m) = n * (u * k) + n * (v * m)
    BY <1>1
  <2>4. n * (u * k) \in Int /\ n * (v * m) \in Int
    BY <1>1
  <2>. QED
    BY <2>1, <2>2, <2>3, <2>4
<1>3. u * k + v * m \in Int /\ u * x + v * y \in Int /\ 0 \in 0 .. n - 1
  BY <1>1
<1>. QED
  BY <1>2, <1>3, DivisionIsUnique

\* Divisors of divisors are divisors.
LEMMA DividesTransitive ==
  ASSUME NEW n \in Nat \ {0}, NEW x \in Nat \ {0}, NEW y \in Int, x % n = 0, y % x = 0
  PROVE  y % n = 0
<1> DEFINE k == y \div x
<1>1. k \in Int /\ y = x * k + 0 /\ x * k \in Int
  BY Division
<1> HIDE DEF k
<1>2. y = k * x + 0 * x /\ 0 \in Int /\ x \in Int
  BY <1>1
<1>3. \A u, v \in Int : (u * x + v * x) % n = 0
  BY <1>2, DividesCombination
<1>. QED
  BY <1>1, <1>2, <1>3, Zenon

\* A divisor is not larger than what it divides.
LEMMA DivisorIsSmaller ==
  ASSUME NEW n \in Nat \ {0}, NEW x \in Nat \ {0}, x % n = 0
  PROVE  n <= x
<1>1. SUFFICES ASSUME x < n PROVE FALSE
  OBVIOUS
<1>2. x = n * 0 + x /\ x \in 0 .. n - 1
  BY <1>1
<1>3. x % n = x
  BY <1>2, DivisionIsUnique
<1>. QED
  BY <1>3

\* The greatest common divisor is a combination of the two numbers.
LEMMA GcdIsCombination ==
  ASSUME NEW x \in Nat, NEW y \in Nat \ {0}
  PROVE  /\ Gcd(x, y) \in 1 .. y /\ x % Gcd(x, y) = 0 /\ y % Gcd(x, y) = 0
         /\ IsCombination(Gcd(x, y), x, y)
<1> DEFINE T == {n \in Nat \ {0} : IsCombination(n, x, y)}
           D == {n \in 1 .. y : Divides(n, x) /\ Divides(n, y)}
<1>1. IsCombination(x, x, y) /\ IsCombination(y, x, y)
  <2>1. 1 * x + 0 * y = x /\ 0 * x + 1 * y = y /\ 0 \in Int /\ 1 \in Int
    OBVIOUS
  <2>. QED
    BY <2>1, Zenon DEF IsCombination
<1>2. PICK d \in T : \A n \in T : d <= n
  <2>1. T \in SUBSET Nat /\ y \in T
    BY <1>1
  <2> HIDE DEF T
  <2>. QED
    BY <2>1, LeastNumber
<1>3. IsCombination(d, x, y)
  BY <1>2
<1>4. d \in Nat \ {0} /\ d <= y
  BY <1>1, <1>2
<1>5. \A n \in Nat \ {0} : IsCombination(n, x, y) => d <= n
  BY <1>2
<1> HIDE DEF T
<1>6. x \in Int /\ y \in Int
  OBVIOUS
<1>7. x % d = 0 /\ y % d = 0
  BY <1>1, <1>3, <1>4, <1>5, <1>6, LeastCombinationDivides, Zenon
<1>8. d \in D
  BY <1>4, <1>7 DEF Divides
<1>9. ASSUME NEW n \in D PROVE n <= d
  <2>1. n \in Nat \ {0} /\ x % n = 0 /\ y % n = 0
    BY DEF Divides
  <2>2. d % n = 0
    <3>1. \A u, v \in Int : (u * x + v * y) % n = 0
      BY <2>1, DividesCombination
    <3>. QED
      BY <1>3, <3>1, Zenon DEF IsCombination
  <2>. QED
    BY <1>4, <2>1, <2>2, DivisorIsSmaller
<1>10. D \subseteq Int
  OBVIOUS
<1> HIDE DEF D
<1>11. Max(D) = d
  <2>1. \A m \in D : (\A n \in D : m >= n) <=> m = d
    BY <1>4, <1>8, <1>9, <1>10
  <2>. QED
    BY <1>8, <2>1 DEF Max
<1>12. Gcd(x, y) = d
  BY <1>11 DEF Gcd, D
<1>. QED
  BY <1>3, <1>4, <1>7, <1>12

\* Numbers without a common divisor are comaximal.
LEMMA CoprimeIsComaximal ==
  ASSUME NEW x \in Nat, NEW y \in Nat \ {0},
         \A n \in 2 .. y : ~(x % n = 0 /\ y % n = 0)
  PROVE  Comaximal(x, y)
<1>1. Gcd(x, y) \in 1 .. y /\ Gcd(x, y) \notin 2 .. y
  BY GcdIsCombination
<1>2. Gcd(x, y) = 1
  <2> DEFINE g == Gcd(x, y)
  <2>1. g \in 1 .. y /\ g \notin 2 .. y
    BY <1>1
  <2> HIDE DEF g
  <2>2. g = 1
    BY <2>1
  <2>. QED
    BY <2>2 DEF g
<1>. QED
  BY <1>2, GcdIsCombination DEF Comaximal, IsCombination

\* What is comaximal with two numbers is with their product.
LEMMA ComaximalWithProduct ==
  ASSUME NEW x \in Int, NEW y \in Int, NEW z \in Int,
         Comaximal(x, y), Comaximal(x, z)
  PROVE  Comaximal(x, y * z)
<1>1. PICK u \in Int, v \in Int : u * x + v * y = 1
  BY DEF Comaximal
<1>2. PICK p \in Int, q \in Int : p * x + q * z = 1
  BY DEF Comaximal
<1>3. (u * x + v * y) * (p * x + q * z)
        = (u * (p * x) + u * (q * z) + (v * y) * p) * x + (v * q) * (y * z)
  <2> DEFINE a == p * x + q * z
  <2>1. (u * x + v * y) * a = (u * x) * a + (v * y) * a
    OBVIOUS
  <2>2. (u * x) * a = (u * (p * x)) * x + (u * (q * z)) * x
    OBVIOUS
  <2>3. (v * y) * a = ((v * y) * p) * x + (v * q) * (y * z)
    OBVIOUS
  <2>4. (u * (p * x) + u * (q * z) + (v * y) * p) * x
          = (u * (p * x)) * x + (u * (q * z)) * x + ((v * y) * p) * x
    OBVIOUS
  <2>5. /\ (u * (p * x)) * x \in Int /\ (u * (q * z)) * x \in Int
        /\ ((v * y) * p) * x \in Int /\ (v * q) * (y * z) \in Int
    OBVIOUS
  <2> HIDE DEF a
  <2>6. (u * x + v * y) * a
          = (u * (p * x) + u * (q * z) + (v * y) * p) * x + (v * q) * (y * z)
    BY <2>1, <2>2, <2>3, <2>4, <2>5
  <2>. QED
    BY <2>6 DEF a
<1>4. (u * (p * x) + u * (q * z) + (v * y) * p) * x + (v * q) * (y * z) = 1
  BY <1>1, <1>2, <1>3
<1>5. u * (p * x) + u * (q * z) + (v * y) * p \in Int /\ v * q \in Int
  OBVIOUS
<1>. QED
  BY <1>4, <1>5 DEF Comaximal

\* So it is with every power.
LEMMA ComaximalWithPower ==
  ASSUME NEW x \in Int, NEW y \in Int, Comaximal(x, y), NEW n \in Nat
  PROVE  Comaximal(x, Power(y, n))
<1> DEFINE S == {k \in Nat : Comaximal(x, Power(y, k))}
<1>1. 0 \in S
  <2>1. 0 * x + 1 * 1 = 1
    OBVIOUS
  <2>2. Comaximal(x, 1)
    BY <2>1 DEF Comaximal
  <2>. QED
    BY <2>2, PowerOfZero
<1>2. ASSUME NEW k \in Nat, k \in S PROVE k + 1 \in S
  <2>1. Power(y, k) \in Int /\ Power(y, k + 1) = Power(y, k) * y
    BY PowerType, PowerOfNext
  <2>2. Comaximal(x, Power(y, k) * y)
    BY <1>2, <2>1, ComaximalWithProduct
  <2>. QED
    BY <2>1, <2>2
<1>3. Nat \subseteq S
  <2> HIDE DEF S
  <2>. QED
    BY <1>1, <1>2, Induction, Zenon
<1>. QED
  BY <1>3

\* The first coefficient of a combination can be chosen below the second number.
LEMMA CoefficientExists ==
  ASSUME NEW x \in Int, NEW y \in Nat \ {0}, NEW g \in Int,
         IsCombination(g, x, y)
  PROVE  \E t \in 0 .. y - 1 : (t * x) % y = g % y
<1>0. PICK u \in Int, v \in Int : u * x + v * y = g
  BY DEF IsCombination
<1> DEFINE t == u % y
           q == u \div y
           k == g \div y
           r == g % y
<1>1. t \in 0 .. y - 1 /\ q \in Int /\ u = y * q + t
  BY Division
<1>2. r \in 0 .. y - 1 /\ k \in Int /\ g = y * k + r
  BY Division
<1> HIDE DEF t, q, k, r
<1>3. t * x = y * ((k - v) - q * x) + r
  <2>1. u * x = (y * q) * x + t * x
    <3>1. (y * q + t) * x = (y * q) * x + t * x
      BY <1>1
    <3>. QED
      BY <1>1, <3>1
  <2>2. y * ((k - v) - q * x) = (y * k - v * y) - (y * q) * x
    BY <1>1, <1>2
  <2>3. /\ u * x \in Int /\ v * y \in Int /\ (y * q) * x \in Int /\ t * x \in Int
        /\ y * k \in Int /\ r \in Int
    BY <1>1, <1>2
  <2>. QED
    BY <1>0, <1>2, <2>1, <2>2, <2>3
<1>4. (k - v) - q * x \in Int /\ t * x \in Int
  BY <1>1, <1>2
<1>5. (t * x) % y = r
  <2> DEFINE z == t * x
             j == (k - v) - q * x
  <2>1. z \in Int /\ j \in Int /\ z = y * j + r
    BY <1>3, <1>4
  <2> HIDE DEF z, j
  <2>2. z % y = r
    BY <1>2, <2>1, DivisionIsUnique
  <2>. QED
    BY <2>2 DEF z
<1>. QED
  BY <1>1, <1>5 DEF r

\* The coefficients t of a combination of the numbers qs that is g.
Combines(t, qs, g) ==
  /\ t \in Seq(Int) /\ Len(t) = Len(qs)
  /\ Total[[i \in 1 .. Len(qs) |-> t[i] * qs[i]]] = g

\* The integers are closed under multiplication.
LEMMA ProductOfTwo == \A x, y \in Int : x * y \in Int
OBVIOUS

\* A combination with a number more.
LEMMA CombinesMore ==
  ASSUME NEW qs \in Seq(Int), NEW rs \in Seq(Int), Len(rs) = Len(qs) + 1,
         \A i \in 1 .. Len(qs) : rs[i] = qs[i],
         NEW h \in Int, NEW c, Combines(c, qs, h), NEW a \in Int, NEW b \in Int
  PROVE  Combines(Append([i \in 1 .. Len(c) |-> a * c[i]], b), rs,
                  a * h + b * rs[Len(rs)])
<1> DEFINE m == Len(qs)
           n == Len(rs)
           x == rs[n]
           bx == b * x
           e == [i \in 1 .. m |-> a * c[i]]
           d == Append(e, b)
           old == [i \in 1 .. m |-> c[i] * qs[i]]
           kept == [i \in 1 .. m |-> a * (c[i] * qs[i])]
           new == [i \in 1 .. n |-> d[i] * rs[i]]
<1>0. /\ m \in Nat /\ n = m + 1 /\ x \in Int /\ c \in Seq(Int) /\ Len(c) = m
      /\ Total[old] = h
      /\ \A i \in 1 .. m : qs[i] \in Int
      /\ n \in 1 .. n /\ \A i \in 1 .. m : i \in 1 .. n /\ i # n
      /\ \A i \in 1 .. n : i = n \/ i \in 1 .. m
  BY DEF Combines
<1>1. \A i \in 1 .. m : c[i] \in Int /\ qs[i] \in Int
  BY <1>0
<1>x. bx \in Int
  BY <1>0, ProductOfTwo, Zenon
<1> HIDE DEF m, n, x, bx
<1>2. old \in Seq(Int) /\ Len(old) = m
  <2>1. \A i \in 1 .. m : c[i] * qs[i] \in Int
    BY <1>1, ProductOfTwo, Zenon
  <2>2. old \in [1 .. m -> Int]
    BY <2>1
  <2>3. m \in Nat
    BY <1>0
  <2> HIDE DEF old
  <2>. QED
    BY <2>2, <2>3
<1>3. kept \in Seq(Int) /\ Len(kept) = m /\ \A i \in 1 .. m : kept[i] = a * old[i]
  <2>1. \A i \in 1 .. m : a * (c[i] * qs[i]) \in Int
    <3>1. ASSUME NEW i \in 1 .. m PROVE a * (c[i] * qs[i]) \in Int
      <4>1. c[i] * qs[i] \in Int
        BY <1>1, ProductOfTwo, Zenon
      <4>. QED
        BY <4>1, ProductOfTwo, Zenon
    <3>. QED
      BY <3>1
  <2>2. kept \in [1 .. m -> Int] /\ \A i \in 1 .. m : kept[i] = a * old[i]
    BY <2>1
  <2>3. m \in Nat
    BY <1>0
  <2> HIDE DEF kept
  <2>. QED
    BY <2>2, <2>3
<1>4. e \in Seq(Int) /\ Len(e) = m /\ \A i \in 1 .. m : e[i] = a * c[i]
  <2>1. \A i \in 1 .. m : a * c[i] \in Int
    BY <1>1, ProductOfTwo, Zenon
  <2>2. e \in [1 .. m -> Int] /\ \A i \in 1 .. m : e[i] = a * c[i]
    BY <2>1
  <2>3. m \in Nat
    BY <1>0
  <2> HIDE DEF e
  <2>. QED
    BY <2>2, <2>3
<1> HIDE DEF e
<1>5. /\ d \in Seq(Int) /\ Len(d) = n /\ d[n] = b
      /\ \A i \in 1 .. m : d[i] = a * c[i]
  BY <1>0, <1>4
<1> HIDE DEF d
<1>6. new = kept \o <<bx>>
  <2> DEFINE j == kept \o <<bx>>
  <2>1. new \in Seq(Int) /\ Len(new) = n
    <3>1. \A i \in 1 .. n : d[i] * rs[i] \in Int
      <4>1. \A i \in 1 .. n : d[i] \in Int /\ rs[i] \in Int
        BY <1>5 DEF n
      <4>. QED
        BY <4>1
    <3>2. new \in [1 .. n -> Int]
      BY <3>1
    <3>3. n \in Nat
      BY <1>0
    <3> HIDE DEF new
    <3>. QED
      BY <3>2, <3>3
  <2>2. /\ j \in Seq(Int) /\ Len(j) = n /\ j[n] = bx
        /\ \A i \in 1 .. m : j[i] = kept[i]
    <3>1. kept \in Seq(Int) /\ Len(kept) = m /\ m \in Nat /\ n = m + 1
      BY <1>0, <1>3
    <3> HIDE DEF kept
    <3>. QED
      BY <1>x, <3>1
  <2>3. ASSUME NEW i \in 1 .. m PROVE new[i] = kept[i]
    <3>1. new[i] = (a * c[i]) * qs[i]
      <4>1. new[i] = d[i] * rs[i]
        BY <1>0
      <4>2. rs[i] = qs[i]
        BY DEF m
      <4> HIDE DEF new
      <4>. QED
        BY <1>5, <4>1, <4>2
    <3>2. kept[i] = a * (c[i] * qs[i])
      OBVIOUS
    <3>3. (a * c[i]) * qs[i] = a * (c[i] * qs[i])
      BY <1>0, <1>1
    <3>. QED
      BY <3>1, <3>2, <3>3, Zenon
  <2>4. new[n] = bx
    <3>1. new[n] = d[n] * rs[n]
      BY <1>0
    <3> HIDE DEF new
    <3>. QED
      BY <1>0, <1>5, <3>1 DEF x, bx
  <2> HIDE DEF new, j, kept
  <2>5. \A i \in 1 .. n : new[i] = j[i]
    BY <1>0, <2>2, <2>3, <2>4
  <2>6. new = j
    BY <2>1, <2>2, <2>5, SeqEqual
  <2>. QED
    BY <2>6 DEF j
<1>7. Total[kept] = a * Total[old]
  <2> HIDE DEF old, kept
  <2>1. Len(kept) = Len(old) /\ \A i \in 1 .. Len(old) : kept[i] = a * old[i]
    BY <1>2, <1>3, Zenon
  <2>2. old \in Seq(Int) /\ kept \in Seq(Int)
    BY <1>2, <1>3, Zenon
  <2>. QED
    BY <2>1, <2>2, TotalOfMultiple, Zenon
<1>8. Total[new] = a * h + bx
  <2> HIDE DEF old, kept, new
  <2>1. <<bx>> \in Seq(Int) /\ Total[<<bx>>] = bx
    BY <1>x, TotalOfFew
  <2>2. Total[new] = Total[kept] + Total[<<bx>>]
    BY <1>3, <1>6, <2>1, TotalOfConcat
  <2>. QED
    BY <1>0, <1>7, <2>1, <2>2
<1>9. Combines(d, rs, a * h + bx)
  BY <1>5, <1>8 DEF Combines, n
<1>10. e = [i \in 1 .. Len(c) |-> a * c[i]]
  BY <1>0 DEF e
<1>. QED
  BY <1>9, <1>10 DEF d, n, x, bx

\* A number that divides all of some numbers and is a combination of them.
IsBasis(b, qs) ==
  /\ b \in Basis
  /\ Combines(b.t, qs, b.g)
  /\ \A i \in 1 .. Len(qs) : b.g > 0 /\ qs[i] % b.g = 0

\* The basis of the first numbers becomes one of all of them.
LEMMA WithNumberIsBasis ==
  ASSUME NEW qs \in Seq(Int), NEW rs \in Seq(Int), Len(rs) = Len(qs) + 1,
         \A i \in 1 .. Len(qs) : rs[i] = qs[i],
         NEW h, IsBasis(h, qs), rs[Len(rs)] \in Nat \ {0}
  PROVE  IsBasis(WithNumber[<<h, rs[Len(rs)]>>], rs)
<1> DEFINE n == Len(rs)
           q == rs[n]
           g == Gcd(h.g, q)
           coefficient == [d \in Nat |-> CHOOSE x \in 0 .. q - 1 : (x * h.g) % q = d % q]
           x == coefficient[g]
           b == (g - x * h.g) \div q
           c == Append([i \in 1 .. Len(h.t) |-> x * h.t[i]], b)
<1>1. h \in Basis /\ h.g \in Nat /\ h.t \in Seq(Int) /\ q \in Nat \ {0}
  BY DEF IsBasis, Basis
<1>2. WithNumber[<<h, q>>] = [g |-> g, t |-> c]
  <2> DEFINE p == <<h, q>>
  <2>1. p \in Basis \X (Nat \ {0}) /\ p[1] = h /\ p[2] = q
    BY <1>1
  <2> HIDE DEF p, q
  <2> DEFINE G(k, m) == Gcd(k.g, m)
             C(k, m) == [d \in Nat |-> CHOOSE y \in 0 .. m - 1 : (y * k.g) % m = d % m]
             X(k, m) == C(k, m)[G(k, m)]
             Of(k, m) ==
               [g |-> G(k, m),
                t |-> Append([i \in 1 .. Len(k.t) |-> X(k, m) * k.t[i]],
                             (G(k, m) - X(k, m) * k.g) \div m)]
  <2>2. WithNumber[p] = Of(p[1], p[2])
    BY <2>1, Zenon DEF WithNumber
  <2>3. Of(h, q) = [g |-> g, t |-> c]
    BY Zenon
  <2> HIDE DEF Of
  <2>4. WithNumber[p] = Of(h, q)
    BY <2>1, <2>2, Zenon
  <2>. QED
    BY <2>3, <2>4, Zenon DEF p
<1> HIDE DEF q
<1>3. g \in 1 .. q /\ h.g % g = 0 /\ q % g = 0 /\ IsCombination(g, h.g, q)
  BY <1>1, GcdIsCombination
<1> HIDE DEF g
<1>4. x \in 0 .. q - 1 /\ (x * h.g) % q = g % q
  <2> DEFINE Good(y) == (y * h.g) % q = g % q
  <2>1. \E y \in 0 .. q - 1 : Good(y)
    <3>1. h.g \in Int /\ g \in Int
      BY <1>1, <1>3
    <3>. QED
      BY <1>1, <1>3, <3>1, CoefficientExists, Zenon
  <2>2. x = CHOOSE y \in 0 .. q - 1 : Good(y)
    <3>1. g \in Nat
      BY <1>1, <1>3
    <3>. QED
      BY <3>1, Zenon
  <2> HIDE DEF Good, x
  <2>3. x \in 0 .. q - 1 /\ Good(x)
    BY <2>1, <2>2
  <2>. QED
    BY <2>3 DEF Good
<1> HIDE DEF x
<1>5. b \in Int /\ x * h.g + b * q = g
  <2> DEFINE y == x * h.g
             k == y \div q
             j == g \div q
             r == g % q
  <2>1. y \in Int
    BY <1>1, <1>4
  <2> HIDE DEF y
  <2>2. k \in Int /\ y = q * k + r
    <3>1. y % q = r
      BY <1>4 DEF y
    <3>. QED
      BY <1>1, <2>1, <3>1, Division
  <2>3. j \in Int /\ r \in 0 .. q - 1 /\ g = q * j + r
    BY <1>1, <1>3, Division
  <2> HIDE DEF k, j, r
  <2>4. /\ g - y = q * (j - k) + 0 /\ j - k \in Int /\ g - y \in Int
        /\ 0 \in 0 .. q - 1
    BY <1>1, <1>3, <2>1, <2>2, <2>3
  <2>5. (g - y) \div q = j - k
    BY <1>1, <2>4, DivisionIsUnique
  <2>6. y + (j - k) * q = g
    BY <1>1, <2>2, <2>3
  <2>7. b = j - k
    BY <2>5 DEF y
  <2>. QED
    BY <2>4, <2>6, <2>7 DEF y
<1> HIDE DEF b
<1>6. Combines(c, rs, g)
  <2>1. x \in Int
    BY <1>4
  <2>2. Combines(h.t, qs, h.g)
    BY DEF IsBasis
  <2>3. h.g \in Int /\ b \in Int
    BY <1>1, <1>5
  <2>4. Combines(c, rs, x * h.g + b * rs[Len(rs)])
    BY <2>1, <2>2, <2>3, CombinesMore, Zenon
  <2>. QED
    BY <1>5, <2>4 DEF q
<1>7. ASSUME NEW i \in 1 .. n PROVE rs[i] % g = 0
  <2>1. g \in Nat \ {0}
    BY <1>1, <1>3
  <2>2. CASE i = n
    BY <1>3, <2>2 DEF q
  <2>3. CASE i # n
    <3>1. i \in 1 .. Len(qs)
      BY <2>3
    <3>2. h.g \in Nat \ {0} /\ rs[i] % h.g = 0 /\ rs[i] \in Int
      BY <1>1, <3>1 DEF IsBasis
    <3>. QED
      BY <1>3, <2>1, <3>2, DividesTransitive
  <2>. QED
    BY <2>2, <2>3
<1>8. g \in Nat /\ g > 0 /\ c \in Seq(Int)
  BY <1>1, <1>3, <1>6 DEF Combines
<1> HIDE DEF c
<1>9. IsBasis([g |-> g, t |-> c], rs)
  BY <1>6, <1>7, <1>8 DEF IsBasis, Basis
<1>. QED
  BY <1>2, <1>9 DEF q

\* What liftstd gives is a basis of the ideal of its numbers.
LEMMA LiftstdIsBasis ==
  ASSUME NEW qs \in Seq(Nat \ {0})
  PROVE  IsBasis(Liftstd[qs], qs)
<1> DEFINE n == Len(qs)
           none == [g |-> 0, t |-> <<>>]
           Turn(f, k) == IF k = 0 THEN none ELSE WithNumber[<<f[k - 1], qs[k]>>]
           IsLoop(f) == f = [k \in 0 .. n |-> Turn(f, k)]
           s == CHOOSE f : IsLoop(f)
           First(k) == SubSeq(qs, 1, k)
           g == [p \in Basis \X (1 .. n) |-> WithNumber[<<p[1], qs[p[2]]>>]]
           g2 == [p \in Basis \X (1 .. n) |-> IF g[p] \in Basis THEN g[p] ELSE none]
<1>0. n \in Nat /\ qs \in Seq(Int) /\ \A i \in 1 .. n : qs[i] \in Nat \ {0}
  <2>1. \A i \in 1 .. n : qs[i] \in Nat \ {0}
    OBVIOUS
  <2>. QED
    BY <2>1, PositiveNumbers
<1>1. Liftstd[qs] = s[n]
  BY DEF Liftstd
<1>2. \A k \in 0 .. n : First(k) \in Seq(Int) /\ Len(First(k)) = k
                        /\ \A i \in 1 .. k : First(k)[i] = qs[i]
  <2> SUFFICES ASSUME NEW k \in 0 .. n
               PROVE  First(k) \in Seq(Int) /\ Len(First(k)) = k
                      /\ \A i \in 1 .. k : First(k)[i] = qs[i]
    OBVIOUS
  <2>1. k \in 0 .. Len(qs)
    OBVIOUS
  <2>. QED
    BY <1>0, <2>1, PartsOfList
<1>3. First(n) = qs
  <2>1. n \in 0 .. n
    BY <1>0
  <2>2. First(n) \in Seq(Int) /\ Len(First(n)) = n
        /\ \A i \in 1 .. n : First(n)[i] = qs[i]
    BY <1>2, <2>1
  <2> HIDE DEF First
  <2>. QED
    BY <1>0, <2>2, SeqEqual
<1> HIDE DEF First
<1>4. none \in Basis /\ IsBasis(none, First(0))
  <2>1. First(0) \in Seq(Int) /\ Len(First(0)) = 0
    BY <1>0, <1>2
  <2>2. <<>> \in Seq(Int) /\ Len(<<>>) = 0 /\ Total[<<>>] = 0
    BY TotalOfFew
  <2>3. [i \in 1 .. Len(First(0)) |-> <<>>[i] * First(0)[i]] = <<>>
    BY <2>1
  <2>4. Combines(<<>>, First(0), 0)
    BY <2>1, <2>2, <2>3 DEF Combines
  <2>5. none \in Basis /\ none.g = 0 /\ none.t = <<>>
    BY <2>2 DEF Basis
  <2>6. \A i \in 1 .. Len(First(0)) : FALSE
    BY <2>1
  <2> HIDE DEF none
  <2>. QED
    BY <2>4, <2>5, <2>6 DEF IsBasis
<1>5. ASSUME NEW k \in 1 .. n, NEW h, IsBasis(h, First(k - 1))
      PROVE  IsBasis(WithNumber[<<h, qs[k]>>], First(k))
  <2>1. k - 1 \in 0 .. n /\ k \in 0 .. n /\ k \in 1 .. k
        /\ \A i \in 1 .. k - 1 : i \in 1 .. k
    BY <1>0
  <2>2. /\ First(k - 1) \in Seq(Int) /\ Len(First(k - 1)) = k - 1
        /\ \A i \in 1 .. k - 1 : First(k - 1)[i] = qs[i]
    BY <1>2, <2>1
  <2>3. /\ First(k) \in Seq(Int) /\ Len(First(k)) = k
        /\ \A i \in 1 .. k : First(k)[i] = qs[i]
    BY <1>2, <2>1
  <2>4. /\ Len(First(k)) = Len(First(k - 1)) + 1
        /\ First(k)[Len(First(k))] = qs[k] /\ qs[k] \in Nat \ {0}
        /\ \A i \in 1 .. Len(First(k - 1)) : First(k)[i] = First(k - 1)[i]
    <3>1. qs[k] \in Nat \ {0} /\ (k - 1) + 1 = k
      BY <1>0
    <3>. QED
      BY <2>1, <2>2, <2>3, <3>1
  <2>. QED
    BY <1>5, <2>2, <2>3, <2>4, WithNumberIsBasis
<1>6. PICK f \in [0 .. n -> Basis] : Loop(f, none, g2, n)
  <2>1. g2 \in [Basis \X (1 .. n) -> Basis]
    <3> HIDE DEF g, none, n
    <3>. QED
      BY <1>4
  <2> HIDE DEF g2, n, none
  <2>. QED
    BY <1>0, <1>4, <2>1, LoopExists, Zenon
<1> HIDE DEF none
<1> DEFINE S == {k \in 0 .. n : IsBasis(f[k], First(k))}
<1>7. 0 \in S
  BY <1>0, <1>4, <1>6 DEF Loop
<1>8. ASSUME NEW k \in 1 .. n, k - 1 \in S
      PROVE  k \in S /\ f[k] = WithNumber[<<f[k - 1], qs[k]>>]
  <2> DEFINE h == f[k - 1]
             p == <<h, k>>
             b == WithNumber[<<h, qs[k]>>]
  <2>1. IsBasis(h, First(k - 1)) /\ k \in 0 .. n
    BY <1>0, <1>8
  <2>2. h \in Basis
    BY <2>1 DEF IsBasis
  <2> HIDE DEF h
  <2>3. IsBasis(b, First(k))
    BY <1>5, <2>1
  <2>4. b \in Basis
    BY <2>3 DEF IsBasis
  <2>5. p \in Basis \X (1 .. n) /\ p[1] = h /\ p[2] = k
    BY <2>2
  <2> HIDE DEF p
  <2>6. g[p] = b
    BY <2>5
  <2> HIDE DEF g, b
  <2>7. g2[p] = b
    BY <2>4, <2>5, <2>6
  <2>8. f[k] = g2[p]
    BY <1>6 DEF Loop, p, h
  <2>9. f[k] = b
    BY <2>7, <2>8
  <2>. QED
    BY <2>1, <2>3, <2>9 DEF b, h
<1>9. 0 .. n \subseteq S
  <2>1. \A k \in 1 .. n : k - 1 \in S => k \in S
    BY <1>8
  <2> HIDE DEF S, n
  <2>. QED
    BY <1>0, <1>7, <2>1, InductionUpTo, Zenon
<1>10. IsLoop(f)
  <2>1. ASSUME NEW k \in 0 .. n PROVE f[k] = Turn(f, k)
    <3>1. CASE k = 0
      BY <1>6, <3>1 DEF Loop
    <3>2. CASE k # 0
      <4>1. k \in 1 .. n /\ k - 1 \in 0 .. n
        BY <1>0, <3>2
      <4>2. k - 1 \in S
        BY <1>9, <4>1
      <4> HIDE DEF S
      <4>. QED
        BY <1>8, <3>2, <4>1, <4>2
    <3>. QED
      BY <3>1, <3>2
  <2> HIDE DEF Turn, n
  <2>. QED
    BY <1>6, <2>1
<1>11. IsLoop(s)
  <2> HIDE DEF IsLoop
  <2>. QED
    BY <1>10
<1> HIDE DEF s
<1> DEFINE T == {k \in 0 .. n : s[k] = f[k]}
<1>12. 0 \in T
  <2>1. s[0] = none
    BY <1>0, <1>11
  <2>. QED
    BY <1>0, <1>6, <2>1 DEF Loop
<1>13. ASSUME NEW k \in 1 .. n, k - 1 \in T PROVE k \in T
  <2>1. k - 1 \in S /\ k \in 0 .. n /\ k # 0
    BY <1>0, <1>9
  <2>2. s[k] = Turn(s, k)
    <3> HIDE DEF Turn, n
    <3>. QED
      BY <1>11, <2>1
  <2>3. s[k - 1] = f[k - 1]
    BY <1>13
  <2> HIDE DEF S
  <2>. QED
    BY <1>8, <2>1, <2>2, <2>3
<1>14. 0 .. n \subseteq T
  <2> HIDE DEF T, n
  <2>. QED
    BY <1>0, <1>12, <1>13, InductionUpTo, Zenon
<1>15. s[n] = f[n] /\ IsBasis(f[n], First(n))
  <2>1. n \in 0 .. n
    BY <1>0
  <2>. QED
    BY <1>9, <1>14, <2>1
<1>. QED
  BY <1>1, <1>3, <1>15

-----------------------------------------------------------------------------
(***************************************************************************)
(* The weight of a denominator.                                            *)
(***************************************************************************)

\* The exponent of a factor: the one at its place, or 0.
LEMMA ExpOfFactor ==
  ASSUME NEW d \in Denominators
  PROVE  /\ \A i \in 1 .. Len(d.ind) : ExpOf(d, d.ind[i]) = d.exp[i]
         /\ \A k : (\A i \in 1 .. Len(d.ind) : d.ind[i] # k) => ExpOf(d, k) = 0
         /\ \A k : ExpOf(d, k) \in 0 .. MaxExp
<1>0. /\ DOMAIN d.ind = 1 .. Len(d.ind) /\ Len(d.ind) \in Nat /\ Ascending(d.ind)
      /\ \A i \in 1 .. Len(d.ind) : d.ind[i] \in Nat /\ d.exp[i] \in 1 .. MaxExp
  <2>1. DOMAIN Q \subseteq Nat
    BY FactorsAssumption
  <2>2. d.ind \in Seq(DOMAIN Q)
    BY DenominatorParts
  <2>3. DOMAIN d.ind = 1 .. Len(d.ind)
    BY <2>2
  <2>. QED
    BY <2>1, <2>3, DenominatorParts
<1>1. ASSUME NEW i \in 1 .. Len(d.ind) PROVE ExpOf(d, d.ind[i]) = d.exp[i]
  <2> DEFINE c == CHOOSE j \in DOMAIN d.ind : d.ind[j] = d.ind[i]
  <2>1. c \in 1 .. Len(d.ind) /\ d.ind[c] = d.ind[i]
    BY <1>0
  <2> HIDE DEF c
  <2>2. ~(c < i) /\ ~(i < c)
    <3>1. /\ c < i => d.ind[c] < d.ind[i]
          /\ i < c => d.ind[i] < d.ind[c]
      BY <1>0, <2>1 DEF Ascending
    <3>2. d.ind[i] \in Nat
      BY <1>0
    <3>. QED
      BY <2>1, <3>1, <3>2
  <2>3. c = i
    BY <2>1, <2>2
  <2>4. ExpOf(d, d.ind[i]) = d.exp[c]
    <3>1. \E j \in DOMAIN d.ind : d.ind[j] = d.ind[i]
      BY <1>0
    <3>. QED
      BY <3>1 DEF ExpOf, c
  <2>. QED
    BY <2>3, <2>4
<1>2. ASSUME NEW k, \A i \in 1 .. Len(d.ind) : d.ind[i] # k PROVE ExpOf(d, k) = 0
  BY <1>0, <1>2 DEF ExpOf
<1>3. ASSUME NEW k PROVE ExpOf(d, k) \in 0 .. MaxExp
  <2>1. CASE \A i \in 1 .. Len(d.ind) : d.ind[i] # k
    BY <1>2, <2>1, MaxExpAssumption
  <2>2. ASSUME NEW i \in 1 .. Len(d.ind), d.ind[i] = k PROVE ExpOf(d, k) \in 0 .. MaxExp
    BY <1>0, <1>1, <2>2, MaxExpAssumption
  <2>. QED
    BY <2>1, <2>2
<1>. QED
  BY <1>1, <1>2, <1>3

\* No factor is a unit.
LEMMA FactorsAreLarge ==
  \A k \in DOMAIN Q : k \in 1 .. Len(Q) /\ Q[k] \in Nat \ {0, 1} /\ Q[k] \in Int
BY FactorsAssumption

\* The weight of a denominator is the product of the powers that it lacks.
LEMMA WeightType ==
  ASSUME NEW d \in Denominators
  PROVE  /\ [k \in 1 .. Len(Q) |-> Power(Q[k], MaxExp - ExpOf(d, k))] \in Seq(Int)
         /\ Weight[d] = Product[[k \in 1 .. Len(Q) |->
                                   Power(Q[k], MaxExp - ExpOf(d, k))]]
         /\ Weight[d] \in Int
<1> DEFINE p == [k \in 1 .. Len(Q) |-> Power(Q[k], MaxExp - ExpOf(d, k))]
<1>1. ASSUME NEW k \in 1 .. Len(Q) PROVE Power(Q[k], MaxExp - ExpOf(d, k)) \in Int
  <2>1. Q[k] \in Int
    BY FactorsAssumption
  <2>2. MaxExp - ExpOf(d, k) \in Nat
    <3>1. ExpOf(d, k) \in 0 .. MaxExp /\ MaxExp \in Nat
      BY ExpOfFactor, MaxExpAssumption
    <3>. QED
      BY <3>1
  <2>. QED
    BY <2>1, <2>2, PowerType
<1>2. p \in Seq(Int)
  <2>1. Len(Q) \in Nat
    BY FactorsAssumption
  <2>. QED
    BY <1>1, <2>1
<1>3. Weight[d] = Product[p]
  BY DEF Weight
<1> HIDE DEF p
<1>4. Product[p] \in Int
  BY <1>2, ProductType
<1>. QED
  BY <1>2, <1>3, <1>4 DEF p

\* A denominator with a factor less often has a larger weight.
LEMMA WeightOfLess ==
  ASSUME NEW d \in Denominators, NEW e \in Denominators,
         NEW j \in 1 .. Len(Q), NEW n \in Nat, ExpOf(d, j) = ExpOf(e, j) + n,
         \A k \in 1 .. Len(Q) : k # j => ExpOf(e, k) = ExpOf(d, k)
  PROVE  Weight[e] = Weight[d] * Power(Q[j], n)
<1> DEFINE s == [k \in 1 .. Len(Q) |-> Power(Q[k], MaxExp - ExpOf(d, k))]
           t == [k \in 1 .. Len(Q) |-> Power(Q[k], MaxExp - ExpOf(e, k))]
           c == Power(Q[j], n)
<1>0. Len(Q) \in Nat /\ Q[j] \in Int
  BY FactorsAssumption
<1>1. s \in Seq(Int) /\ t \in Seq(Int)
  BY WeightType
<1>2. Len(s) = Len(Q) /\ Len(t) = Len(Q)
  BY <1>0
<1>3. Weight[d] = Product[s] /\ Weight[e] = Product[t]
  BY WeightType
<1>4. t[j] = s[j] * c
  <2>1. /\ ExpOf(d, j) \in Nat /\ ExpOf(d, j) <= MaxExp /\ ExpOf(e, j) \in Nat
        /\ MaxExp \in Nat
    BY ExpOfFactor, MaxExpAssumption
  <2>2. MaxExp - ExpOf(e, j) = (MaxExp - ExpOf(d, j)) + n /\ MaxExp - ExpOf(d, j) \in Nat
    BY <2>1
  <2>3. Power(Q[j], (MaxExp - ExpOf(d, j)) + n) = Power(Q[j], MaxExp - ExpOf(d, j)) * c
    BY <1>0, <2>2, PowerOfSum
  <2>. QED
    BY <2>2, <2>3
<1>5. \A k \in 1 .. Len(Q) : k # j => t[k] = s[k]
  OBVIOUS
<1>6. c \in Int
  BY <1>0, PowerType
<1> HIDE DEF s, t, c
<1>7. Product[t] = Product[s] * c
  BY <1>1, <1>2, <1>4, <1>5, <1>6, ProductOfChanged
<1>. QED
  BY <1>3, <1>7 DEF c

\* What is where after a factor has been taken out.
LEMMA WithoutAt ==
  ASSUME NEW d \in Denominators, NEW i \in 1 .. Len(d.ind)
  PROVE  LET e == Without(d, i)
         IN  /\ Len(e.ind) = Len(d.ind) - 1
             /\ \A k \in 1 .. Len(d.ind) - 1 :
                  /\ e.ind[k] = IF k < i THEN d.ind[k] ELSE d.ind[k + 1]
                  /\ e.exp[k] = IF k < i THEN d.exp[k] ELSE d.exp[k + 1]
<1>1. d.ind \in Seq(DOMAIN Q) /\ d.exp \in Seq(Int) /\ Len(d.exp) = Len(d.ind)
  BY DenominatorParts
<1>2. /\ Len(RemoveAt(d.ind, i)) = Len(d.ind) - 1
      /\ \A k \in 1 .. Len(d.ind) - 1 :
           RemoveAt(d.ind, i)[k] = IF k < i THEN d.ind[k] ELSE d.ind[k + 1]
  BY <1>1, RemovedAt
<1>3. \A k \in 1 .. Len(d.exp) - 1 :
        RemoveAt(d.exp, i)[k] = IF k < i THEN d.exp[k] ELSE d.exp[k + 1]
  <2>1. i \in 1 .. Len(d.exp)
    BY <1>1
  <2>. QED
    BY <1>1, <2>1, RemovedAt
<1>. QED
  BY <1>1, <1>2, <1>3 DEF Without

\* Taking out a factor changes no other exponent.
LEMMA ExpOfWithout ==
  ASSUME NEW d \in Denominators, NEW i \in 1 .. Len(d.ind)
  PROVE  /\ ExpOf(Without(d, i), d.ind[i]) = 0
         /\ \A k : k # d.ind[i] => ExpOf(Without(d, i), k) = ExpOf(d, k)
<1> DEFINE e == Without(d, i)
           n == Len(d.ind)
           At(k) == IF k < i THEN k ELSE k + 1
<1>0. /\ e \in Denominators /\ Len(e.ind) = n - 1 /\ n \in Nat
      /\ \A k \in 1 .. n - 1 : e.ind[k] = d.ind[At(k)] /\ e.exp[k] = d.exp[At(k)]
  BY WithoutIsDenominator, WithoutAt, DenominatorParts
<1>1. \A k \in 1 .. n - 1 : At(k) \in 1 .. n /\ At(k) # i
  BY <1>0
<1>2. ASSUME NEW k \in 1 .. n, k # i PROVE \E m \in 1 .. n - 1 : At(m) = k
  <2>1. CASE k < i
    <3>1. k \in 1 .. n - 1 /\ At(k) = k
      BY <1>0, <2>1
    <3>. QED
      BY <3>1
  <2>2. CASE k > i
    <3>1. k - 1 \in 1 .. n - 1 /\ At(k - 1) = k
      BY <1>0, <2>2
    <3>. QED
      BY <3>1
  <2>. QED
    BY <1>2, <2>1, <2>2
<1> HIDE DEF e, At
<1>3. \A k \in 1 .. n : k # i => d.ind[k] # d.ind[i]
  <2> SUFFICES ASSUME NEW k \in 1 .. n, k # i PROVE d.ind[k] # d.ind[i]
    OBVIOUS
  <2>1. Ascending(d.ind) /\ d.ind[k] \in Nat /\ d.ind[i] \in Nat
    <3>1. DOMAIN Q \subseteq Nat
      BY FactorsAssumption
    <3>. QED
      BY <3>1, DenominatorParts
  <2>2. k < i \/ i < k
    OBVIOUS
  <2>3. d.ind[k] < d.ind[i] \/ d.ind[i] < d.ind[k]
    BY <2>1, <2>2 DEF Ascending
  <2>. QED
    BY <2>1, <2>3
<1>4. ExpOf(e, d.ind[i]) = 0
  <2>1. \A k \in 1 .. Len(e.ind) : e.ind[k] # d.ind[i]
    BY <1>0, <1>1, <1>3
  <2>. QED
    BY <1>0, <2>1, ExpOfFactor
<1>5. ASSUME NEW k, k # d.ind[i] PROVE ExpOf(e, k) = ExpOf(d, k)
  <2>1. CASE \E m \in 1 .. n : d.ind[m] = k
    <3>1. PICK m \in 1 .. n : d.ind[m] = k
      BY <2>1
    <3>2. PICK l \in 1 .. n - 1 : At(l) = m
      BY <1>2, <1>5, <3>1
    <3>3. l \in 1 .. Len(e.ind) /\ e.ind[l] = k /\ e.exp[l] = d.exp[m]
      BY <1>0, <3>1, <3>2
    <3>4. ExpOf(e, e.ind[l]) = e.exp[l]
      BY <1>0, <3>3, ExpOfFactor
    <3>5. ExpOf(d, d.ind[m]) = d.exp[m]
      BY <3>1, ExpOfFactor
    <3>. QED
      BY <3>1, <3>3, <3>4, <3>5
  <2>2. CASE \A m \in 1 .. n : d.ind[m] # k
    <3>1. \A m \in 1 .. Len(e.ind) : e.ind[m] # k
      BY <1>0, <1>1, <2>2
    <3>2. ExpOf(e, k) = 0
      BY <1>0, <3>1, ExpOfFactor
    <3>3. ExpOf(d, k) = 0
      BY <2>2, ExpOfFactor
    <3>. QED
      BY <3>2, <3>3
  <2>. QED
    BY <2>1, <2>2
<1>. QED
  BY <1>4, <1>5 DEF e

\* Neither does lowering one.
LEMMA ExpOfLowered ==
  ASSUME NEW d \in Denominators, NEW i \in 1 .. Len(d.ind)
  PROVE  /\ ExpOf(Lowered(d, i), d.ind[i]) = d.exp[i] - 1
         /\ \A k : k # d.ind[i] => ExpOf(Lowered(d, i), k) = ExpOf(d, k)
<1>1. CASE d.exp[i] = 1
  BY <1>1, ExpOfWithout DEF Lowered
<1>2. CASE d.exp[i] # 1
  <2> DEFINE e == Lowered(d, i)
  <2>1. e \in Denominators
    BY LoweredIsDenominator
  <2>2. e.ind = d.ind /\ e.exp = [d.exp EXCEPT ![i] = d.exp[i] - 1]
    <3>1. d \in [ind : Seq(DOMAIN Q), exp : Seq(1 .. MaxExp)]
      BY DenominatorsMeans
    <3>. QED
      BY <1>2, <3>1 DEF Lowered
  <2>3. /\ e.exp[i] = d.exp[i] - 1
        /\ \A k \in 1 .. Len(d.ind) : k # i => e.exp[k] = d.exp[k]
    <3>1. d.exp \in Seq(Int) /\ Len(d.exp) = Len(d.ind)
      BY DenominatorParts
    <3>. QED
      BY <2>2, <3>1
  <2> HIDE DEF e
  <2>4. ExpOf(e, d.ind[i]) = d.exp[i] - 1
    <3>1. ExpOf(e, e.ind[i]) = e.exp[i]
      <4>1. i \in 1 .. Len(e.ind)
        BY <2>2
      <4>. QED
        BY <2>1, <4>1, ExpOfFactor
    <3>. QED
      BY <2>2, <2>3, <3>1
  <2>5. ASSUME NEW k, k # d.ind[i] PROVE ExpOf(e, k) = ExpOf(d, k)
    <3>1. ASSUME NEW m \in 1 .. Len(d.ind), d.ind[m] = k PROVE ExpOf(e, k) = ExpOf(d, k)
      <4>1. m # i /\ m \in 1 .. Len(e.ind) /\ e.ind[m] = k
        BY <2>2, <2>5, <3>1
      <4>2. ExpOf(e, e.ind[m]) = e.exp[m] /\ ExpOf(d, d.ind[m]) = d.exp[m]
        BY <2>1, <4>1, ExpOfFactor
      <4>. QED
        BY <2>3, <3>1, <4>1, <4>2
    <3>2. CASE \A m \in 1 .. Len(d.ind) : d.ind[m] # k
      <4>1. ExpOf(e, k) = 0
        BY <2>1, <2>2, <3>2, ExpOfFactor
      <4>2. ExpOf(d, k) = 0
        BY <3>2, ExpOfFactor
      <4>. QED
        BY <4>1, <4>2
    <3>. QED
      BY <3>1, <3>2
  <2>. QED
    BY <2>4, <2>5 DEF e
<1>. QED
  BY <1>1, <1>2

\* A term without a factor is worth as much more as the power of that factor, and
\* one with one power less as much more as the factor.
LEMMA WeightOfParts ==
  ASSUME NEW d \in Denominators, NEW i \in 1 .. Len(d.ind)
  PROVE  /\ Weight[Without(d, i)] = Weight[d] * Power(Q[d.ind[i]], d.exp[i])
         /\ Weight[Lowered(d, i)] = Weight[d] * Q[d.ind[i]]
<1> DEFINE j == d.ind[i]
           x == d.exp[i]
<1>1. /\ j \in 1 .. Len(Q) /\ x \in Nat \ {0} /\ ExpOf(d, j) = x
      /\ Q[j] \in Int
  <2>1. j \in DOMAIN Q /\ x \in 1 .. MaxExp
    BY DenominatorParts
  <2>2. ExpOf(d, j) = x
    BY ExpOfFactor
  <2>3. x \in Nat \ {0}
    BY <2>1, MaxExpAssumption
  <2>. QED
    BY <2>1, <2>2, <2>3, FactorsAreLarge
<1>2. /\ Without(d, i) \in Denominators
      /\ ExpOf(Without(d, i), j) = 0
      /\ \A k \in 1 .. Len(Q) : k # j => ExpOf(Without(d, i), k) = ExpOf(d, k)
  BY WithoutIsDenominator, ExpOfWithout
<1>3. /\ Lowered(d, i) \in Denominators
      /\ ExpOf(Lowered(d, i), j) = x - 1
      /\ \A k \in 1 .. Len(Q) : k # j => ExpOf(Lowered(d, i), k) = ExpOf(d, k)
  BY LoweredIsDenominator, ExpOfLowered
<1> HIDE DEF j, x
<1>4. Weight[Without(d, i)] = Weight[d] * Power(Q[j], x)
  <2>1. ExpOf(d, j) = ExpOf(Without(d, i), j) + x
    BY <1>1, <1>2
  <2>. QED
    BY <1>1, <1>2, <2>1, WeightOfLess
<1>5. Weight[Lowered(d, i)] = Weight[d] * Power(Q[j], 1)
  <2>1. ExpOf(d, j) = ExpOf(Lowered(d, i), j) + 1
    BY <1>1, <1>3
  <2>. QED
    BY <1>1, <1>3, <2>1, WeightOfLess
<1>6. Power(Q[j], 1) = Q[j]
  <2>1. Power(Q[j], 0 + 1) = Power(Q[j], 0) * Q[j] /\ Power(Q[j], 0) = 1
    BY <1>1, PowerOfNext, PowerOfZero
  <2>. QED
    BY <1>1, <2>1
<1>. QED
  BY <1>4, <1>5, <1>6 DEF j, x

-----------------------------------------------------------------------------
(***************************************************************************)
(* What a list of terms adds up to.                                        *)
(***************************************************************************)

\* Terms of which the numerator may be 0.
Fraction == [num : Int, den : Denominators]

WorthOf(e) == e.num * Weight[e.den]

Worths(list) == [i \in 1 .. Len(list) |-> list[i].num * Weight[list[i].den]]

\* The terms of a step are fractions with a denominator of the step.
LEMMA TermIsFraction ==
  /\ Term(Denominators) \subseteq Fraction
  /\ \A list \in Seq(Term(Denominators)) : list \in Seq(Fraction)
  /\ \A list \in Sorted(Denominators) : list \in Seq(Fraction)
<1>1. Term(Denominators) \subseteq Fraction
  BY DEF Term, Fraction
<1>2. ASSUME NEW list \in Seq(Term(Denominators)) PROVE list \in Seq(Fraction)
  <2>1. \A i \in 1 .. Len(list) : list[i] \in Fraction
    BY <1>1
  <2>. QED
    BY <2>1
<1>3. \A list \in Sorted(Denominators) : list \in Seq(Term(Denominators))
  BY DEF Sorted
<1>. QED
  BY <1>1, <1>2, <1>3

\* A term is worth an integer.
LEMMA WorthOfType ==
  ASSUME NEW e \in Fraction
  PROVE  WorthOf(e) \in Int
<1>1. e.num \in Int /\ e.den \in Denominators
  BY DEF Fraction
<1>2. Weight[e.den] \in Int
  BY <1>1, WeightType
<1>. QED
  BY <1>1, <1>2 DEF WorthOf

\* So is a list: the sum of what its terms are worth.
LEMMA WorthsType ==
  ASSUME NEW list \in Seq(Fraction)
  PROVE  /\ Worths(list) \in Seq(Int) /\ Len(Worths(list)) = Len(list)
         /\ \A i \in 1 .. Len(list) : /\ Worths(list)[i] = WorthOf(list[i])
                                      /\ WorthOf(list[i]) \in Int
         /\ Worth(list) = Total[Worths(list)]
         /\ Worth(list) \in Int
<1>1. Len(list) \in Nat /\ \A i \in 1 .. Len(list) : list[i] \in Fraction
  OBVIOUS
<1>2. \A i \in 1 .. Len(list) : WorthOf(list[i]) \in Int
  BY <1>1, WorthOfType
<1>3. Worths(list) = [i \in 1 .. Len(list) |-> WorthOf(list[i])]
  BY DEF Worths, WorthOf
<1>4. Worths(list) \in Seq(Int) /\ Len(Worths(list)) = Len(list)
  BY <1>1, <1>2, <1>3
<1>5. Worth(list) = Total[Worths(list)]
  BY DEF Worth, Worths
<1>6. Worth(list) \in Int
  BY <1>4, <1>5, TotalType
<1>. QED
  BY <1>2, <1>3, <1>4, <1>5, <1>6

\* What lists of no term and of one are worth.
LEMMA WorthOfFew ==
  Worth(<<>>) = 0 /\ \A e \in Fraction : Worth(<<e>>) = WorthOf(e)
<1>1. Worth(<<>>) = 0
  <2>1. <<>> \in Seq(Fraction) /\ Len(<<>>) = 0
    OBVIOUS
  <2>2. Worths(<<>>) \in Seq(Int) /\ Len(Worths(<<>>)) = 0 /\ Worth(<<>>) = Total[Worths(<<>>)]
    <3> DEFINE l == <<>>
    <3>1. l \in Seq(Fraction) /\ Len(l) = 0
      BY <2>1
    <3> HIDE DEF l
    <3>2. Worths(l) \in Seq(Int) /\ Len(Worths(l)) = 0 /\ Worth(l) = Total[Worths(l)]
      BY <3>1, WorthsType
    <3>. QED
      BY <3>2 DEF l
  <2> DEFINE w == Worths(<<>>)
  <2> HIDE DEF w
  <2>3. w \in Seq(Int) /\ Len(w) = 0 /\ Worth(<<>>) = Total[w]
    BY <2>2 DEF w
  <2>4. w = <<>>
    BY <2>3
  <2>. QED
    BY <2>3, <2>4, TotalOfFew
<1>2. ASSUME NEW e \in Fraction PROVE Worth(<<e>>) = WorthOf(e)
  <2> DEFINE l == <<e>>
             w == Worths(l)
             x == WorthOf(e)
  <2>1. l \in Seq(Fraction) /\ Len(l) = 1 /\ l[1] = e
    OBVIOUS
  <2>2. x \in Int
    BY WorthOfType
  <2> HIDE DEF l
  <2>3. w \in Seq(Int) /\ Len(w) = 1 /\ w[1] = x /\ Worth(l) = Total[w]
    BY <2>1, WorthsType
  <2> HIDE DEF w, x
  <2>4. w = <<x>>
    BY <2>2, <2>3
  <2>5. Worth(l) = x
    BY <2>2, <2>3, <2>4, TotalOfFew
  <2>. QED
    BY <2>5 DEF l, x
<1>. QED
  BY <1>1, <1>2

\* Two lists are worth what they are worth together.
LEMMA WorthOfConcat ==
  ASSUME NEW s \in Seq(Fraction), NEW t \in Seq(Fraction)
  PROVE  s \o t \in Seq(Fraction) /\ Worth(s \o t) = Worth(s) + Worth(t)
<1> DEFINE u == s \o t
           v == Worths(s) \o Worths(t)
           m == Len(s)
           n == Len(t)
<1>1. /\ u \in Seq(Fraction) /\ Len(u) = m + n /\ m \in Nat /\ n \in Nat
      /\ \A i \in 1 .. m + n : u[i] = IF i <= m THEN s[i] ELSE t[i - m]
  BY ConcatProperties
<1>2. /\ Worths(s) \in Seq(Int) /\ Len(Worths(s)) = m /\ Worth(s) = Total[Worths(s)]
      /\ \A i \in 1 .. m : Worths(s)[i] = WorthOf(s[i])
  BY WorthsType
<1>3. /\ Worths(t) \in Seq(Int) /\ Len(Worths(t)) = n /\ Worth(t) = Total[Worths(t)]
      /\ \A i \in 1 .. n : Worths(t)[i] = WorthOf(t[i])
  BY WorthsType
<1>4. /\ v \in Seq(Int) /\ Len(v) = m + n
      /\ \A i \in 1 .. m + n : v[i] = IF i <= m THEN Worths(s)[i] ELSE Worths(t)[i - m]
  <2>1. /\ v \in Seq(Int) /\ Len(v) = Len(Worths(s)) + Len(Worths(t))
        /\ \A i \in 1 .. Len(Worths(s)) + Len(Worths(t)) :
             v[i] = IF i <= Len(Worths(s)) THEN Worths(s)[i]
                    ELSE Worths(t)[i - Len(Worths(s))]
    <3> DEFINE a == Worths(s)
               b == Worths(t)
    <3>1. a \in Seq(Int) /\ b \in Seq(Int)
      BY <1>2, <1>3
    <3> HIDE DEF a, b
    <3>2. /\ a \o b \in Seq(Int) /\ Len(a \o b) = Len(a) + Len(b)
          /\ \A i \in 1 .. Len(a) + Len(b) :
               (a \o b)[i] = IF i <= Len(a) THEN a[i] ELSE b[i - Len(a)]
      BY <3>1, ConcatProperties
    <3>. QED
      BY <3>2 DEF a, b
  <2>. QED
    BY <1>2, <1>3, <2>1
<1> HIDE DEF u
<1>5. /\ Worths(u) \in Seq(Int) /\ Len(Worths(u)) = m + n /\ Worth(u) = Total[Worths(u)]
      /\ \A i \in 1 .. m + n : Worths(u)[i] = WorthOf(u[i])
  BY <1>1, WorthsType
<1>6. ASSUME NEW i \in 1 .. m + n PROVE Worths(u)[i] = v[i]
  <2>1. CASE i <= m
    <3>1. i \in 1 .. m
      BY <1>1, <2>1
    <3> HIDE DEF v
    <3>. QED
      BY <1>1, <1>2, <1>4, <1>5, <2>1, <3>1
  <2>2. CASE ~(i <= m)
    <3>1. i - m \in 1 .. n
      BY <1>1, <2>2
    <3> HIDE DEF v
    <3>. QED
      BY <1>1, <1>3, <1>4, <1>5, <2>2, <3>1
  <2>. QED
    BY <2>1, <2>2
<1>7. Worths(u) = v
  <2> HIDE DEF v
  <2>. QED
    BY <1>4, <1>5, <1>6, SeqEqual
<1>8. Total[v] = Total[Worths(s)] + Total[Worths(t)]
  BY <1>2, <1>3, TotalOfConcat
<1>9. Worth(u) = Worth(s) + Worth(t)
  <2> HIDE DEF v
  <2>. QED
    BY <1>2, <1>3, <1>5, <1>7, <1>8
<1>. QED
  BY <1>1, <1>9 DEF u

\* A list with an entry more, and with an entry less.
LEMMA WorthOfInserted ==
  ASSUME NEW s \in Seq(Fraction), NEW i \in 1 .. Len(s) + 1, NEW e \in Fraction
  PROVE  Worth(InsertAt(s, i, e)) = Worth(s) + WorthOf(e)
<1> DEFINE h == SubSeq(s, 1, i - 1)
           t == SubSeq(s, i, Len(s))
<1>1. i - 1 \in 0 .. Len(s) /\ (i - 1) + 1 = i /\ Len(s) \in Nat
  OBVIOUS
<1>2. /\ h \in Seq(Fraction) /\ Len(h) = i - 1
      /\ t \in Seq(Fraction) /\ Len(t) = Len(s) - (i - 1)
      /\ \A k \in 1 .. i - 1 : h[k] = s[k]
      /\ \A k \in 1 .. Len(s) - (i - 1) : t[k] = s[(i - 1) + k]
  BY <1>1, PartsOfList
<1>3. InsertAt(s, i, e) = h \o <<e>> \o t
  BY DEF InsertAt
<1> HIDE DEF h, t
<1>4. s = h \o t
  <2>1. /\ h \o t \in Seq(Fraction) /\ Len(h \o t) = Len(h) + Len(t)
        /\ \A k \in 1 .. Len(h) + Len(t) :
             (h \o t)[k] = IF k <= Len(h) THEN h[k] ELSE t[k - Len(h)]
    <3>1. h \in Seq(Fraction) /\ t \in Seq(Fraction)
      BY <1>2
    <3>. QED
      BY <3>1, ConcatProperties
  <2> DEFINE u == h \o t
  <2> HIDE DEF u
  <2>2. Len(u) = Len(s)
    BY <1>1, <1>2, <2>1 DEF u
  <2>3. ASSUME NEW k \in 1 .. Len(s) PROVE u[k] = s[k]
    <3>1. CASE k <= i - 1
      BY <1>1, <1>2, <2>1, <3>1 DEF u
    <3>2. CASE ~(k <= i - 1)
      <4>1. k - (i - 1) \in 1 .. Len(s) - (i - 1) /\ (i - 1) + (k - (i - 1)) = k
        BY <1>1, <3>2
      <4>2. u[k] = t[k - (i - 1)]
        BY <1>1, <1>2, <2>1, <3>2 DEF u
      <4>3. t[k - (i - 1)] = s[k]
        BY <1>2, <4>1
      <4>. QED
        BY <4>2, <4>3
    <3>. QED
      BY <3>1, <3>2
  <2>4. u \in Seq(Fraction)
    BY <2>1 DEF u
  <2>5. u = s
    BY <2>2, <2>3, <2>4, SeqEqual
  <2>. QED
    BY <2>5 DEF u
<1>5. Worth(s) = Worth(h) + Worth(t)
  BY <1>2, <1>4, WorthOfConcat
<1>6. /\ <<e>> \in Seq(Fraction) /\ h \o <<e>> \in Seq(Fraction)
      /\ Worth(h \o <<e>>) = Worth(h) + Worth(<<e>>)
  <2>1. <<e>> \in Seq(Fraction) /\ h \in Seq(Fraction)
    BY <1>2
  <2>. QED
    BY <2>1, WorthOfConcat
<1>7. Worth(h \o <<e>> \o t) = Worth(h \o <<e>>) + Worth(t)
  <2>1. h \o <<e>> \in Seq(Fraction) /\ t \in Seq(Fraction)
    BY <1>2, <1>6
  <2>. QED
    BY <2>1, WorthOfConcat
<1>8. Worth(h) \in Int /\ Worth(t) \in Int /\ WorthOf(e) \in Int /\ Worth(<<e>>) = WorthOf(e)
  <2>1. h \in Seq(Fraction) /\ t \in Seq(Fraction)
    BY <1>2
  <2>. QED
    BY <2>1, WorthsType, WorthOfType, WorthOfFew
<1>9. Worth(h \o <<e>> \o t) = Worth(s) + WorthOf(e)
  BY <1>5, <1>6, <1>7, <1>8
<1>. QED
  BY <1>3, <1>9

\* Deleting a term takes away what it is worth.
LEMMA WorthOfRemoved ==
  ASSUME NEW s \in Seq(Fraction), NEW i \in 1 .. Len(s)
  PROVE  /\ RemoveAt(s, i) \in Seq(Fraction)
         /\ Worth(RemoveAt(s, i)) = Worth(s) - WorthOf(s[i])
<1> DEFINE w == Worths(s)
           r == RemoveAt(s, i)
<1>1. /\ w \in Seq(Int) /\ Len(w) = Len(s) /\ Worth(s) = Total[w]
      /\ \A k \in 1 .. Len(s) : w[k] = WorthOf(s[k])
      /\ Len(s) \in Nat
  BY WorthsType
<1>2. /\ r \in Seq(Fraction) /\ Len(r) = Len(s) - 1
      /\ \A k \in 1 .. Len(s) - 1 : r[k] = IF k < i THEN s[k] ELSE s[k + 1]
  BY RemovedAt
<1> HIDE DEF w, r
<1>3. /\ Worths(r) \in Seq(Int) /\ Len(Worths(r)) = Len(s) - 1
      /\ Worth(r) = Total[Worths(r)]
      /\ \A k \in 1 .. Len(s) - 1 : Worths(r)[k] = WorthOf(r[k])
  BY <1>2, WorthsType
<1>4. /\ RemoveAt(w, i) \in Seq(Int) /\ Len(RemoveAt(w, i)) = Len(w) - 1
      /\ \A k \in 1 .. Len(w) - 1 :
           RemoveAt(w, i)[k] = IF k < i THEN w[k] ELSE w[k + 1]
      /\ Total[RemoveAt(w, i)] = Total[w] - w[i]
  <2>1. w \in Seq(Int) /\ i \in 1 .. Len(w)
    BY <1>1
  <2>. QED
    BY <2>1, RemovedAt, TotalOfRemoved
<1> DEFINE v == RemoveAt(w, i)
<1> HIDE DEF v
<1>5. ASSUME NEW k \in 1 .. Len(s) - 1 PROVE Worths(r)[k] = v[k]
  <2>1. /\ k < i => k \in 1 .. Len(s)
        /\ ~(k < i) => k + 1 \in 1 .. Len(s)
    BY <1>1
  <2>2. v[k] = IF k < i THEN w[k] ELSE w[k + 1]
    BY <1>1, <1>4 DEF v
  <2>3. Worths(r)[k] = WorthOf(IF k < i THEN s[k] ELSE s[k + 1])
    BY <1>2, <1>3
  <2>. QED
    BY <1>1, <2>1, <2>2, <2>3
<1>6. Worths(r) = v
  <2>1. v \in Seq(Int) /\ Len(v) = Len(s) - 1
    BY <1>1, <1>4 DEF v
  <2>. QED
    BY <1>3, <1>5, <2>1, SeqEqual
<1>7. w[i] = WorthOf(s[i])
  BY <1>1
<1>8. Worth(r) = Worth(s) - WorthOf(s[i])
  BY <1>1, <1>3, <1>4, <1>6, <1>7 DEF v
<1>. QED
  BY <1>2, <1>8 DEF r

\* A list in which an entry is replaced.
LEMMA WorthOfReplaced ==
  ASSUME NEW s \in Seq(Fraction), NEW i \in 1 .. Len(s), NEW e \in Fraction
  PROVE  Worth(ReplaceAt(s, i, e)) = Worth(s) - WorthOf(s[i]) + WorthOf(e)
<1> DEFINE u == ReplaceAt(s, i, e)
<1>1. /\ u \in Seq(Fraction) /\ Len(u) = Len(s) /\ u[i] = e /\ s[i] \in Fraction
      /\ \A k \in 1 .. Len(s) : k # i => u[k] = s[k]
  BY DEF ReplaceAt
<1> HIDE DEF u
<1>2. Worth(RemoveAt(s, i)) = Worth(s) - WorthOf(s[i])
  BY WorthOfRemoved
<1>3. Worth(RemoveAt(u, i)) = Worth(u) - WorthOf(e)
  <2>1. i \in 1 .. Len(u)
    BY <1>1
  <2>. QED
    BY <1>1, <2>1, WorthOfRemoved
<1>4. RemoveAt(u, i) = RemoveAt(s, i)
  <2>1. /\ RemoveAt(s, i) \in Seq(Fraction) /\ Len(RemoveAt(s, i)) = Len(s) - 1
        /\ \A k \in 1 .. Len(s) - 1 :
             RemoveAt(s, i)[k] = IF k < i THEN s[k] ELSE s[k + 1]
    BY RemovedAt
  <2>2. /\ RemoveAt(u, i) \in Seq(Fraction) /\ Len(RemoveAt(u, i)) = Len(s) - 1
        /\ \A k \in 1 .. Len(s) - 1 :
             RemoveAt(u, i)[k] = IF k < i THEN u[k] ELSE u[k + 1]
    BY <1>1, RemovedAt
  <2>3. ASSUME NEW k \in 1 .. Len(s) - 1 PROVE RemoveAt(u, i)[k] = RemoveAt(s, i)[k]
    <3>1. /\ k < i => k \in 1 .. Len(s) /\ k # i
          /\ ~(k < i) => k + 1 \in 1 .. Len(s) /\ k + 1 # i
      OBVIOUS
    <3>2. IF k < i THEN u[k] = s[k] ELSE u[k + 1] = s[k + 1]
      BY <1>1, <3>1
    <3>. QED
      BY <2>1, <2>2, <3>2
  <2>. QED
    BY <2>1, <2>2, <2>3, SeqEqual
<1>5. Worth(u) \in Int /\ Worth(s) \in Int /\ WorthOf(e) \in Int /\ WorthOf(s[i]) \in Int
  BY <1>1, WorthsType, WorthOfType
<1>6. Worth(u) = Worth(s) - WorthOf(s[i]) + WorthOf(e)
  BY <1>2, <1>3, <1>4, <1>5
<1>. QED
  BY <1>6 DEF u

\* The sum of two terms with the same denominator is worth what they are.
LEMMA WorthOfSum ==
  ASSUME NEW x \in Term(Denominators), NEW y \in Term(Denominators), x.den = y.den
  PROVE  /\ WorthOf(x) \in Int /\ WorthOf(y) \in Int
         /\ x.num + y.num = 0 => WorthOf(x) + WorthOf(y) = 0
         /\ WorthOf([x EXCEPT !.num = @ + y.num]) = WorthOf(x) + WorthOf(y)
<1> DEFINE w == Weight[x.den]
           z == [x EXCEPT !.num = @ + y.num]
<1>1. x.num \in Int /\ y.num \in Int /\ x.den \in Denominators
  BY DEF Term
<1>2. w \in Int
  BY <1>1, WeightType
<1>3. z.num = x.num + y.num /\ z.den = x.den
  BY DEF Term
<1> HIDE DEF z
<1>4. WorthOf(x) = x.num * w /\ WorthOf(y) = y.num * w
      /\ WorthOf(z) = (x.num + y.num) * w
  BY <1>3 DEF WorthOf
<1> HIDE DEF w
<1>5. (x.num + y.num) * w = x.num * w + y.num * w
  BY <1>1, <1>2
<1>6. x.num * w \in Int /\ y.num * w \in Int
  BY <1>1, <1>2
<1>7. x.num + y.num = 0 => (x.num + y.num) * w = 0
  BY <1>2
<1>. QED
  BY <1>4, <1>5, <1>6, <1>7 DEF z

\* A turn of mergepfd adds what the entry is worth.
LEMMA InsertTermKeepsWorth ==
  ASSUME NEW list \in Sorted(Denominators), NEW entry \in Term(Denominators)
  PROVE  Worth(InsertTerm[<<list, entry>>]) = Worth(list) + WorthOf(entry)
<1> DEFINE a == SearchPlace(list, entry)
           n == Len(list)
           D == Denominators
<1>0. /\ n \in Nat /\ list \in Seq(Term(D)) /\ list \in Seq(Entry) /\ entry \in Entry
      /\ D \in SUBSET Denominator
      /\ entry.den \in D /\ entry.den \in Denominator
      /\ list \in Seq(Fraction) /\ entry \in Fraction
  <2>1. D \in SUBSET Denominator
    BY DenominatorsAre
  <2>2. entry.den \in D
    BY DEF Term
  <2> HIDE DEF D
  <2>3. n \in Nat /\ list \in Seq(Term(D)) /\ list \in Seq(Entry) /\ entry \in Entry
    BY <2>1, SortedMeans, ListOfEntries, TermIsEntry DEF D
  <2>. QED
    BY <2>1, <2>2, <2>3, TermIsFraction DEF D
<1> HIDE DEF D
<1>1. <<list, entry>> \in Seq(Entry) \X Entry
  BY <1>0
<1>2. InsertTerm[<<list, entry>>] =
        IF list = <<>> THEN <<entry>>
        ELSE IF IsDpSmaller(list[a].den, entry.den) THEN InsertAt(list, a + 1, entry)
        ELSE IF list[a].den = entry.den THEN AddedAt(list, a, entry)
        ELSE InsertAt(list, a, entry)
  BY <1>1 DEF InsertTerm
<1>3. Worth(list) \in Int /\ WorthOf(entry) \in Int
  BY <1>0, WorthsType, WorthOfType
<1>4. CASE list = <<>>
  <2>1. InsertTerm[<<list, entry>>] = <<entry>>
    BY <1>2, <1>4
  <2>2. Worth(list) = 0 /\ Worth(<<entry>>) = WorthOf(entry)
    BY <1>0, <1>4, WorthOfFew
  <2>. QED
    BY <1>3, <2>1, <2>2
<1>5. CASE list # <<>>
  <2>1. a \in 1 .. n
    BY <1>0, <1>5, SearchFinds DEF D
  <2> HIDE DEF a
  <2>2. list[a] \in Term(D) /\ list[a] \in Fraction
    <3>1. list[a] \in Term(D)
      BY <1>0, <2>1
    <3>. QED
      BY <3>1, TermIsFraction DEF D
  <2>3. Worth(InsertAt(list, a + 1, entry)) = Worth(list) + WorthOf(entry)
    <3>1. a + 1 \in 1 .. Len(list) + 1
      BY <1>0, <2>1
    <3>. QED
      BY <1>0, <3>1, WorthOfInserted
  <2>4. Worth(InsertAt(list, a, entry)) = Worth(list) + WorthOf(entry)
    <3>1. a \in 1 .. Len(list) + 1
      BY <1>0, <2>1
    <3>. QED
      BY <1>0, <3>1, WorthOfInserted
  <2>5. ASSUME list[a].den = entry.den
        PROVE  Worth(AddedAt(list, a, entry)) = Worth(list) + WorthOf(entry)
    <3>1. WorthOf(list[a]) \in Int
      BY <2>2, WorthOfType
    <3>2. CASE list[a].num + entry.num = 0
      <4>1. Worth(RemoveAt(list, a)) = Worth(list) - WorthOf(list[a])
        BY <1>0, <2>1, WorthOfRemoved
      <4>2. WorthOf(list[a]) + WorthOf(entry) = 0
        BY <2>2, <2>5, <3>2, WorthOfSum DEF D
      <4>3. AddedAt(list, a, entry) = RemoveAt(list, a)
        BY <3>2 DEF AddedAt
      <4>. QED
        BY <1>3, <3>1, <4>1, <4>2, <4>3
    <3>3. CASE list[a].num + entry.num # 0
      <4> DEFINE t == [list[a] EXCEPT !.num = @ + entry.num]
      <4>1. t \in Term(D)
        BY <2>2, <3>3, SumOfTerms DEF D
      <4>2. WorthOf(t) = WorthOf(list[a]) + WorthOf(entry)
        BY <2>2, <2>5, WorthOfSum DEF D
      <4>3. AddedAt(list, a, entry) = ReplaceAt(list, a, t)
        BY <3>3 DEF AddedAt
      <4> HIDE DEF t
      <4>4. t \in Fraction
        BY <4>1, TermIsFraction DEF D
      <4>5. Worth(ReplaceAt(list, a, t)) = Worth(list) - WorthOf(list[a]) + WorthOf(t)
        BY <1>0, <2>1, <4>4, WorthOfReplaced
      <4>. QED
        BY <1>3, <3>1, <4>2, <4>3, <4>5
    <3>. QED
      BY <3>2, <3>3
  <2>. QED
    BY <1>2, <1>5, <2>3, <2>4, <2>5, Zenon
<1>. QED
  BY <1>4, <1>5

\* mergepfd: the list it leaves adds up to what the two lists add up to.
THEOREM MergePfdKeepsWorth ==
  ASSUME NEW dec1 \in Sorted(Denominators), NEW dec2 \in Seq(Term(Denominators))
  PROVE  Worth(MergePfd(dec1, dec2)) = Worth(dec1) + Worth(dec2)
<1> DEFINE D == Denominators
           n == Len(dec2)
           w == Worths(dec2)
<1>0. /\ D \in SUBSET Denominator /\ n \in Nat
      /\ \A i \in 1 .. n : dec2[i] \in Term(D)
      /\ dec2 \in Seq(Fraction)
  BY DenominatorsAre, TermIsFraction
<1>1. \A x \in Sorted(D) : \A i \in 1 .. Len(dec2) :
        InsertTerm[<<x, dec2[i]>>] \in Sorted(D)
  BY <1>0, InsertTermSorts
<1>2. PICK f \in [0 .. n -> Sorted(D)] :
        Inserts(dec1, dec2, f) /\ MergePfd(dec1, dec2) = f[n]
  <2> HIDE DEF D
  <2>1. dec1 \in Sorted(D) /\ Len(dec2) \in Nat
    BY <1>0 DEF D
  <2>. QED
    BY <1>1, <2>1, MergePfdInserts
<1>3. /\ w \in Seq(Int) /\ Len(w) = n /\ Worth(dec2) = Total[w]
      /\ \A i \in 1 .. n : w[i] = WorthOf(dec2[i]) /\ w[i] \in Int
  BY <1>0, WorthsType
<1> HIDE DEF w, D
<1>4. PICK h \in [0 .. Len(w) -> Int] : Sums(w, h) /\ Total[w] = h[Len(w)]
  BY <1>3, TotalIsSum
<1>5. Worth(dec1) \in Int
  BY TermIsFraction, WorthsType
<1> DEFINE S == {i \in 0 .. n : Worth(f[i]) = Worth(dec1) + h[i]}
<1>6. 0 \in S
  <2>1. f[0] = dec1 /\ h[0] = 0
    BY <1>2, <1>4 DEF Inserts, Sums
  <2>. QED
    BY <1>0, <1>5, <2>1
<1>7. ASSUME NEW i \in 1 .. n, i - 1 \in S PROVE i \in S
  <2>1. i - 1 \in 0 .. n /\ i \in 0 .. n /\ f[i - 1] \in Sorted(D)
    BY <1>0, <1>2
  <2>2. f[i] = InsertTerm[<<f[i - 1], dec2[i]>>]
    BY <1>2 DEF Inserts
  <2>3. Worth(f[i]) = Worth(f[i - 1]) + WorthOf(dec2[i])
    BY <1>0, <2>1, <2>2, InsertTermKeepsWorth DEF D
  <2>4. h[i] = h[i - 1] + w[i] /\ h[i - 1] \in Int
    BY <1>3, <1>4, <2>1 DEF Sums
  <2>5. Worth(f[i - 1]) = Worth(dec1) + h[i - 1]
    BY <1>7
  <2>6. w[i] = WorthOf(dec2[i]) /\ w[i] \in Int
    BY <1>3
  <2>7. Worth(f[i]) = Worth(dec1) + h[i]
    BY <1>5, <2>3, <2>4, <2>5, <2>6
  <2>. QED
    BY <2>1, <2>7
<1>8. 0 .. n \subseteq S
  <2> HIDE DEF S, n
  <2>. QED
    BY <1>0, <1>6, <1>7, InductionUpTo, Zenon
<1>9. n \in S
  BY <1>0, <1>8
<1>. QED
  BY <1>2, <1>3, <1>4, <1>9

\* The value of what a turn of mergepfd_sorted takes.
MergeKept(dec1, dec2, h1, h2) ==
  {s \in MergeInv(Denominators, dec1, dec2) :
     Worth(s.merged) = h1[s.i1 - 1] + h2[s.i2 - 1]}

\* A turn of mergepfd_sorted adds what it takes from the lists, and takes
\* something until both are at their ends.
LEMMA MergeTurnKeepsWorth ==
  ASSUME NEW dec1 \in Sorted(Denominators), NEW dec2 \in Sorted(Denominators),
         NEW h1 \in [0 .. Len(dec1) -> Int], Sums(Worths(dec1), h1),
         NEW h2 \in [0 .. Len(dec2) -> Int], Sums(Worths(dec2), h2),
         NEW s \in MergeKept(dec1, dec2, h1, h2)
  PROVE  LET r == MergeTurn(dec1, dec2, s)
         IN  /\ r \in MergeKept(dec1, dec2, h1, h2)
             /\ \/ r.i1 + r.i2 > s.i1 + s.i2
                \/ r = s /\ s.i1 = Len(dec1) + 1 /\ s.i2 = Len(dec2) + 1
<1> DEFINE n1 == Len(dec1)
           n2 == Len(dec2)
           x == dec1[s.i1]
           y == dec2[s.i2]
           D == Denominators
           r == MergeTurn(dec1, dec2, s)
           Take(list, k1, k2) ==
             [i1 |-> s.i1 + k1, i2 |-> s.i2 + k2, merged |-> s.merged \o list]
           Kept(q) == Worth(q.merged) = h1[q.i1 - 1] + h2[q.i2 - 1]
           More(q) == q.i1 + q.i2 > s.i1 + s.i2
<1>0. /\ D \in SUBSET Denominator /\ s \in MergeInv(D, dec1, dec2)
      /\ n1 \in Nat /\ n2 \in Nat
      /\ s.i1 \in 1 .. n1 + 1 /\ s.i2 \in 1 .. n2 + 1
      /\ s.merged \in Sorted(D)
      /\ Worth(s.merged) = h1[s.i1 - 1] + h2[s.i2 - 1]
  <2>1. D \in SUBSET Denominator
    BY DenominatorsAre
  <2>2. s \in MergeInv(D, dec1, dec2) /\ Worth(s.merged) = h1[s.i1 - 1] + h2[s.i2 - 1]
    BY DEF MergeKept
  <2>3. n1 \in Nat /\ n2 \in Nat
    BY <2>1, SortedMeans
  <2> HIDE DEF D, n1, n2
  <2>. QED
    BY <2>1, <2>2, <2>3 DEF MergeInv, n1, n2
<1>1. r \in MergeInv(D, dec1, dec2)
  BY <1>0, MergeTurnSorts
<1>2. /\ s.merged \in Seq(Fraction) /\ Worth(s.merged) \in Int
      /\ h1[s.i1 - 1] \in Int /\ h2[s.i2 - 1] \in Int
  <2>1. s.merged \in Seq(Fraction)
    BY <1>0, TermIsFraction
  <2>2. s.i1 - 1 \in 0 .. Len(dec1) /\ s.i2 - 1 \in 0 .. Len(dec2)
    BY <1>0
  <2>. QED
    BY <2>1, <2>2, WorthsType
<1>3. ASSUME s.i1 <= n1
      PROVE  /\ x \in Term(D) /\ x \in Fraction /\ WorthOf(x) \in Int
             /\ h1[s.i1] = h1[s.i1 - 1] + WorthOf(x) /\ (s.i1 + 1) - 1 = s.i1
  <2>1. s.i1 \in 1 .. Len(dec1) /\ (s.i1 + 1) - 1 = s.i1
    BY <1>0, <1>3
  <2>2. x \in Term(D)
    BY <1>0, <2>1, SortedMeans
  <2>3. x \in Fraction /\ WorthOf(x) \in Int
    BY <2>2, TermIsFraction, WorthOfType
  <2>4. dec1 \in Seq(Fraction)
    BY TermIsFraction
  <2>5. Len(Worths(dec1)) = Len(dec1) /\ Worths(dec1)[s.i1] = WorthOf(x)
    BY <2>1, <2>4, WorthsType
  <2>6. h1[s.i1] = h1[s.i1 - 1] + Worths(dec1)[s.i1]
    BY <2>1, <2>5 DEF Sums
  <2>. QED
    BY <2>1, <2>2, <2>3, <2>5, <2>6
<1>4. ASSUME s.i2 <= n2
      PROVE  /\ y \in Term(D) /\ y \in Fraction /\ WorthOf(y) \in Int
             /\ h2[s.i2] = h2[s.i2 - 1] + WorthOf(y) /\ (s.i2 + 1) - 1 = s.i2
  <2>1. s.i2 \in 1 .. Len(dec2) /\ (s.i2 + 1) - 1 = s.i2
    BY <1>0, <1>4
  <2>2. y \in Term(D)
    BY <1>0, <2>1, SortedMeans
  <2>3. y \in Fraction /\ WorthOf(y) \in Int
    BY <2>2, TermIsFraction, WorthOfType
  <2>4. dec2 \in Seq(Fraction)
    BY TermIsFraction
  <2>5. Len(Worths(dec2)) = Len(dec2) /\ Worths(dec2)[s.i2] = WorthOf(y)
    BY <2>1, <2>4, WorthsType
  <2>6. h2[s.i2] = h2[s.i2 - 1] + Worths(dec2)[s.i2]
    BY <2>1, <2>5 DEF Sums
  <2>. QED
    BY <2>1, <2>2, <2>3, <2>5, <2>6
<1>5. s.i1 + 0 = s.i1 /\ s.i2 + 0 = s.i2 /\ s.i1 \in Int /\ s.i2 \in Int
  BY <1>0
<1>6. ASSUME s.i2 <= n2 PROVE Kept(Take(<<y>>, 0, 1)) /\ More(Take(<<y>>, 0, 1))
  <2> DEFINE q == Take(<<y>>, 0, 1)
  <2>1. q.i1 = s.i1 + 0 /\ q.i2 = s.i2 + 1 /\ q.merged = s.merged \o <<y>>
    OBVIOUS
  <2> HIDE DEF q, y
  <2>2. <<y>> \in Seq(Fraction) /\ Worth(<<y>>) = WorthOf(y)
    BY <1>4, <1>6, WorthOfFew
  <2>3. Worth(s.merged \o <<y>>) = Worth(s.merged) + Worth(<<y>>)
    BY <1>2, <2>2, WorthOfConcat
  <2>4. h1[q.i1 - 1] = h1[s.i1 - 1] /\ h2[q.i2 - 1] = h2[s.i2 - 1] + WorthOf(y)
    BY <1>4, <1>5, <1>6, <2>1
  <2>5. Kept(q)
    BY <1>0, <1>2, <1>4, <1>6, <2>1, <2>2, <2>3, <2>4
  <2>6. More(q)
    BY <1>5, <2>1
  <2>. QED
    BY <2>5, <2>6 DEF q
<1>7. ASSUME s.i1 <= n1 PROVE Kept(Take(<<x>>, 1, 0)) /\ More(Take(<<x>>, 1, 0))
  <2> DEFINE q == Take(<<x>>, 1, 0)
  <2>1. q.i1 = s.i1 + 1 /\ q.i2 = s.i2 + 0 /\ q.merged = s.merged \o <<x>>
    OBVIOUS
  <2> HIDE DEF q, x
  <2>2. <<x>> \in Seq(Fraction) /\ Worth(<<x>>) = WorthOf(x)
    BY <1>3, <1>7, WorthOfFew
  <2>3. Worth(s.merged \o <<x>>) = Worth(s.merged) + Worth(<<x>>)
    BY <1>2, <2>2, WorthOfConcat
  <2>4. h2[q.i2 - 1] = h2[s.i2 - 1] /\ h1[q.i1 - 1] = h1[s.i1 - 1] + WorthOf(x)
    BY <1>3, <1>5, <1>7, <2>1
  <2>5. Kept(q)
    <3> DEFINE a == h1[s.i1 - 1]
               b == h2[s.i2 - 1]
               c == WorthOf(x)
    <3>1. a \in Int /\ b \in Int /\ c \in Int
      BY <1>2, <1>3, <1>7
    <3>2. Worth(q.merged) = Worth(s.merged) + c /\ Worth(s.merged) = a + b
      BY <1>0, <2>1, <2>2, <2>3
    <3>3. h1[q.i1 - 1] = a + c /\ h2[q.i2 - 1] = b
      BY <2>4
    <3> HIDE DEF a, b, c
    <3>. QED
      BY <3>1, <3>2, <3>3
  <2>6. More(q)
    BY <1>5, <2>1
  <2>. QED
    BY <2>5, <2>6 DEF q
<1>8. ASSUME s.i1 <= n1, s.i2 <= n2, x.den = y.den
      PROVE  Kept(Take(SumOfTwo(x, y), 1, 1)) /\ More(Take(SumOfTwo(x, y), 1, 1))
  <2> DEFINE q == Take(SumOfTwo(x, y), 1, 1)
             l == SumOfTwo(x, y)
  <2>1. q.i1 = s.i1 + 1 /\ q.i2 = s.i2 + 1 /\ q.merged = s.merged \o l
    OBVIOUS
  <2> HIDE DEF q, x, y
  <2>2. l \in Seq(Fraction) /\ Worth(l) = WorthOf(x) + WorthOf(y)
    <3> DEFINE z == [x EXCEPT !.num = @ + y.num]
    <3>1. /\ x.num + y.num = 0 => WorthOf(x) + WorthOf(y) = 0
          /\ WorthOf(z) = WorthOf(x) + WorthOf(y)
      BY <1>3, <1>4, <1>8, WorthOfSum
    <3>2. CASE x.num + y.num = 0
      <4>1. l = <<>>
        BY <3>2 DEF SumOfTwo
      <4>. QED
        BY <3>1, <3>2, <4>1, WorthOfFew
    <3>3. CASE x.num + y.num # 0
      <4>1. l = <<z>>
        BY <3>3 DEF SumOfTwo
      <4>2. z \in Term(D)
        BY <1>3, <1>4, <1>8, <3>3, SumOfTerms
      <4> HIDE DEF z, l
      <4>3. z \in Fraction
        BY <4>2, TermIsFraction
      <4>4. <<z>> \in Seq(Fraction) /\ Worth(<<z>>) = WorthOf(z)
        BY <4>3, WorthOfFew
      <4>. QED
        BY <3>1, <4>1, <4>4
    <3>. QED
      BY <3>2, <3>3
  <2> HIDE DEF l
  <2>3. Worth(s.merged \o l) = Worth(s.merged) + Worth(l)
    BY <1>2, <2>2, WorthOfConcat
  <2>4. /\ h1[q.i1 - 1] = h1[s.i1 - 1] + WorthOf(x)
        /\ h2[q.i2 - 1] = h2[s.i2 - 1] + WorthOf(y)
    BY <1>3, <1>4, <1>8, <2>1
  <2>5. Kept(q)
    <3> DEFINE a == h1[s.i1 - 1]
               b == h2[s.i2 - 1]
               c == WorthOf(x)
               d == WorthOf(y)
    <3>1. a \in Int /\ b \in Int /\ c \in Int /\ d \in Int
      BY <1>2, <1>3, <1>4, <1>8
    <3>2. Worth(q.merged) = Worth(s.merged) + (c + d) /\ Worth(s.merged) = a + b
      BY <1>0, <2>1, <2>2, <2>3
    <3>3. h1[q.i1 - 1] = a + c /\ h2[q.i2 - 1] = b + d
      BY <2>4
    <3> HIDE DEF a, b, c, d
    <3>. QED
      BY <3>1, <3>2, <3>3
  <2>6. More(q)
    BY <1>5, <2>1
  <2>. QED
    BY <2>5, <2>6 DEF q
<1>9. \/ s.i1 > n1 /\ s.i2 > n2 /\ r = s
      \/ ~(s.i2 > n2) /\ r = Take(<<y>>, 0, 1)
      \/ ~(s.i1 > n1) /\ r = Take(<<x>>, 1, 0)
      \/ /\ ~(s.i1 > n1) /\ ~(s.i2 > n2) /\ x.den = y.den
         /\ r = Take(SumOfTwo(x, y), 1, 1)
  <2> HIDE DEF n1, n2
  <2>. QED
    BY Zenon DEF MergeTurn, n1, n2
<1>10. /\ ~(s.i1 > n1) => s.i1 <= n1
       /\ ~(s.i2 > n2) => s.i2 <= n2
       /\ s.i1 > n1 => s.i1 = n1 + 1
       /\ s.i2 > n2 => s.i2 = n2 + 1
  BY <1>0
<1>11. Kept(s)
  BY <1>0
<1> HIDE DEF Take, x, y, r, Kept, More, n1, n2
<1>12. Kept(r) /\ (More(r) \/ (r = s /\ s.i1 = n1 + 1 /\ s.i2 = n2 + 1))
  BY <1>6, <1>7, <1>8, <1>9, <1>10, <1>11, Zenon
<1>. QED
  BY <1>1, <1>12 DEF Kept, More, MergeKept, r, D, n1, n2

\* mergepfd_sorted: the list it leaves adds up to what the two lists add up to.
THEOREM MergePfdSortedKeepsWorth ==
  ASSUME NEW dec1 \in Sorted(Denominators), NEW dec2 \in Sorted(Denominators)
  PROVE  Worth(MergePfdSorted(dec1, dec2)) = Worth(dec1) + Worth(dec2)
<1> DEFINE n1 == Len(dec1)
           n2 == Len(dec2)
           n == n1 + n2
           D == Denominators
<1>0. /\ D \in SUBSET Denominator /\ n1 \in Nat /\ n2 \in Nat /\ n \in Nat
      /\ dec1 \in Seq(Fraction) /\ dec2 \in Seq(Fraction)
  <2>1. D \in SUBSET Denominator
    BY DenominatorsAre
  <2>2. n1 \in Nat /\ n2 \in Nat
    BY <2>1, SortedMeans
  <2>. QED
    BY <2>1, <2>2, TermIsFraction
<1>1. /\ Worths(dec1) \in Seq(Int) /\ Len(Worths(dec1)) = n1
      /\ Worth(dec1) = Total[Worths(dec1)]
      /\ Worths(dec2) \in Seq(Int) /\ Len(Worths(dec2)) = n2
      /\ Worth(dec2) = Total[Worths(dec2)]
  BY <1>0, WorthsType
<1>2. PICK h1 \in [0 .. Len(Worths(dec1)) -> Int] :
        Sums(Worths(dec1), h1) /\ Total[Worths(dec1)] = h1[Len(Worths(dec1))]
  BY <1>1, TotalIsSum
<1>3. PICK h2 \in [0 .. Len(Worths(dec2)) -> Int] :
        Sums(Worths(dec2), h2) /\ Total[Worths(dec2)] = h2[Len(Worths(dec2))]
  BY <1>1, TotalIsSum
<1>4. h1 \in [0 .. n1 -> Int] /\ h2 \in [0 .. n2 -> Int]
  BY <1>1, <1>2, <1>3
<1> DEFINE A == MergeKept(dec1, dec2, h1, h2)
<1>5. ASSUME NEW s \in A
      PROVE  LET r == MergeTurn(dec1, dec2, s)
             IN  /\ r \in A
                 /\ \/ r.i1 + r.i2 > s.i1 + s.i2
                    \/ r = s /\ s.i1 = n1 + 1 /\ s.i2 = n2 + 1
  BY <1>2, <1>3, <1>4, MergeTurnKeepsWorth
<1>6. ASSUME NEW s \in A
      PROVE  /\ s \in MergeState /\ s.i1 \in 1 .. n1 + 1 /\ s.i2 \in 1 .. n2 + 1
             /\ Worth(s.merged) = h1[s.i1 - 1] + h2[s.i2 - 1]
  <2>1. /\ s.i1 \in 1 .. n1 + 1 /\ s.i2 \in 1 .. n2 + 1 /\ s.merged \in Sorted(D)
        /\ s = [i1 |-> s.i1, i2 |-> s.i2, merged |-> s.merged]
        /\ Worth(s.merged) = h1[s.i1 - 1] + h2[s.i2 - 1]
    BY DEF MergeKept, MergeInv
  <2>2. s.merged \in Seq(Entry)
    BY <1>0, <2>1, SortedMeans, ListOfEntries
  <2>3. s.i1 \in Nat /\ s.i2 \in Nat
    BY <1>0, <2>1
  <2>. QED
    BY <2>1, <2>2, <2>3 DEF MergeState
<1>7. MergeStart \in A
  <2>1. MergeStart.i1 = 1 /\ MergeStart.i2 = 1 /\ MergeStart.merged = <<>>
    BY DEF MergeStart
  <2>2. MergeStart \in MergeInv(D, dec1, dec2)
    BY <1>0, EmptyIsSorted DEF MergeInv, MergeStart, Below
  <2>3. h1[0] = 0 /\ h2[0] = 0 /\ Worth(<<>>) = 0
    BY <1>2, <1>3, WorthOfFew DEF Sums
  <2>4. Worth(MergeStart.merged) = h1[MergeStart.i1 - 1] + h2[MergeStart.i2 - 1]
    BY <2>1, <2>3
  <2>. QED
    BY <2>2, <2>4 DEF MergeKept
<1> HIDE DEF A
<1>8. PICK f \in [0 .. Len(dec1) + Len(dec2) -> A] :
        /\ Merges(dec1, dec2, f, Len(dec1) + Len(dec2))
        /\ MergePfdSorted(dec1, dec2) = f[Len(dec1) + Len(dec2)].merged
  <2>1. A \in SUBSET MergeState
    BY <1>6
  <2>2. \A s \in A : MergeTurn(dec1, dec2, s) \in A
    BY <1>5
  <2>. QED
    BY <1>0, <1>7, <2>1, <2>2, MergePfdSortedMerges
<1> DEFINE S == {k \in 0 .. n : \/ f[k].i1 + f[k].i2 >= k + 2
                                \/ f[k].i1 = n1 + 1 /\ f[k].i2 = n2 + 1}
<1>9. 0 \in S
  <2>1. f[0] = MergeStart
    BY <1>8 DEF Merges
  <2>. QED
    BY <1>0, <2>1 DEF MergeStart
<1>10. ASSUME NEW k \in 1 .. n, k - 1 \in S PROVE k \in S
  <2> DEFINE s == f[k - 1]
  <2>1. k - 1 \in 0 .. n /\ k \in 0 .. n
    BY <1>0
  <2>2. s \in A /\ f[k] \in A
    BY <1>8, <2>1
  <2>3. f[k] = MergeTurn(dec1, dec2, s)
    BY <1>8 DEF Merges
  <2>4. s.i1 + s.i2 >= (k - 1) + 2 \/ (s.i1 = n1 + 1 /\ s.i2 = n2 + 1)
    BY <1>10
  <2> HIDE DEF s, n1, n2
  <2>5. \/ f[k].i1 + f[k].i2 > s.i1 + s.i2
        \/ f[k] = s /\ s.i1 = n1 + 1 /\ s.i2 = n2 + 1
    BY <1>5, <2>2, <2>3
  <2>6. /\ s.i1 \in 1 .. n1 + 1 /\ s.i2 \in 1 .. n2 + 1
        /\ f[k].i1 \in 1 .. n1 + 1 /\ f[k].i2 \in 1 .. n2 + 1
    BY <1>6, <2>2
  <2>7. \/ f[k].i1 + f[k].i2 >= k + 2
        \/ f[k].i1 = n1 + 1 /\ f[k].i2 = n2 + 1
    <3>1. n1 \in Nat /\ n2 \in Nat /\ k \in Int
      BY <1>0
    <3>2. CASE f[k] = s /\ s.i1 = n1 + 1 /\ s.i2 = n2 + 1
      BY <3>2
    <3>3. CASE f[k].i1 + f[k].i2 > s.i1 + s.i2
      <4> DEFINE i1 == f[k].i1
                 i2 == f[k].i2
      <4>1. i1 \in 1 .. n1 + 1 /\ i2 \in 1 .. n2 + 1 /\ i1 + i2 > s.i1 + s.i2
        BY <2>6, <3>3
      <4> HIDE DEF i1, i2
      <4>2. i1 + i2 >= k + 2 \/ (i1 = n1 + 1 /\ i2 = n2 + 1)
        BY <2>4, <2>6, <3>1, <4>1
      <4>. QED
        BY <4>2 DEF i1, i2
    <3>. QED
      BY <2>5, <3>2, <3>3
  <2>. QED
    BY <2>1, <2>7
<1>11. 0 .. n \subseteq S
  <2> HIDE DEF S, n
  <2>. QED
    BY <1>0, <1>9, <1>10, InductionUpTo, Zenon
<1>12. n \in 0 .. n /\ n \in S
  <2>1. n \in 0 .. n
    BY <1>0
  <2>. QED
    BY <1>11, <2>1, Zenon
<1>13. f[n] \in A
  BY <1>8, <1>12
<1>14. f[n].i1 = n1 + 1 /\ f[n].i2 = n2 + 1
  <2>1. f[n].i1 \in 1 .. n1 + 1 /\ f[n].i2 \in 1 .. n2 + 1
    BY <1>6, <1>13
  <2>. QED
    BY <1>0, <1>12, <2>1
<1>15. Worth(f[n].merged) = h1[n1] + h2[n2]
  <2>1. Worth(f[n].merged) = h1[f[n].i1 - 1] + h2[f[n].i2 - 1]
    BY <1>6, <1>13
  <2>2. f[n].i1 - 1 = n1 /\ f[n].i2 - 1 = n2
    BY <1>0, <1>14
  <2>. QED
    BY <2>1, <2>2, Zenon
<1>. QED
  BY <1>1, <1>2, <1>3, <1>8, <1>15

-----------------------------------------------------------------------------
(***************************************************************************)
(* The decomposition steps keep the sum of a term.                         *)
(***************************************************************************)

\* Nonzero drops terms that are worth nothing.
LEMMA NonzeroKeepsWorth ==
  ASSUME NEW S \in SUBSET Fraction, NEW list \in Seq(S)
  PROVE  /\ Nonzero[list] \in Seq({e \in S : e.num # 0})
         /\ list \in Seq(Fraction)
         /\ Worth(Nonzero[list]) = Worth(list)
<1> DEFINE n == Len(list)
           T == {e \in S : e.num # 0}
           A == Seq(T)
           Turn(f, i) == IF i = 0 THEN <<>>
                         ELSE IF list[i].num = 0 THEN f[i - 1]
                         ELSE Append(f[i - 1], list[i])
           IsLoop(f) == f = [i \in 0 .. n |-> Turn(f, i)]
           s == CHOOSE f : IsLoop(f)
           g == [p \in A \X (1 .. n) |->
                   IF list[p[2]].num = 0 THEN p[1] ELSE Append(p[1], list[p[2]])]
           w == Worths(list)
<1>0. /\ n \in Nat
      /\ \A i \in 1 .. n : /\ list[i] \in Fraction
                           /\ list[i].num # 0 => list[i] \in T
      /\ list \in Seq(Fraction) /\ list \in Seq(Entry)
      /\ <<>> \in A
  <2>1. ASSUME NEW i \in 1 .. n
        PROVE  /\ list[i] \in Fraction /\ list[i] \in Entry
               /\ list[i].num # 0 => list[i] \in T
    <3>1. list[i] \in S /\ list[i] \in Fraction
      BY ElementOfSeq
    <3>2. list[i].den \in Denominator
      BY <3>1, DenominatorsAre DEF Fraction
    <3>3. list[i].den \in [ind : Seq(Nat), exp : Seq(Nat)]
      <4>1. list[i].den.exp \in Seq(Nat \ {0})
        BY <3>2 DEF Denominator
      <4>2. list[i].den.exp \in Seq(Nat)
        BY <4>1
      <4>. QED
        BY <3>2, <4>2 DEF Denominator
    <3>. QED
      BY <3>1, <3>3 DEF Fraction, Entry
  <2>2. list \in Seq(Fraction)
    BY <2>1
  <2>3. list \in Seq(Entry)
    BY <2>1
  <2>. QED
    BY <2>1, <2>2, <2>3
<1>1. Nonzero[list] = s[n]
  BY <1>0 DEF Nonzero
<1>2. PICK f \in [0 .. n -> A] : Loop(f, <<>>, g, n)
  <2>1. g \in [A \X (1 .. n) -> A]
    <3>1. ASSUME NEW p \in A \X (1 .. n)
          PROVE  (IF list[p[2]].num = 0 THEN p[1] ELSE Append(p[1], list[p[2]])) \in A
      <4>1. p[1] \in A /\ p[2] \in 1 .. n
        OBVIOUS
      <4>2. list[p[2]].num # 0 => list[p[2]] \in T
        BY <1>0, <4>1
      <4>. QED
        BY <4>1, <4>2
    <3> HIDE DEF A, n
    <3>. QED
      BY <3>1
  <2> HIDE DEF g, n, A
  <2>. QED
    BY <1>0, <2>1, LoopExists, Zenon
<1> HIDE DEF n, A
<1>3. IsLoop(f)
  <2>1. ASSUME NEW i \in 1 .. n
        PROVE  f[i] = IF list[i].num = 0 THEN f[i - 1] ELSE Append(f[i - 1], list[i])
    <3>1. i - 1 \in 0 .. n
      BY <1>0
    <3>2. <<f[i - 1], i>> \in A \X (1 .. n)
      BY <1>2, <3>1
    <3>3. f[i] = g[<<f[i - 1], i>>]
      BY <1>2 DEF Loop
    <3>. QED
      BY <3>2, <3>3
  <2>2. f[0] = <<>>
    BY <1>2 DEF Loop
  <2>3. \A i \in 0 .. n : f[i] = Turn(f, i)
    <3>1. \A i \in 0 .. n : i # 0 => i \in 1 .. n
      BY <1>0
    <3>. QED
      BY <2>1, <2>2, <3>1
  <2> HIDE DEF Turn
  <2>. QED
    BY <1>2, <2>3
<1>4. IsLoop(s)
  <2> HIDE DEF IsLoop
  <2>. QED
    BY <1>3
<1>5. /\ s[0] = <<>>
      /\ \A i \in 1 .. n :
           s[i] = IF list[i].num = 0 THEN s[i - 1] ELSE Append(s[i - 1], list[i])
  <2> HIDE DEF s
  <2>1. \A i \in 0 .. n : s[i] = Turn(s, i)
    BY <1>4
  <2>2. 0 \in 0 .. n /\ \A i \in 1 .. n : i \in 0 .. n /\ i # 0
    BY <1>0
  <2>. QED
    BY <2>1, <2>2
<1> HIDE DEF s, g
<1>6. /\ w \in Seq(Int) /\ Len(w) = n /\ Worth(list) = Total[w]
      /\ \A i \in 1 .. n : w[i] = WorthOf(list[i]) /\ w[i] \in Int
  BY <1>0, WorthsType DEF n
<1> HIDE DEF w
<1>7. PICK h \in [0 .. Len(w) -> Int] : Sums(w, h) /\ Total[w] = h[Len(w)]
  BY <1>6, TotalIsSum
<1> DEFINE I == {i \in 0 .. n : s[i] \in A /\ Worth(s[i]) = h[i]}
<1>8. 0 \in I
  <2>1. h[0] = 0
    BY <1>7 DEF Sums
  <2>. QED
    BY <1>0, <1>5, <2>1, WorthOfFew
<1>9. ASSUME NEW i \in 1 .. n, i - 1 \in I PROVE i \in I
  <2>1. i - 1 \in 0 .. n /\ i \in 0 .. n
    BY <1>0
  <2>2. s[i - 1] \in A /\ Worth(s[i - 1]) = h[i - 1]
    BY <1>9
  <2>3. h[i] = h[i - 1] + w[i] /\ h[i - 1] \in Int
    BY <1>6, <1>7, <2>1 DEF Sums
  <2>4. w[i] = WorthOf(list[i]) /\ w[i] \in Int
    BY <1>6
  <2>5. CASE list[i].num = 0
    <3>1. s[i] = s[i - 1]
      BY <1>5, <2>5
    <3>2. WorthOf(list[i]) = 0
      <4>1. list[i].den \in Denominators
        BY <1>0 DEF Fraction
      <4>2. Weight[list[i].den] \in Int
        BY <4>1, WeightType
      <4>. QED
        BY <2>5, <4>2 DEF WorthOf
    <3>3. Worth(s[i]) = h[i]
      BY <2>2, <2>3, <2>4, <3>1, <3>2
    <3>. QED
      BY <2>1, <2>2, <3>1, <3>3
  <2>6. CASE list[i].num # 0
    <3> DEFINE e == list[i]
               c == s[i - 1]
    <3>1. e \in T /\ c \in Seq(T) /\ e \in Fraction
      BY <1>0, <2>2, <2>6 DEF A
    <3>2. s[i] = Append(c, e)
      BY <1>5, <2>6
    <3> HIDE DEF e, c
    <3>3. Append(c, e) \in Seq(T) /\ Append(c, e) = c \o <<e>>
      <4>1. e \in T /\ c \in Seq(T)
        BY <3>1
      <4> HIDE DEF T
      <4>. QED
        BY <4>1
    <3>4. c \in Seq(Fraction)
      <4>2. c \in Seq(T) /\ T \subseteq Fraction
        BY <3>1
      <4> HIDE DEF T
      <4>3. \A k \in 1 .. Len(c) : c[k] \in Fraction
        BY <4>2, ElementOfSeq
      <4>. QED
        BY <4>2, <4>3
    <3>5. <<e>> \in Seq(Fraction) /\ Worth(<<e>>) = WorthOf(e)
      BY <3>1, WorthOfFew
    <3>6. Worth(c \o <<e>>) = Worth(c) + Worth(<<e>>)
      BY <3>4, <3>5, WorthOfConcat
    <3>7. Worth(s[i]) = h[i]
      BY <2>2, <2>3, <2>4, <3>2, <3>3, <3>5, <3>6 DEF e, c
    <3>. QED
      BY <2>1, <3>2, <3>3, <3>7 DEF A
  <2>. QED
    BY <2>5, <2>6
<1>10. 0 .. n \subseteq I
  <2> HIDE DEF I
  <2>. QED
    BY <1>0, <1>8, <1>9, InductionUpTo, Zenon
<1>11. n \in I
  <2>1. n \in 0 .. n
    BY <1>0
  <2>. QED
    BY <1>10, <2>1, Zenon
<1>. QED
  BY <1>0, <1>1, <1>6, <1>7, <1>11 DEF A

\* The fractions of a list have the numerator x but for a coefficient each, and
\* the denominator d without a factor or power each.
Parts(list, x, c, d, qs) ==
  /\ Len(list) = Len(qs)
  /\ \A i \in 1 .. Len(qs) : /\ list[i].num = x * c[i]
                             /\ Weight[list[i].den] = Weight[d] * qs[i]

\* A list of multiples of the numbers that combine the factors to g: it is worth
\* g times what the fraction is worth that it is made of.
LEMMA WorthOfCombination ==
  ASSUME NEW d \in Denominators, NEW qs \in Seq(Int), NEW c, NEW g \in Int,
         Combines(c, qs, g),
         NEW x \in Int, NEW list \in Seq(Fraction), Parts(list, x, c, d, qs)
  PROVE  Worth(list) = (x * Weight[d]) * g
<1>a. /\ Len(list) = Len(qs)
      /\ \A i \in 1 .. Len(qs) : /\ list[i].num = x * c[i]
                                 /\ Weight[list[i].den] = Weight[d] * qs[i]
  BY DEF Parts
<1> DEFINE n == Len(qs)
           s == [i \in 1 .. n |-> c[i] * qs[i]]
           w == Weight[d]
           xw == x * w
<1>0. n \in Nat /\ w \in Int /\ xw \in Int
  <2>1. w \in Int
    BY WeightType
  <2>. QED
    BY <2>1
<1>1. c \in Seq(Int) /\ Len(c) = n /\ Total[s] = g
  BY DEF Combines
<1>2. \A i \in 1 .. n : c[i] \in Int /\ qs[i] \in Int
  BY <1>1
<1>4. s \in Seq(Int) /\ Len(s) = n /\ \A i \in 1 .. n : s[i] = c[i] * qs[i]
  <2>1. \A i \in 1 .. n : c[i] * qs[i] \in Int
    BY <1>2
  <2>. QED
    BY <1>0, <2>1
<1>5. /\ Worths(list) \in Seq(Int) /\ Len(Worths(list)) = n
      /\ Worth(list) = Total[Worths(list)]
      /\ \A i \in 1 .. n : Worths(list)[i] = WorthOf(list[i])
  BY <1>a, WorthsType
<1>6. ASSUME NEW i \in 1 .. n PROVE WorthOf(list[i]) = xw * s[i]
  <2> DEFINE y == c[i]
             q == qs[i]
  <2>1. y \in Int /\ q \in Int
    BY <1>2
  <2>2. WorthOf(list[i]) = (x * y) * (w * q)
    <3>1. list[i].num = x * y /\ Weight[list[i].den] = w * q
      BY <1>a
    <3>. QED
      BY <3>1 DEF WorthOf
  <2>3. s[i] = y * q
    OBVIOUS
  <2> HIDE DEF y, q, w, s
  <2>4. (x * y) * (w * q) = (x * w) * (y * q)
    BY <1>0, <2>1
  <2>. QED
    BY <2>2, <2>3, <2>4
<1> HIDE DEF s, w, xw, n
<1>7. Total[Worths(list)] = xw * Total[s]
  <2>1. \A i \in 1 .. Len(s) : Worths(list)[i] = xw * s[i]
    BY <1>4, <1>5, <1>6
  <2> DEFINE ww == Worths(list)
  <2>2. ww \in Seq(Int) /\ Len(ww) = Len(s)
    BY <1>4, <1>5
  <2> HIDE DEF ww
  <2>. QED
    BY <1>0, <1>4, <2>1, <2>2, TotalOfMultiple DEF ww
<1>8. Worth(list) = xw * g
  BY <1>1, <1>5, <1>7
<1>. QED
  BY <1>8 DEF w, xw

\* What liftstd gives for the factors of a denominator, and for their powers.
LEMMA FactorsAndPowers ==
  ASSUME NEW d \in Denominators
  PROVE  /\ FactorsOf(d) \in Seq(Nat \ {0}) /\ Len(FactorsOf(d)) = Len(d.ind)
         /\ \A i \in 1 .. Len(d.ind) : /\ FactorsOf(d)[i] = Q[d.ind[i]]
                                       /\ FactorsOf(d)[i] \in Nat \ {0, 1}
         /\ PowersOf(d) \in Seq(Nat \ {0}) /\ Len(PowersOf(d)) = Len(d.ind)
         /\ \A i \in 1 .. Len(d.ind) :
              /\ PowersOf(d)[i] = Power(Q[d.ind[i]], d.exp[i])
              /\ PowersOf(d)[i] \in Nat \ {0, 1}
         /\ IsBasis(Liftstd[FactorsOf(d)], FactorsOf(d))
         /\ IsBasis(Liftstd[PowersOf(d)], PowersOf(d))
<1> DEFINE n == Len(d.ind)
           qs == FactorsOf(d)
           qe == PowersOf(d)
<1>1. /\ n \in Nat
      /\ \A i \in 1 .. n : d.ind[i] \in DOMAIN Q /\ d.exp[i] \in 1 .. MaxExp
  BY DenominatorParts
<1>2. \A i \in 1 .. n : d.exp[i] \in Nat \ {0}
  <2>1. \A x \in 1 .. MaxExp : x \in Nat \ {0}
    BY MaxExpAssumption
  <2>. QED
    BY <1>1, <2>1
<1>3. \A i \in 1 .. n : Q[d.ind[i]] \in Nat \ {0, 1}
  BY <1>1, FactorsAreLarge
<1>4. \A i \in 1 .. n : Power(Q[d.ind[i]], d.exp[i]) \in Nat \ {0, 1}
  BY <1>2, <1>3, PowerIsLarge, Zenon
<1>5. /\ qs \in Seq(Nat \ {0}) /\ Len(qs) = n
      /\ \A i \in 1 .. n : qs[i] = Q[d.ind[i]]
  BY <1>1, <1>3 DEF FactorsOf
<1>6. /\ qe \in Seq(Nat \ {0}) /\ Len(qe) = n
      /\ \A i \in 1 .. n : qe[i] = Power(Q[d.ind[i]], d.exp[i])
  BY <1>1, <1>4 DEF PowersOf
<1>7. IsBasis(Liftstd[qs], qs) /\ IsBasis(Liftstd[qe], qe)
  BY <1>5, <1>6, LiftstdIsBasis
<1>. QED
  BY <1>1, <1>3, <1>4, <1>5, <1>6, <1>7

\* Factors that a number divides have a common zero.
LEMMA CommonZero ==
  ASSUME NEW d \in Denominators, NEW z \in Nat \ {0, 1},
         \A i \in 1 .. Len(d.ind) : Q[d.ind[i]] % z = 0
  PROVE  HaveCommonZero(d)
<1>1. d.ind \in Seq(DOMAIN Q) /\ Len(d.ind) \in Nat /\ DOMAIN d.ind = 1 .. Len(d.ind)
  BY DenominatorParts
<1>2. SUFFICES ASSUME d.ind # <<>>
               PROVE  \E n \in 2 .. Q[d.ind[1]] :
                        \A k \in DOMAIN d.ind : Divides(n, Q[d.ind[k]])
  BY DEF HaveCommonZero
<1>3. 1 \in 1 .. Len(d.ind)
  BY <1>1, <1>2
<1>4. Q[d.ind[1]] \in Nat \ {0, 1} /\ Q[d.ind[1]] % z = 0
  BY <1>3, DenominatorParts, FactorsAreLarge
<1>5. z <= Q[d.ind[1]]
  BY <1>4, DivisorIsSmaller
<1>6. z \in 2 .. Q[d.ind[1]]
  BY <1>4, <1>5
<1>7. \A k \in DOMAIN d.ind : Divides(z, Q[d.ind[k]])
  BY <1>1, Zenon DEF Divides
<1>. QED
  BY <1>6, <1>7, Zenon

\* Factors of which the powers have no certificate have a common zero: the least
\* divisor of the powers, which is prime, divides the factors.
LEMMA NoCertificate ==
  ASSUME NEW d \in Denominators, Liftstd[PowersOf(d)].g # 1
  PROVE  HaveCommonZero(d)
<1> DEFINE n == Len(d.ind)
           qe == PowersOf(d)
           g == Liftstd[qe].g
           T == {m \in Nat \ {0, 1} : g % m = 0}
<1>1. /\ n \in Nat /\ d.ind \in Seq(DOMAIN Q) /\ Len(qe) = n
      /\ \A i \in 1 .. n : qe[i] = Power(Q[d.ind[i]], d.exp[i])
      /\ IsBasis(Liftstd[qe], qe)
  BY FactorsAndPowers, DenominatorParts
<1>2. g \in Nat /\ g # 1 /\ \A i \in 1 .. n : g > 0 /\ qe[i] % g = 0
  <2>1. Liftstd[qe] \in Basis
    BY <1>1 DEF IsBasis
  <2>2. g \in Nat
    BY <2>1 DEF Basis
  <2>. QED
    BY <1>1, <2>2 DEF IsBasis
<1>3. CASE n = 0
  <2>1. d.ind = <<>>
    BY <1>1, <1>3
  <2>. QED
    BY <2>1 DEF HaveCommonZero
<1>4. CASE n # 0
  <2>1. g \in Nat \ {0, 1}
    <3>1. 1 \in 1 .. n
      BY <1>1, <1>4
    <3>2. g > 0
      BY <1>2, <3>1
    <3>. QED
      BY <1>2, <3>2
  <2> HIDE DEF g
  <2>2. g % g = 0
    <3>1. g = g * 1 + 0 /\ 0 \in 0 .. g - 1
      BY <2>1
    <3>. QED
      BY <2>1, <3>1, DivisionIsUnique
  <2>3. PICK z \in T : \A m \in T : z <= m
    <3>1. T \in SUBSET Nat /\ g \in T
      BY <2>1, <2>2
    <3> HIDE DEF T
    <3>. QED
      BY <3>1, LeastNumber
  <2>4. z \in Nat \ {0, 1} /\ g % z = 0
    BY <2>3
  <2>5. ASSUME NEW i \in 1 .. n PROVE Q[d.ind[i]] % z = 0
    <3> DEFINE q == Q[d.ind[i]]
               e == d.exp[i]
               power == Power(q, e)
    <3>1. q \in Nat \ {0, 1} /\ e \in Nat
      <4>1. d.ind[i] \in DOMAIN Q /\ e \in 1 .. MaxExp
        BY DenominatorParts
      <4>. QED
        BY <4>1, FactorsAreLarge, MaxExpAssumption
    <3>2. power % g = 0
      BY <1>1, <1>2
    <3> HIDE DEF q, e, n
    <3>3. power \in Int
      BY <3>1, PowerType
    <3>4. power % z = 0
      <4> HIDE DEF power
      <4>. QED
        BY <2>1, <2>4, <3>2, <3>3, DividesTransitive
    <3>5. SUFFICES ASSUME q % z # 0 PROVE FALSE
      BY DEF q
    <3>6. ASSUME NEW m \in 2 .. q, z % m = 0, q % m = 0 PROVE FALSE
      <4>1. m \in Nat \ {0, 1}
        BY <3>1
      <4>2. g % m = 0
        <5>1. g \in Int /\ z \in Nat \ {0} /\ m \in Nat \ {0}
          BY <2>1, <2>4, <4>1
        <5>. QED
          BY <2>4, <3>6, <5>1, DividesTransitive, Zenon
      <4>3. z <= m
        BY <2>3, <4>1, <4>2
      <4>4. m <= z
        BY <2>4, <3>6, <4>1, DivisorIsSmaller
      <4>5. m = z
        BY <2>4, <4>1, <4>3, <4>4
      <4>. QED
        BY <3>5, <3>6, <4>5
    <3>7. Comaximal(z, q)
      BY <2>4, <3>1, <3>6, CoprimeIsComaximal
    <3>8. Comaximal(z, power)
      <4>1. z \in Int /\ q \in Int
        BY <2>4, <3>1
      <4>. QED
        BY <3>1, <3>7, <4>1, ComaximalWithPower
    <3> HIDE DEF power
    <3>9. PICK u \in Int, v \in Int : u * z + v * power = 1
      BY <3>8 DEF Comaximal
    <3>10. (u * z + v * power) % z = 0
      <4>1. z % z = 0 /\ z \in Int
        <5>1. z = z * 1 + 0 /\ 0 \in 0 .. z - 1 /\ z \in Int
          BY <2>4
        <5>. QED
          BY <2>4, <5>1, DivisionIsUnique
      <4>2. \A p, r \in Int : (p * z + r * power) % z = 0
        BY <2>4, <3>3, <3>4, <4>1, DividesCombination
      <4>. QED
        BY <4>2, Zenon
    <3>11. 1 % z = 1
      <4>1. 1 = z * 0 + 1 /\ 1 \in 0 .. z - 1
        BY <2>4
      <4>. QED
        BY <2>4, <4>1, DivisionIsUnique
    <3>. QED
      BY <3>9, <3>10, <3>11
  <2>. QED
    BY <2>4, <2>5, CommonZero
<1>. QED
  BY <1>3, <1>4

\* A product of positive numbers is positive.
LEMMA ProductIsPositive ==
  ASSUME NEW s \in Seq(Int), \A i \in 1 .. Len(s) : s[i] > 0
  PROVE  Product[s] > 0
<1>1. PICK f \in [0 .. Len(s) -> Int] : Products(s, f) /\ Product[s] = f[Len(s)]
  BY ProductIsProduct
<1> DEFINE P == {x \in Int : x > 0}
<1>2. Len(s) \in Nat
  OBVIOUS
<1>3. f[0] \in P
  BY <1>1 DEF Products
<1>4. ASSUME NEW i \in 1 .. Len(s), f[i - 1] \in P PROVE f[i] \in P
  <2> DEFINE x == f[i - 1]
             y == s[i]
  <2>1. f[i] = x * y /\ x \in Int /\ x > 0 /\ y \in Int /\ y > 0
    BY <1>1, <1>4 DEF Products
  <2> HIDE DEF x, y
  <2>. QED
    BY <2>1
<1>5. \A i \in 0 .. Len(s) : f[i] \in P
  <2> DEFINE n == Len(s)
  <2> HIDE DEF P, n
  <2>1. n \in Nat /\ \A i \in 1 .. n : f[i - 1] \in P => f[i] \in P
    BY <1>2, <1>4 DEF n
  <2>2. \A i \in 0 .. n : f[i] \in P
    BY <1>3, <2>1, LoopKeeps, Zenon
  <2>. QED
    BY <2>2 DEF n
<1>6. Len(s) \in 0 .. Len(s)
  BY <1>2
<1>. QED
  BY <1>1, <1>5, <1>6

\* So is a weight: only what has a numerator of 0 is worth 0.
LEMMA WeightIsPositive ==
  ASSUME NEW d \in Denominators
  PROVE  Weight[d] \in Int /\ Weight[d] > 0
<1> DEFINE s == [k \in 1 .. Len(Q) |-> Power(Q[k], MaxExp - ExpOf(d, k))]
<1>1. s \in Seq(Int) /\ Weight[d] = Product[s] /\ Weight[d] \in Int
  BY WeightType
<1>2. ASSUME NEW k \in 1 .. Len(Q)
      PROVE  Power(Q[k], MaxExp - ExpOf(d, k)) > 0
  <2>1. Q[k] \in Nat \ {0, 1}
    BY FactorsAssumption
  <2>2. MaxExp - ExpOf(d, k) \in Nat
    <3>1. ExpOf(d, k) \in 0 .. MaxExp
      BY ExpOfFactor
    <3>. QED
      BY <3>1, MaxExpAssumption
  <2>. QED
    BY <2>1, <2>2, PowerIsLarge
<1>3. \A k \in 1 .. Len(s) : s[k] > 0
  <2>1. Len(Q) \in Nat
    BY FactorsAssumption
  <2>2. Len(s) = Len(Q)
    BY <2>1
  <2>. QED
    BY <1>2, <2>2
<1> HIDE DEF s
<1>. QED
  BY <1>1, <1>3, ProductIsPositive

\* The denominators of the terms that are done.
Final == {d \in Denominators : HaveCommonZero(d)}

\* Decomposed terms are terms.
LEMMA FinalIsDenominator ==
  /\ Final \in SUBSET Denominators
  /\ Final \in SUBSET Denominator
  /\ Denominators \in SUBSET Denominator
  /\ Term(Final) \subseteq Term(Denominators)
  /\ \A list \in Seq(Term(Final)) : list \in Seq(Term(Denominators))
  /\ \A list \in Sorted(Final) : list \in Sorted(Denominators)
<1>1. Final \in SUBSET Denominators
  BY DEF Final
<1>2. Term(Final) \subseteq Term(Denominators)
  BY <1>1 DEF Term
<1>3. ASSUME NEW list \in Seq(Term(Final))
      PROVE  list \in Seq(Term(Denominators))
  <2> DEFINE S == Term(Final)
             T == Term(Denominators)
  <2>1. list \in Seq(S) /\ S \subseteq T
    BY <1>2
  <2> HIDE DEF S, T
  <2>2. \A k \in 1 .. Len(list) : list[k] \in T
    BY <2>1, ElementOfSeq
  <2>3. list \in Seq(T)
    BY <2>1, <2>2
  <2>. QED
    BY <2>3 DEF T
<1>4. \A list \in Sorted(Final) : list \in Sorted(Denominators)
  BY <1>3 DEF Sorted
<1>. QED
  BY <1>1, <1>2, <1>3, <1>4, DenominatorsAre

\* The sum of a term and nothing, as the procedures return it.
LEMMA OneTerm ==
  ASSUME NEW D \in SUBSET Denominators, NEW l \in Term(D)
  PROVE  /\ <<l>> \in Seq(Term(D)) /\ Len(<<l>>) = 1
         /\ Worth(<<l>>) = WorthOf(l)
         /\ l \in Fraction /\ l.num \in Int /\ l.num # 0 /\ l.den \in Denominators
<1>1. l \in Fraction
  BY DEF Term, Fraction
<1>2. Worth(<<l>>) = WorthOf(l)
  BY <1>1, WorthOfFew
<1>3. l.num \in Int /\ l.num # 0 /\ l.den \in Denominators
  BY DEF Term
<1>4. <<l>> \in Seq(Term(D)) /\ Len(<<l>>) = 1
  <2> DEFINE T == Term(D)
  <2>1. l \in T
    OBVIOUS
  <2> HIDE DEF T
  <2>2. <<l>> \in Seq(T) /\ Len(<<l>>) = 1
    BY <2>1
  <2>. QED
    BY <2>2 DEF T
<1>. QED
  BY <1>1, <1>2, <1>3, <1>4

\* A list of the nonzero ones of some fractions is a list of terms.
LEMMA NonzeroTerms ==
  ASSUME NEW S \in SUBSET Fraction, NEW list \in Seq(S)
  PROVE  Nonzero[list] \in Seq(Term(Denominators)) /\ Nonzero[list] \in Seq(S)
<1> DEFINE T == {e \in S : e.num # 0}
           U == Term(Denominators)
           r == Nonzero[list]
<1>1. r \in Seq(T)
  BY NonzeroKeepsWorth
<1>2. T \subseteq U /\ T \subseteq S
  BY DEF Fraction, Term
<1> HIDE DEF T, U, r
<1>3. \A k \in 1 .. Len(r) : r[k] \in U /\ r[k] \in S
  BY <1>1, <1>2, ElementOfSeq
<1>4. r \in Seq(U) /\ r \in Seq(S)
  BY <1>1, <1>3
<1>. QED
  BY <1>4 DEF U, r

\* The fractions that NSSdecompStep makes with the coefficients of a certificate.
Certified(l) ==
  [i \in 1 .. Len(l.den.ind) |->
     [num |-> l.num * Liftstd[PowersOf(l.den)].t[i], den |-> Without(l.den, i)]]

\* NSSdecompStep with its local definitions expanded.
LEMMA NSSdecompStepIs ==
  ASSUME NEW l \in Term(Denominators)
  PROVE  LET d == l.den
             n == Len(d.ind)
             std == Liftstd[PowersOf(d)]
         IN  /\ std.g = 1 => NSSdecompStep(l) = Nonzero[Certified(l)]
             /\ std.g # 1 => NSSdecompStep(l) = <<l>>
             /\ n \in Nat /\ Len(Certified(l)) = n
             /\ Certified(l) = [i \in 1 .. n |-> Certified(l)[i]]
             /\ \A i \in 1 .. n : /\ Certified(l)[i].num = l.num * std.t[i]
                                  /\ Certified(l)[i].num \in Int /\ std.t[i] \in Int
                                  /\ Certified(l)[i].den = Without(d, i)
                                  /\ Certified(l)[i] \in [num : Int, den : {Without(d, i)}]
<1> DEFINE d == l.den
           x == l.num
           n == Len(d.ind)
           std == Liftstd[PowersOf(d)]
           split == [t \in Seq(Int) |->
                       Nonzero[[i \in 1 .. Len(t) |->
                                  [num |-> x * t[i], den |-> Without(d, i)]]]]
           c == std.t
           list == Certified(l)
<1>1. x \in Int /\ d \in Denominators
  BY OneTerm
<1>2. n \in Nat
  BY <1>1, DenominatorParts
<1>3. c \in Seq(Int) /\ Len(c) = n
  <2>1. IsBasis(std, PowersOf(d)) /\ Len(PowersOf(d)) = n
    <3> HIDE DEF d
    <3>. QED
      BY <1>1, FactorsAndPowers
  <2>. QED
    BY <2>1 DEF IsBasis, Combines
<1>4. NSSdecompStep(l) = IF std.g = 1 THEN split[c] ELSE <<l>>
  BY Zenon DEF NSSdecompStep
<1>5. list = [i \in 1 .. n |-> [num |-> x * c[i], den |-> Without(d, i)]]
  BY Zenon DEF Certified
<1> HIDE DEF list, std
<1>6. split[c] = Nonzero[[i \in 1 .. Len(c) |-> [num |-> x * c[i], den |-> Without(d, i)]]]
  <2> HIDE DEF c
  <2>. QED
    BY <1>3, Zenon
<1>7. split[c] = Nonzero[list]
  BY <1>3, <1>5, <1>6, Zenon
<1> HIDE DEF c, n, split
<1>8. \A i \in 1 .. n : c[i] \in Int
  BY <1>3
<1>9. \A i \in 1 .. n : x * c[i] \in Int
  BY <1>1, <1>8, ProductOfTwo, Zenon
<1> HIDE DEF x, d
<1>10. /\ Len(list) = n /\ list = [i \in 1 .. n |-> list[i]]
       /\ \A i \in 1 .. n : list[i] = [num |-> x * c[i], den |-> Without(d, i)]
  BY <1>2, <1>5
<1>11. \A i \in 1 .. n : /\ list[i].num = x * c[i] /\ list[i].num \in Int
                         /\ list[i].den = Without(d, i)
                         /\ list[i] \in [num : Int, den : {Without(d, i)}]
  <2> HIDE DEF list
  <2>. QED
    BY <1>9, <1>10
<1>. QED
  BY <1>2, <1>4, <1>7, <1>8, <1>10, <1>11, Zenon DEF list, x, d, n, c, std

\* NSSdecompStep gives terms of the same sum; and when it gives one term only,
\* which is how general_merge_step tells that a term is done, the factors of
\* that term have a common zero, so that it has no certificate.
THEOREM NSSdecompStepKeepsWorth ==
  ASSUME NEW l \in Term(Denominators)
  PROVE  /\ NSSdecompStep(l) \in Seq(Term(Denominators))
         /\ Worth(NSSdecompStep(l)) = WorthOf(l)
         /\ ~WasDecomposed(NSSdecompStep(l)) => NSSdecompStep(l) \in Seq(Term(Final))
<1> DEFINE d == l.den
           x == l.num
           n == Len(d.ind)
           qe == PowersOf(d)
           std == Liftstd[qe]
           c == std.t
           list == Certified(l)
           r == Nonzero[list]
<1>1. /\ <<l>> \in Seq(Term(Denominators)) /\ Worth(<<l>>) = WorthOf(l)
      /\ x \in Int /\ x # 0 /\ d \in Denominators
  BY OneTerm
<1>2. n \in Nat
  BY <1>1, DenominatorParts
<1>3. /\ qe \in Seq(Nat \ {0}) /\ Len(qe) = n
      /\ \A i \in 1 .. n : qe[i] = Power(Q[d.ind[i]], d.exp[i]) /\ qe[i] \in Nat \ {0, 1}
      /\ IsBasis(std, qe)
  <2> HIDE DEF d
  <2>. QED
    BY <1>1, FactorsAndPowers
<1>4. CASE std.g # 1
  <2>1. NSSdecompStep(l) = <<l>>
    BY <1>4, NSSdecompStepIs
  <2>2. l \in Term(Final)
    <3>1. d \in Final
      BY <1>1, <1>4, NoCertificate DEF Final
    <3>. QED
      BY <3>1 DEF Term
  <2>3. <<l>> \in Seq(Term(Final))
    BY <2>2, OneTerm, FinalIsDenominator
  <2>. QED
    BY <1>1, <2>1, <2>3
<1>5. CASE std.g = 1
  <2>1. NSSdecompStep(l) = r
    BY <1>5, NSSdecompStepIs
  <2>2. Combines(c, qe, 1)
    BY <1>3, <1>5 DEF IsBasis
  <2>4. \A i \in 1 .. n : /\ Without(d, i) \in Denominators
                          /\ Weight[Without(d, i)] = Weight[d] * qe[i]
    BY <1>1, <1>3, WithoutIsDenominator, WeightOfParts
  <2> DEFINE S == {list[i] : i \in 1 .. n}
  <2>3. /\ \A i \in 1 .. n : /\ list[i].num = x * c[i] /\ list[i].den = Without(d, i)
                             /\ list[i] \in [num : Int, den : {Without(d, i)}]
                             /\ c[i] \in Int
        /\ Len(list) = n /\ list = [i \in 1 .. n |-> list[i]]
    BY NSSdecompStepIs
  <2> HIDE DEF list, std
  <2>5. \A i \in 1 .. n : list[i] \in Fraction
    <3> HIDE DEF d, n
    <3>. QED
      BY <2>3, <2>4 DEF Fraction
  <2>6. list \in Seq(S) /\ S \subseteq Fraction
    <3>1. \A i \in 1 .. n : list[i] \in S
      OBVIOUS
    <3>2. S \subseteq Fraction
      BY <2>5
    <3> HIDE DEF S, n
    <3>3. list \in Seq(S)
      BY <1>2, <2>3, <3>1
    <3>. QED
      BY <3>2, <3>3
  <2> HIDE DEF S, r
  <2>7. list \in Seq(Fraction) /\ Worth(r) = Worth(list)
    BY <2>6, NonzeroKeepsWorth DEF r
  <2>8. Worth(r) = x * Weight[d]
    <3>1. qe \in Seq(Int)
      BY <1>3, PositiveNumbers
    <3>2. Len(list) = Len(qe)
      BY <1>3, <2>3
    <3>3. \A i \in 1 .. Len(qe) : /\ list[i].num = x * c[i]
                                  /\ Weight[list[i].den] = Weight[d] * qe[i]
      BY <1>3, <2>3, <2>4
    <3>4. x * Weight[d] \in Int
      BY <1>1, WeightType, ProductOfTwo, Zenon
    <3> HIDE DEF qe, c, x, d
    <3>5. Worth(list) = (x * Weight[d]) * 1
      <4>1. 1 \in Int
        OBVIOUS
      <4>2. Parts(list, x, c, d, qe)
        BY <3>2, <3>3 DEF Parts
      <4>. QED
        BY <1>1, <2>2, <2>7, <3>1, <4>1, <4>2, WorthOfCombination, Zenon
    <3>. QED
      BY <2>7, <3>4, <3>5
  <2>9. r \in Seq(Term(Denominators)) /\ r \in Seq(S)
    BY <2>6, NonzeroTerms DEF r
  <2>10. WasDecomposed(r)
    <3> SUFFICES ASSUME ~WasDecomposed(r) PROVE FALSE
      OBVIOUS
    <3> DEFINE w == Weight[d]
    <3>1. w \in Int /\ w > 0
      BY <1>1, WeightIsPositive
    <3>2. Len(r) \in Nat /\ Len(r) <= 1
      BY <2>9 DEF WasDecomposed
    <3>3. CASE Len(r) = 0
      <4>1. r = <<>>
        BY <2>9, <3>3
      <4>2. x * w = 0
        BY <2>8, <4>1, WorthOfFew
      <4> HIDE DEF x, w
      <4>. QED
        BY <1>1, <3>1, <4>2
    <3>4. CASE Len(r) = 1
      <4> DEFINE e == r[1]
      <4>1. e \in S /\ r = <<e>>
        BY <2>9, <3>4
      <4>2. PICK i \in 1 .. n : e = list[i]
        BY <4>1 DEF S
      <4> DEFINE y == c[i]
                 q == qe[i]
      <4>3. /\ e \in Fraction /\ e.num = x * y /\ Weight[e.den] = w * q
            /\ y \in Int /\ q \in Nat \ {0, 1}
        BY <1>3, <2>3, <2>4, <2>5, <4>2
      <4> HIDE DEF e, y, q, w, x
      <4>4. Worth(<<e>>) = WorthOf(e)
        BY <4>3, WorthOfFew
      <4>5. (x * y) * (w * q) = x * w
        BY <2>8, <4>1, <4>3, <4>4 DEF WorthOf, w
      <4>6. (x * w) * (y * q) = (x * w) * 1
        BY <1>1, <3>1, <4>3, <4>5
      <4>7. x * w \in Int /\ x * w # 0 /\ y * q \in Int
        BY <1>1, <3>1, <4>3
      <4>8. y * q = 1
        <5> DEFINE a == x * w
                   b == y * q
        <5>1. a \in Int /\ a # 0 /\ b \in Int /\ a * b = a * 1
          BY <4>6, <4>7
        <5> HIDE DEF a, b
        <5>2. b = 1
          BY <5>1
        <5>. QED
          BY <5>2 DEF b
      <4>. QED
        BY <4>3, <4>8
    <3>5. Len(r) = 0 \/ Len(r) = 1
      <4> DEFINE m == Len(r)
      <4>1. m \in Nat /\ m <= 1
        BY <3>2
      <4> HIDE DEF m
      <4>2. m = 0 \/ m = 1
        BY <4>1
      <4>. QED
        BY <4>2 DEF m
    <3>. QED
      BY <3>3, <3>4, <3>5, Zenon
  <2>. QED
    BY <2>1, <2>8, <2>9, <2>10 DEF WorthOf
<1>. QED
  BY <1>4, <1>5

\* Without its remainder a numerator is a multiple of the basis of the factors;
\* when there is one, the factors have a common zero.
LEMMA RemainderDivides ==
  ASSUME NEW l \in Term(Denominators), Len(l.den.ind) >= 1
  PROVE  LET g == Liftstd[FactorsOf(l.den)].g
             f == l.num - Remainder(l)
         IN  /\ Remainder(l) \in Int
             /\ Remainder(l) # 0 => l.den \in Final
             /\ g \in Nat \ {0} /\ f \div g \in Int /\ (f \div g) * g = f
<1> DEFINE d == l.den
           x == l.num
           g == Liftstd[FactorsOf(d)].g
           m == Remainder(l)
<1>1. x \in Int /\ d \in Denominators /\ Len(d.ind) \in Nat /\ 1 \in 1 .. Len(d.ind)
  <2>1. x \in Int /\ d \in Denominators
    BY OneTerm
  <2>2. Len(d.ind) \in Nat
    BY <2>1, DenominatorParts
  <2>. QED
    BY <2>1, <2>2
<1>2. g \in Nat \ {0} /\ \A i \in 1 .. Len(d.ind) : Q[d.ind[i]] % g = 0
  <2> HIDE DEF d
  <2>1. /\ IsBasis(Liftstd[FactorsOf(d)], FactorsOf(d)) /\ Len(FactorsOf(d)) = Len(d.ind)
        /\ \A i \in 1 .. Len(d.ind) : FactorsOf(d)[i] = Q[d.ind[i]]
    BY <1>1, FactorsAndPowers
  <2>2. g \in Nat
    BY <2>1 DEF IsBasis, Basis
  <2>3. \A i \in 1 .. Len(d.ind) : g > 0 /\ Q[d.ind[i]] % g = 0
    BY <2>1 DEF IsBasis
  <2>. QED
    BY <1>1, <2>2, <2>3
<1>3. m = x % g
  BY DEF Remainder
<1> HIDE DEF x, g, m, d
<1>4. m \in 0 .. g - 1 /\ x \div g \in Int /\ x = g * (x \div g) + m
  BY <1>1, <1>2, <1>3, Division
<1>5. ASSUME m # 0 PROVE d \in Final
  <2>1. g \in Nat \ {0, 1}
    BY <1>2, <1>4, <1>5
  <2>2. HaveCommonZero(d)
    BY <1>1, <1>2, <2>1, CommonZero
  <2>. QED
    BY <1>1, <2>2 DEF Final
<1>6. (x - m) \div g \in Int /\ ((x - m) \div g) * g = x - m
  <2> DEFINE k == x \div g
  <2>1. k \in Int /\ x = g * k + m
    BY <1>4
  <2> HIDE DEF k
  <2>2. x - m = g * k + 0 /\ x - m = k * g /\ 0 \in 0 .. g - 1 /\ x - m \in Int
    BY <1>1, <1>2, <1>4, <2>1
  <2> DEFINE f == x - m
  <2>3. f \in Int /\ f = g * k + 0
    BY <2>2
  <2> HIDE DEF f
  <2>4. f \div g = k
    BY <1>2, <2>1, <2>2, <2>3, DivisionIsUnique
  <2>5. f = k * g
    BY <2>2, Zenon DEF f
  <2>. QED
    BY <2>1, <2>4, <2>5 DEF f
<1>7. m \in Int
  BY <1>2, <1>4
<1>. QED
  BY <1>2, <1>5, <1>6, <1>7 DEF x, g, m, d

\* The fractions over which Spread distributes a numerator.
Spreaded(l) ==
  LET std == Liftstd[FactorsOf(l.den)]
      a == (l.num - Remainder(l)) \div std.g
  IN  [i \in 1 .. Len(l.den.ind) |-> [num |-> a * std.t[i], den |-> Lowered(l.den, i)]]

\* Spread with its local definitions expanded.
LEMMA SpreadIs ==
  ASSUME NEW l \in Term(Denominators), Len(l.den.ind) >= 1
  PROVE  LET d == l.den
             n == Len(d.ind)
             std == Liftstd[FactorsOf(d)]
             a == (l.num - Remainder(l)) \div std.g
         IN  /\ Spread(l) = Nonzero[Spreaded(l)]
             /\ a \in Int
             /\ n \in Nat /\ Len(Spreaded(l)) = n
             /\ Spreaded(l) = [i \in 1 .. n |-> Spreaded(l)[i]]
             /\ \A i \in 1 .. n : /\ Spreaded(l)[i].num = a * std.t[i]
                                  /\ Spreaded(l)[i].den = Lowered(d, i)
                                  /\ Spreaded(l)[i] \in [num : Int, den : {Lowered(d, i)}]
<1> DEFINE d == l.den
           n == Len(d.ind)
           std == Liftstd[FactorsOf(d)]
           a == (l.num - Remainder(l)) \div std.g
           spread == [p \in Int \X Seq(Int) |->
                        Nonzero[[i \in 1 .. Len(p[2]) |->
                                   [num |-> p[1] * p[2][i], den |-> Lowered(d, i)]]]]
           c == std.t
           list == Spreaded(l)
<1>1. a \in Int /\ d \in Denominators
  BY OneTerm, RemainderDivides
<1>2. n \in Nat
  BY <1>1, DenominatorParts
<1>3. c \in Seq(Int) /\ Len(c) = n
  <2>1. IsBasis(std, FactorsOf(d)) /\ Len(FactorsOf(d)) = n
    <3> HIDE DEF d
    <3>. QED
      BY <1>1, FactorsAndPowers
  <2>. QED
    BY <2>1 DEF IsBasis, Combines
<1>4. Spread(l) = spread[<<a, c>>]
  BY Zenon DEF Spread
<1>5. list = [i \in 1 .. n |-> [num |-> a * c[i], den |-> Lowered(d, i)]]
  BY Zenon DEF Spreaded
<1> HIDE DEF list, std, a
<1>6. spread[<<a, c>>] = Nonzero[[i \in 1 .. Len(c) |-> [num |-> a * c[i], den |-> Lowered(d, i)]]]
  <2> HIDE DEF c
  <2> DEFINE p == <<a, c>>
             Made(b, t) == Nonzero[[i \in 1 .. Len(t) |->
                                      [num |-> b * t[i], den |-> Lowered(d, i)]]]
  <2>1. p \in Int \X Seq(Int) /\ p[1] = a /\ p[2] = c
    BY <1>1, <1>3
  <2> HIDE DEF p, d
  <2>2. spread[p] = Made(p[1], p[2])
    BY <2>1, Zenon
  <2> HIDE DEF Made, spread
  <2>3. spread[p] = Made(a, c)
    BY <2>1, <2>2, Zenon
  <2>. QED
    BY <2>3, Zenon DEF p, Made
<1>7. spread[<<a, c>>] = Nonzero[list]
  BY <1>3, <1>5, <1>6, Zenon
<1> HIDE DEF c, n, spread
<1>8. \A i \in 1 .. n : c[i] \in Int
  BY <1>3
<1>9. \A i \in 1 .. n : a * c[i] \in Int
  BY <1>1, <1>8, ProductOfTwo, Zenon
<1> HIDE DEF d
<1>10. /\ Len(list) = n /\ list = [i \in 1 .. n |-> list[i]]
       /\ \A i \in 1 .. n : list[i] = [num |-> a * c[i], den |-> Lowered(d, i)]
  BY <1>2, <1>5
<1>11. \A i \in 1 .. n : /\ list[i].num = a * c[i]
                         /\ list[i].den = Lowered(d, i)
                         /\ list[i] \in [num : Int, den : {Lowered(d, i)}]
  <2> HIDE DEF list
  <2>. QED
    BY <1>9, <1>10
<1>. QED
  BY <1>1, <1>2, <1>4, <1>7, <1>10, <1>11, Zenon DEF list, d, n, c, std, a

\* A numerator spread over the factors: the terms add up to the fraction
\* without its remainder.
LEMMA SpreadKeepsWorth ==
  ASSUME NEW l \in Term(Denominators), Len(l.den.ind) >= 1
  PROVE  /\ Spread(l) \in Seq(Term(Denominators))
         /\ Worth(Spread(l)) = (l.num - Remainder(l)) * Weight[l.den]
<1> DEFINE d == l.den
           f == l.num - Remainder(l)
           n == Len(d.ind)
           qs == FactorsOf(d)
           std == Liftstd[qs]
           g == std.g
           a == f \div g
           c == std.t
           list == Spreaded(l)
           r == Nonzero[list]
<1>1. Spread(l) = r
  BY SpreadIs
<1>2. /\ f \in Int /\ d \in Denominators /\ n \in Nat
      /\ g \in Nat \ {0} /\ a \in Int /\ a * g = f
  <2>1. l.num \in Int /\ d \in Denominators
    BY OneTerm
  <2>2. Remainder(l) \in Int /\ g \in Nat \ {0} /\ a \in Int /\ a * g = f
    BY RemainderDivides
  <2>3. n \in Nat
    BY <2>1, DenominatorParts
  <2>. QED
    BY <2>1, <2>2, <2>3
<1>3. /\ qs \in Seq(Int) /\ Len(qs) = n
      /\ \A i \in 1 .. n : qs[i] = Q[d.ind[i]]
      /\ Combines(c, qs, g)
  <2> HIDE DEF d
  <2>1. /\ qs \in Seq(Nat \ {0}) /\ Len(qs) = n /\ IsBasis(std, qs)
        /\ \A i \in 1 .. n : qs[i] = Q[d.ind[i]]
    BY <1>2, FactorsAndPowers
  <2>. QED
    BY <2>1, PositiveNumbers DEF IsBasis
<1>4. \A i \in 1 .. n : /\ Lowered(d, i) \in Denominators
                        /\ Weight[Lowered(d, i)] = Weight[d] * qs[i]
  BY <1>2, <1>3, LoweredIsDenominator, WeightOfParts
<1>5. /\ \A i \in 1 .. n : /\ list[i].num = a * c[i] /\ list[i].den = Lowered(d, i)
                           /\ list[i] \in [num : Int, den : {Lowered(d, i)}]
      /\ Len(list) = n /\ list = [i \in 1 .. n |-> list[i]]
  BY SpreadIs
<1> HIDE DEF list, d, n, qs, c, g, a, f
<1>6. list \in Seq(Fraction)
  <2>1. \A i \in 1 .. n : list[i] \in Fraction
    BY <1>4, <1>5 DEF Fraction
  <2>. QED
    BY <1>2, <1>5, <2>1
<1>7. r \in Seq(Term(Denominators)) /\ Worth(r) = Worth(list)
  BY <1>6, NonzeroTerms, NonzeroKeepsWorth
<1>8. Worth(list) = (a * Weight[d]) * g
  <2>1. /\ d \in Denominators /\ qs \in Seq(Int) /\ g \in Int /\ Combines(c, qs, g)
        /\ a \in Int
    BY <1>2, <1>3
  <2>2. \A i \in 1 .. Len(qs) : /\ list[i].num = a * c[i]
                                /\ Weight[list[i].den] = Weight[d] * qs[i]
    BY <1>3, <1>4, <1>5
  <2>3. Len(list) = Len(qs)
    BY <1>3, <1>5
  <2>4. Parts(list, a, c, d, qs)
    BY <2>2, <2>3 DEF Parts
  <2> HIDE DEF std, r
  <2>. QED
    BY <1>6, <2>1, <2>4, WorthOfCombination, Zenon
<1>9. (a * Weight[d]) * g = f * Weight[d]
  <2> DEFINE w == Weight[d]
  <2>1. w \in Int
    BY <1>2, WeightType
  <2> HIDE DEF w
  <2>2. (a * w) * g = (a * g) * w
    BY <1>2, <2>1
  <2>. QED
    BY <1>2, <2>2 DEF w
<1>. QED
  BY <1>1, <1>7, <1>8, <1>9 DEF f, d

\* What the two procedures of the loop by index return.
Splits(l, result) ==
  /\ result.again \in Seq(Term(Denominators))
  /\ result.rest \in Seq(Term(Final))
  /\ Worth(result.again) + Worth(result.rest) = WorthOf(l)

\* shortNumeratorDecompStep and numeratorDecompStep split a term into terms of
\* the same sum, and the factors of what they put aside as done have a common
\* zero.
THEOREM NumeratorStepsKeepWorth ==
  ASSUME NEW l \in Term(Denominators)
  PROVE  Splits(l, shortNumeratorDecompStep(l)) /\ Splits(l, numeratorDecompStep(l))
<1> DEFINE d == l.den
           x == l.num
           w == Weight[d]
           m == Remainder(l)
           none == <<>>
<1>1. /\ <<l>> \in Seq(Term(Denominators)) /\ Worth(<<l>>) = WorthOf(l)
      /\ x \in Int /\ x # 0 /\ d \in Denominators /\ WorthOf(l) = x * w
  BY OneTerm DEF WorthOf
<1>2. Len(d.ind) \in Nat /\ w \in Int /\ (d.ind = <<>> <=> Len(d.ind) = 0)
  <2> HIDE DEF d
  <2>1. d.ind \in Seq(DOMAIN Q) /\ w \in Int
    BY <1>1, DenominatorParts, WeightType
  <2>. QED
    BY <2>1
<1>3. <<>> \in Seq(Term(Denominators)) /\ <<>> \in Seq(Term(Final)) /\ Worth(<<>>) = 0
  BY WorthOfFew
<1>4. d.ind = <<>> => d \in Final
  BY <1>1 DEF Final, HaveCommonZero
<1>5. ASSUME d \in Final
      PROVE  Splits(l, [again |-> <<>>, rest |-> <<l>>])
  <2>1. l \in Term(Final)
    BY <1>5 DEF Term
  <2>2. <<l>> \in Seq(Term(Final))
    BY <2>1, OneTerm, FinalIsDenominator
  <2>3. 0 + x * w = x * w
    <3>1. x * w \in Int
      BY <1>1, <1>2
    <3>. QED
      BY <3>1
  <2>. QED
    BY <1>1, <1>3, <2>2, <2>3 DEF Splits
<1>6. ASSUME d.ind # <<>>
      PROVE  /\ Spread(l) \in Seq(Term(Denominators))
             /\ Worth(Spread(l)) = (x - m) * w
             /\ m \in Int /\ (m # 0 => d \in Final)
  <2>1. Len(d.ind) >= 1
    BY <1>2, <1>6
  <2>. QED
    BY <2>1, SpreadKeepsWorth, RemainderDivides
<1>8. Splits(l, shortNumeratorDecompStep(l))
  <2>1. CASE d.ind = <<>> \/ m # 0
    <3>1. shortNumeratorDecompStep(l) = [again |-> <<>>, rest |-> <<l>>]
      BY <2>1 DEF shortNumeratorDecompStep
    <3>2. d \in Final
      BY <1>4, <1>6, <2>1
    <3>. QED
      BY <1>5, <3>1, <3>2
  <2>2. CASE ~(d.ind = <<>> \/ m # 0)
    <3>1. shortNumeratorDecompStep(l) = [again |-> Spread(l), rest |-> <<>>]
      BY <2>2 DEF shortNumeratorDecompStep
    <3>2. /\ Spread(l) \in Seq(Term(Denominators))
          /\ Worth(Spread(l)) = (x - m) * w
      BY <1>6, <2>2
    <3>3. (x - m) * w + 0 = x * w
      <4>1. m = 0
        BY <2>2
      <4> HIDE DEF x, m, w
      <4>. QED
        BY <1>1, <1>2, <4>1
    <3>. QED
      BY <1>1, <1>3, <3>1, <3>2, <3>3 DEF Splits
  <2>. QED
    BY <2>1, <2>2
<1>9. Splits(l, numeratorDecompStep(l))
  <2>1. CASE d.ind = <<>>
    <3>1. numeratorDecompStep(l) = [again |-> <<>>, rest |-> <<l>>]
      BY <2>1 DEF numeratorDecompStep
    <3>. QED
      BY <1>4, <1>5, <2>1, <3>1
  <2>2. CASE d.ind # <<>>
    <3> DEFINE e == [l EXCEPT !.num = m]
               S == IF m = 0 THEN {f \in Fraction : f.num = 0} ELSE Term(Final)
               r == Nonzero[<<e>>]
    <3>1. numeratorDecompStep(l) = [again |-> Spread(l), rest |-> r]
      BY <2>2 DEF numeratorDecompStep
    <3>2. e.num = m /\ e.den = d /\ e \in [num : Int, den : Denominators]
      <4>1. l \in [num : Int \ {0}, den : Denominators]
        BY DEF Term
      <4>. QED
        BY <1>6, <2>2, <4>1
    <3>3. e \in Fraction /\ WorthOf(e) = m * w
      BY <3>2 DEF Fraction, WorthOf
    <3>4. e \in S /\ S \in SUBSET Fraction
      <4>1. CASE m = 0
        BY <3>2, <3>3, <4>1
      <4>2. CASE m # 0
        <5>1. d \in Final
          BY <1>6, <2>2, <4>2
        <5>2. e \in Term(Final)
          <6>1. e \in [num : Int \ {0}, den : Final]
            BY <3>2, <4>2, <5>1
          <6>. QED
            BY <6>1 DEF Term
        <5>3. Term(Final) \subseteq Fraction
          BY FinalIsDenominator, TermIsFraction
        <5>. QED
          BY <4>2, <5>2, <5>3
      <4>. QED
        BY <4>1, <4>2
    <3> HIDE DEF S, e
    <3>5. <<e>> \in Seq(S) /\ Worth(<<e>>) = WorthOf(e)
      BY <3>3, <3>4, WorthOfFew
    <3>6. r \in Seq({f \in S : f.num # 0}) /\ Worth(r) = m * w
      BY <3>3, <3>4, <3>5, NonzeroKeepsWorth
    <3> HIDE DEF r
    <3>7. r \in Seq(Term(Final))
      <4> DEFINE T == {f \in S : f.num # 0}
                 U == Term(Final)
      <4>1. T \subseteq U
        BY DEF S, Term
      <4> HIDE DEF T, U
      <4>2. r \in Seq(T)
        BY <3>6 DEF T
      <4>3. \A k \in 1 .. Len(r) : r[k] \in U
        BY <4>1, <4>2, ElementOfSeq
      <4>4. r \in Seq(U)
        BY <4>2, <4>3
      <4>. QED
        BY <4>4 DEF U
    <3>8. /\ Spread(l) \in Seq(Term(Denominators))
          /\ Worth(Spread(l)) = (x - m) * w
          /\ m \in Int
      BY <1>6, <2>2
    <3>9. (x - m) * w + m * w = x * w
      <4> HIDE DEF x, m, w
      <4>. QED
        BY <1>1, <1>2, <3>8
    <3>. QED
      BY <1>1, <3>1, <3>6, <3>7, <3>8, <3>9 DEF Splits
  <2>. QED
    BY <2>1, <2>2
<1>. QED
  BY <1>8, <1>9

-----------------------------------------------------------------------------
(***************************************************************************)
(* What a step starts from, and how it is dealt to the two chunks.         *)
(***************************************************************************)

\* What a step starts from is sorted.
LEMMA InputIsSorted ==
  ASSUME NEW list \in StepInput
  PROVE  list \in Sorted(Denominators) /\ list \in Seq(Term(Denominators))
<1> DEFINE R == [num : Numerators, den : Denominators]
           T == Term(Denominators)
<1>1. list \in Lists(R, MaxTerms) /\ InOrder(list)
  BY DEF StepInput
<1>2. R \subseteq T
  BY NumeratorsAssumption DEF Term
<1> HIDE DEF R, T
<1>3. list \in Seq(R)
  BY <1>1, MaxTermsAssumption, ListsMeans
<1>4. \A k \in 1 .. Len(list) : list[k] \in T
  BY <1>2, <1>3, ElementOfSeq
<1>5. list \in Seq(T)
  BY <1>3, <1>4
<1>. QED
  BY <1>1, <1>5 DEF T, Sorted

\* A chunk has every second term.
LEMMA ChunkMeans ==
  ASSUME NEW S, NEW list \in Seq(S), NEW c \in {1, 2}
  PROVE  /\ ChunkOf(list, c) \in Seq(S)
         /\ Len(ChunkOf(list, c)) = (Len(list) + 2 - c) \div 2
         /\ Len(ChunkOf(list, c)) \in Nat
         /\ \A i \in 1 .. Len(ChunkOf(list, c)) :
              /\ 2 * (i - 1) + c \in 1 .. Len(list)
              /\ ChunkOf(list, c)[i] = list[2 * (i - 1) + c]
<1> DEFINE n == Len(list)
           m == (n + 2 - c) \div 2
<1>1. n \in Nat
  OBVIOUS
<1> HIDE DEF n
<1>2. m \in Nat
  BY <1>1
<1>3. \A i \in 1 .. m : 2 * (i - 1) + c \in 1 .. n
  BY <1>1
<1> HIDE DEF m
<1>4. \A i \in 1 .. m : list[2 * (i - 1) + c] \in S
  BY <1>3, ElementOfSeq DEF n
<1>5. ChunkOf(list, c) = [i \in 1 .. m |-> list[2 * (i - 1) + c]]
  BY DEF ChunkOf, m, n
<1>6. ChunkOf(list, c) \in Seq(S) /\ Len(ChunkOf(list, c)) = m
  BY <1>2, <1>4, <1>5
<1>7. \A i \in 1 .. m : ChunkOf(list, c)[i] = list[2 * (i - 1) + c]
  BY <1>5
<1>. QED
  BY <1>2, <1>3, <1>6, <1>7 DEF m, n

\* pfd_split_terms loses no term: the chunks add up to the list.
THEOREM ChunksAddUp ==
  ASSUME NEW list \in Seq(Fraction)
  PROVE  /\ ChunkOf(list, 1) \in Seq(Fraction) /\ ChunkOf(list, 2) \in Seq(Fraction)
         /\ Worth(ChunkOf(list, 1)) + Worth(ChunkOf(list, 2)) = Worth(list)
<1> DEFINE n == Len(list)
           c1 == ChunkOf(list, 1)
           c2 == ChunkOf(list, 2)
           n1 == (n + 1) \div 2
           n2 == n \div 2
           w == Worths(list)
           w1 == Worths(c1)
           w2 == Worths(c2)
<1>0. n \in Nat /\ n1 \in Nat /\ n2 \in Nat
  <2>1. n \in Nat
    OBVIOUS
  <2> HIDE DEF n
  <2>. QED
    BY <2>1
<1>1. /\ c1 \in Seq(Fraction) /\ Len(c1) = n1
      /\ \A i \in 1 .. n1 : c1[i] = list[2 * (i - 1) + 1]
  <2>1. Len(c1) = (n + 2 - 1) \div 2
    BY ChunkMeans
  <2>2. n + 2 - 1 = n + 1
    BY <1>0
  <2>3. Len(c1) = n1
    BY <2>1, <2>2
  <2>. QED
    BY <2>3, ChunkMeans
<1>2. /\ c2 \in Seq(Fraction) /\ Len(c2) = n2
      /\ \A i \in 1 .. n2 : c2[i] = list[2 * (i - 1) + 2]
  <2>1. Len(c2) = (n + 2 - 2) \div 2
    BY ChunkMeans
  <2>2. n + 2 - 2 = n
    BY <1>0
  <2>3. Len(c2) = n2
    BY <2>1, <2>2
  <2>. QED
    BY <2>3, ChunkMeans
<1>3. /\ w \in Seq(Int) /\ Len(w) = n /\ Worth(list) = Total[w]
      /\ \A i \in 1 .. n : w[i] = WorthOf(list[i]) /\ w[i] \in Int
  BY WorthsType
<1> HIDE DEF n, c1, c2, n1, n2
<1>4. /\ w1 \in Seq(Int) /\ Len(w1) = n1 /\ Worth(c1) = Total[w1]
      /\ \A i \in 1 .. n1 : w1[i] = WorthOf(c1[i])
  BY <1>1, WorthsType
<1>5. /\ w2 \in Seq(Int) /\ Len(w2) = n2 /\ Worth(c2) = Total[w2]
      /\ \A i \in 1 .. n2 : w2[i] = WorthOf(c2[i])
  BY <1>2, WorthsType
<1> HIDE DEF w, w1, w2
<1>6. PICK h \in [0 .. Len(w) -> Int] : Sums(w, h) /\ Total[w] = h[Len(w)]
  BY <1>3, TotalIsSum
<1>7. PICK h1 \in [0 .. Len(w1) -> Int] : Sums(w1, h1) /\ Total[w1] = h1[Len(w1)]
  BY <1>4, TotalIsSum
<1>8. PICK h2 \in [0 .. Len(w2) -> Int] : Sums(w2, h2) /\ Total[w2] = h2[Len(w2)]
  BY <1>5, TotalIsSum
<1> DEFINE I == {j \in 0 .. n : h[j] = h1[(j + 1) \div 2] + h2[j \div 2]}
<1>9. 0 \in I
  <2>1. h[0] = 0 /\ h1[0] = 0 /\ h2[0] = 0
    BY <1>6, <1>7, <1>8 DEF Sums
  <2>2. (0 + 1) \div 2 = 0 /\ 0 \div 2 = 0 /\ 0 \in 0 .. n
    BY <1>0
  <2>. QED
    BY <2>1, <2>2
<1>10. ASSUME NEW j \in 1 .. n, j - 1 \in I PROVE j \in I
  <2>1. j \in 0 .. n /\ j - 1 \in 0 .. n /\ j \in Int
    BY <1>0
  <2>2. h[j] = h[j - 1] + w[j] /\ w[j] \in Int
    BY <1>3, <1>6 DEF Sums
  <2>3. h[j - 1] = h1[(j - 1 + 1) \div 2] + h2[(j - 1) \div 2]
    BY <1>10
  <2>4. j - 1 + 1 = j
    BY <2>1
  <2>5. CASE j % 2 = 1
    <3> DEFINE k == j \div 2
    <3>1. /\ k \in Int /\ j = 2 * k + 1
          /\ (j + 1) \div 2 = k + 1 /\ (j - 1) \div 2 = k
          /\ k + 1 \in 1 .. n1 /\ k \in 0 .. n2
      BY <1>0, <2>1, <2>5 DEF n1, n2
    <3>2. w1[k + 1] = w[j]
      <4>1. 2 * (k + 1 - 1) + 1 = j
        BY <3>1
      <4>2. c1[k + 1] = list[j]
        <5> DEFINE m == k + 1
        <5>1. m \in 1 .. n1 /\ 2 * (m - 1) + 1 = j
          BY <3>1, <4>1
        <5> HIDE DEF m
        <5>2. c1[m] = list[j]
          BY <1>1, <5>1
        <5>. QED
          BY <5>2 DEF m
      <4>. QED
        BY <1>3, <1>4, <3>1, <4>2
    <3>3. h1[k + 1] = h1[k] + w1[k + 1]
      <4>1. h1[k + 1] = h1[k + 1 - 1] + w1[k + 1]
        BY <1>4, <1>7, <3>1 DEF Sums
      <4>2. k + 1 - 1 = k
        BY <3>1
      <4>. QED
        BY <4>1, <4>2
    <3>4. h1[k] \in Int /\ h2[k] \in Int
      <4>1. k \in 0 .. n1
        BY <1>0, <3>1
      <4>. QED
        BY <1>4, <1>5, <1>7, <1>8, <3>1, <4>1
    <3> HIDE DEF k
    <3>5. h[j] = h1[k] + h2[k] + w[j]
      BY <2>2, <2>3, <2>4, <3>1 DEF k
    <3>6. h[j] = h1[k + 1] + h2[k]
      <4> DEFINE a == h1[k]
                 b == h2[k]
                 x == w[j]
      <4>1. a \in Int /\ b \in Int /\ x \in Int
        BY <2>2, <3>4
      <4>2. h1[k + 1] = a + x
        BY <3>2, <3>3
      <4> HIDE DEF a, b, x
      <4>. QED
        BY <3>5, <4>1, <4>2 DEF a, b, x
    <3>7. h[j] = h1[(j + 1) \div 2] + h2[j \div 2]
      BY <3>1, <3>6 DEF k
    <3>. QED
      BY <2>1, <3>7
  <2>6. CASE j % 2 # 1
    <3> DEFINE k == j \div 2
    <3>1. /\ k \in Int /\ j = 2 * k
          /\ (j + 1) \div 2 = k /\ (j - 1) \div 2 = k - 1
          /\ k \in 1 .. n2 /\ k \in 0 .. n1
      BY <1>0, <2>1, <2>6 DEF n1, n2
    <3>2. w2[k] = w[j]
      <4>1. 2 * (k - 1) + 2 = j
        BY <3>1
      <4>2. c2[k] = list[j]
        BY <1>2, <3>1, <4>1
      <4>. QED
        BY <1>3, <1>5, <3>1, <4>2
    <3>3. h2[k] = h2[k - 1] + w2[k]
      BY <1>5, <1>8, <3>1 DEF Sums
    <3>4. h1[k] \in Int /\ h2[k - 1] \in Int
      <4>1. k - 1 \in 0 .. n2
        BY <1>0, <3>1
      <4>. QED
        BY <1>4, <1>5, <1>7, <1>8, <3>1, <4>1
    <3> HIDE DEF k
    <3>5. h[j] = h1[k] + h2[k - 1] + w[j]
      BY <2>2, <2>3, <2>4, <3>1 DEF k
    <3>6. h[j] = h1[k] + h2[k]
      <4> DEFINE a == h1[k]
                 b == h2[k - 1]
                 x == w[j]
      <4>1. a \in Int /\ b \in Int /\ x \in Int
        BY <2>2, <3>4
      <4>2. h2[k] = b + x
        BY <3>2, <3>3
      <4> HIDE DEF a, b, x
      <4>. QED
        BY <3>5, <4>1, <4>2 DEF a, b, x
    <3>7. h[j] = h1[(j + 1) \div 2] + h2[j \div 2]
      BY <3>1, <3>6 DEF k
    <3>. QED
      BY <2>1, <3>7
  <2>. QED
    BY <2>5, <2>6
<1>11. n \in I
  <2> HIDE DEF I
  <2>1. 0 .. n \subseteq I
    BY <1>0, <1>9, <1>10, InductionUpTo, Zenon
  <2>2. n \in 0 .. n
    BY <1>0
  <2>. QED
    BY <2>1, <2>2, Zenon
<1>12. Total[w] = Total[w1] + Total[w2]
  <2>1. h[n] = h1[n1] + h2[n2]
    BY <1>11 DEF n1, n2
  <2>. QED
    BY <1>3, <1>4, <1>5, <1>6, <1>7, <1>8, <2>1
<1>. QED
  BY <1>1, <1>2, <1>3, <1>4, <1>5, <1>12 DEF c1, c2

\* What is done in the two chunks, in one list.
LEMMA FlattenedLists ==
  /\ FlattenSeq(<<>>) = <<>>
  /\ \A a : FlattenSeq(<<a>>) = a
  /\ \A a, b : FlattenSeq(<<a, b>>) = a \o b
<1>1. FlattenSeq(<<>>) = <<>>
  BY DEF FlattenSeq
<1>2. ASSUME NEW a PROVE FlattenSeq(<<a>>) = a
  <2> DEFINE s == <<a>>
             IsFlat(f) == f = [i \in 1 .. Len(s) |->
                                 IF i = 1 THEN s[i] ELSE f[i - 1] \o s[i]]
             g == CHOOSE f : IsFlat(f)
  <2>1. FlattenSeq(s) = g[Len(s)]
    BY DEF FlattenSeq
  <2>2. IsFlat([i \in 1 .. 1 |-> a])
    <3>1. Len(s) = 1 /\ s[1] = a
      OBVIOUS
    <3> HIDE DEF s
    <3>2. \A i \in 1 .. 1 : i = 1
      OBVIOUS
    <3>. QED
      BY <3>1, <3>2
  <2>3. IsFlat(g)
    <3> HIDE DEF IsFlat
    <3>. QED
      BY <2>2
  <2>4. Len(s) = 1 /\ s[1] = a
    OBVIOUS
  <2> HIDE DEF g, s
  <2>5. g[1] = a
    BY <2>3, <2>4
  <2>. QED
    BY <2>1, <2>4, <2>5 DEF s
<1>3. ASSUME NEW a, NEW b PROVE FlattenSeq(<<a, b>>) = a \o b
  <2> DEFINE s == <<a, b>>
             IsFlat(f) == f = [i \in 1 .. Len(s) |->
                                 IF i = 1 THEN s[i] ELSE f[i - 1] \o s[i]]
             g == CHOOSE f : IsFlat(f)
             p == [i \in 1 .. 2 |-> IF i = 1 THEN a ELSE a \o b]
  <2>1. FlattenSeq(s) = g[Len(s)]
    BY DEF FlattenSeq
  <2>2. Len(s) = 2 /\ s[1] = a /\ s[2] = b
    OBVIOUS
  <2> HIDE DEF s
  <2>3. IsFlat(p)
    <3>1. p[1] = a /\ p[2] = a \o b
      OBVIOUS
    <3>2. \A i \in 1 .. 2 : i = 1 \/ i = 2
      OBVIOUS
    <3>3. \A i \in 1 .. 2 : p[i] = IF i = 1 THEN s[i] ELSE p[i - 1] \o s[i]
      <4>1. 2 - 1 = 1 /\ 2 # 1
        OBVIOUS
      <4>. QED
        BY <2>2, <3>1, <3>2, <4>1
    <3>4. p = [i \in 1 .. 2 |-> p[i]]
      OBVIOUS
    <3> HIDE DEF p
    <3>. QED
      BY <2>2, <3>3, <3>4
  <2>4. IsFlat(g)
    <3> HIDE DEF IsFlat, p
    <3>. QED
      BY <2>3
  <2> HIDE DEF g
  <2>5. g[1] = a /\ g[2] = g[1] \o b
    <3>1. 1 \in 1 .. 2 /\ 2 \in 1 .. 2 /\ 2 - 1 = 1 /\ 2 # 1
      OBVIOUS
    <3>. QED
      BY <2>2, <2>4, <3>1
  <2>. QED
    BY <2>1, <2>2, <2>5 DEF s
<1>. QED
  BY <1>1, <1>2, <1>3

-----------------------------------------------------------------------------
(***************************************************************************)
(* The inductive invariant.  The types say which lists are sorted and that *)
(* what is done has denominators in Final; the rest says what there is in  *)
(* each phase.  With SumKept every state has the sum of the input, and so  *)
(* the last merge gives an empty list only when that sum is 0.             *)
(***************************************************************************)

TypesInv ==
  /\ given \in StepInput
  /\ step \in Steps
  /\ terms \in Seq(Term(Denominators))
  /\ newterms \in Sorted(Denominators)
  /\ dec \in Sorted(Final)
  /\ at \in 1 .. Len(terms) + 1
  /\ results \in Seq(Sorted(Final)) /\ Len(results) \in 0 .. 2
  /\ phase \in {"loop", "merge", "done", "failed"}

PhaseInv ==
  /\ phase = "loop" => Len(results) <= 1
  /\ phase # "loop" => terms = <<>> /\ newterms = <<>> /\ dec = <<>>
  /\ phase = "merge" => Len(results) = 2
  /\ phase = "done" => Len(results) = 1
  /\ phase = "failed" => Len(results) = 2 /\ Worth(given) = 0

IInv == TypesInv /\ PhaseInv /\ SumKept

\* What the finished lists of the chunks are worth.
DoneWorth(lists) ==
  IF Len(lists) = 0 THEN 0
  ELSE IF Len(lists) = 1 THEN Worth(lists[1])
  ELSE Worth(lists[1]) + Worth(lists[2])

\* What the finished chunks are worth.
LEMMA DoneWorthIsSum ==
  ASSUME NEW lists \in Seq(Sorted(Final)), Len(lists) <= 2
  PROVE  /\ FlattenSeq(lists) \in Seq(Term(Final)) /\ FlattenSeq(lists) \in Seq(Fraction)
         /\ Worth(FlattenSeq(lists)) = DoneWorth(lists)
         /\ DoneWorth(lists) \in Int
<1> DEFINE T == Term(Final)
           D == Sorted(Final)
<1>0. \A list \in D : list \in Seq(T) /\ list \in Seq(Fraction) /\ Worth(list) \in Int
  BY FinalIsDenominator, TermIsFraction, WorthsType DEF Sorted
<1> HIDE DEF T, D
<1>1. lists \in Seq(D) /\ Len(lists) \in Nat
  BY DEF D
<1>2. CASE Len(lists) = 0
  <2>1. lists = <<>>
    BY <1>1, <1>2
  <2>2. FlattenSeq(lists) = <<>> /\ DoneWorth(lists) = 0
    BY <1>2, <2>1, FlattenedLists DEF DoneWorth
  <2>3. <<>> \in Seq(T) /\ <<>> \in Seq(Fraction) /\ Worth(<<>>) = 0
    BY WorthOfFew
  <2>. QED
    BY <2>2, <2>3 DEF T
<1>3. CASE Len(lists) = 1
  <2> DEFINE a == lists[1]
  <2>1. a \in D /\ lists = <<a>>
    <3>1. 1 \in 1 .. Len(lists)
      BY <1>3
    <3>2. a \in D
      BY <1>1, <3>1, ElementOfSeq
    <3>3. lists = <<a>>
      BY <1>1, <1>3
    <3>. QED
      BY <3>2, <3>3
  <2> HIDE DEF a
  <2>2. FlattenSeq(<<a>>) = a
    BY FlattenedLists, Zenon
  <2>3. DoneWorth(lists) = Worth(a)
    BY <1>3 DEF DoneWorth, a
  <2>. QED
    BY <1>0, <2>1, <2>2, <2>3 DEF T
<1>4. CASE Len(lists) = 2
  <2> DEFINE a == lists[1]
             b == lists[2]
  <2>1. a \in D /\ b \in D /\ lists = <<a, b>>
    <3>1. 1 \in 1 .. Len(lists) /\ 2 \in 1 .. Len(lists)
      BY <1>4
    <3>2. a \in D /\ b \in D
      BY <1>1, <3>1, ElementOfSeq
    <3>3. lists = <<a, b>>
      BY <1>1, <1>4
    <3>. QED
      BY <3>2, <3>3
  <2>2. DoneWorth(lists) = Worth(a) + Worth(b)
    BY <1>4 DEF DoneWorth
  <2> HIDE DEF a, b
  <2>3. FlattenSeq(<<a, b>>) = a \o b
    BY FlattenedLists, Zenon
  <2>4. /\ a \in Seq(T) /\ a \in Seq(Fraction) /\ Worth(a) \in Int
        /\ b \in Seq(T) /\ b \in Seq(Fraction) /\ Worth(b) \in Int
    BY <1>0, <2>1
  <2>5. a \o b \in Seq(T)
    BY <2>4
  <2>6. a \o b \in Seq(Fraction) /\ Worth(a \o b) = Worth(a) + Worth(b)
    BY <2>4, WorthOfConcat
  <2>7. Worth(a) + Worth(b) \in Int
    BY <2>4
  <2>. QED
    BY <2>1, <2>2, <2>3, <2>5, <2>6, <2>7 DEF T
<1>5. Len(lists) = 0 \/ Len(lists) = 1 \/ Len(lists) = 2
  <2> DEFINE k == Len(lists)
  <2>1. k \in Nat /\ k <= 2
    BY <1>1
  <2> HIDE DEF k
  <2>2. k = 0 \/ k = 1 \/ k = 2
    BY <2>1
  <2>. QED
    BY <2>2 DEF k
<1>. QED
  BY <1>2, <1>3, <1>4, <1>5

\* The sum of all there is, list by list: of the terms of the chunk, of those of
\* the next chunk, of those found in this pass, of those done in this chunk and
\* of those done in the chunks before.
LEMMA SumOfParts ==
  ASSUME NEW a \in Seq(Fraction), NEW b \in Seq(Fraction),
         NEW n \in Seq(Fraction), NEW d \in Seq(Fraction),
         NEW lists \in Seq(Sorted(Final)), Len(lists) <= 2
  PROVE  /\ Worth(a) \in Int /\ Worth(b) \in Int /\ Worth(n) \in Int /\ Worth(d) \in Int
         /\ DoneWorth(lists) \in Int
         /\ Worth((a \o b) \o n \o (d \o FlattenSeq(lists)))
              = Worth(a) + Worth(b) + Worth(n) + Worth(d) + DoneWorth(lists)
<1> DEFINE e == FlattenSeq(lists)
<1>1. e \in Seq(Fraction) /\ Worth(e) = DoneWorth(lists) /\ DoneWorth(lists) \in Int
  BY DoneWorthIsSum
<1>2. Worth(a) \in Int /\ Worth(b) \in Int /\ Worth(n) \in Int /\ Worth(d) \in Int
  BY WorthsType
<1> HIDE DEF e
<1>3. a \o b \in Seq(Fraction) /\ Worth(a \o b) = Worth(a) + Worth(b)
  BY WorthOfConcat
<1>4. d \o e \in Seq(Fraction) /\ Worth(d \o e) = Worth(d) + Worth(e)
  BY <1>1, WorthOfConcat
<1>5. /\ (a \o b) \o n \in Seq(Fraction)
      /\ Worth((a \o b) \o n) = Worth(a \o b) + Worth(n)
  BY <1>3, WorthOfConcat
<1>6. Worth((a \o b) \o n \o (d \o e)) = Worth((a \o b) \o n) + Worth(d \o e)
  BY <1>4, <1>5, WorthOfConcat
<1>7. Worth((a \o b) \o n \o (d \o e))
        = Worth(a) + Worth(b) + Worth(n) + Worth(d) + DoneWorth(lists)
  BY <1>1, <1>2, <1>3, <1>4, <1>5, <1>6
<1>. QED
  BY <1>1, <1>2, <1>7 DEF e

\* The terms of a pass that are left from number i on.
LEMMA TermsLeft ==
  ASSUME NEW list \in Seq(Term(Denominators)), NEW i \in 1 .. Len(list) + 1
  PROVE  /\ SubSeq(list, i, Len(list)) \in Seq(Fraction)
         /\ i = 1 => SubSeq(list, i, Len(list)) = list
         /\ i > Len(list) => SubSeq(list, i, Len(list)) = <<>>
         /\ i <= Len(list) =>
              /\ list[i] \in Term(Denominators)
              /\ WorthOf(list[i]) \in Int
              /\ Worth(SubSeq(list, i, Len(list)))
                   = WorthOf(list[i]) + Worth(SubSeq(list, i + 1, Len(list)))
<1> DEFINE n == Len(list)
           F == Fraction
           s == SubSeq(list, i, n)
           t == SubSeq(list, i + 1, n)
<1>0. n \in Nat /\ list \in Seq(F)
  BY TermIsFraction
<1> HIDE DEF F
<1>1. /\ s \in Seq(F) /\ Len(s) = n - i + 1
      /\ \A k \in 1 .. n - i + 1 : s[k] = list[i - 1 + k]
  <2> DEFINE j == i - 1
  <2>1. j \in 0 .. n /\ j + 1 = i /\ n - j = n - i + 1
    BY <1>0
  <2>2. /\ SubSeq(list, j + 1, Len(list)) \in Seq(F)
        /\ Len(SubSeq(list, j + 1, Len(list))) = Len(list) - j
        /\ \A k \in 1 .. Len(list) - j : SubSeq(list, j + 1, Len(list))[k] = list[j + k]
    <3> HIDE DEF j
    <3>1. j \in 0 .. Len(list)
      BY <2>1 DEF n
    <3>. QED
      BY <1>0, <3>1, PartsOfList
  <2>. QED
    BY <2>1, <2>2
<1>2. i = 1 => s = list
  <2>1. ASSUME i = 1 PROVE s = list
    <3>1. Len(s) = Len(list) /\ \A k \in 1 .. Len(s) : s[k] = list[k]
      <4>1. Len(s) = n /\ \A k \in 1 .. n : 1 - 1 + k = k
        BY <1>0, <1>1, <2>1
      <4>2. \A k \in 1 .. n : s[k] = list[1 - 1 + k]
        BY <1>1, <2>1, <4>1
      <4>. QED
        BY <4>1, <4>2
    <3> HIDE DEF s
    <3>. QED
      BY <1>0, <1>1, <3>1, SeqEqual
  <2>. QED
    BY <2>1
<1>3. i > n => s = <<>>
  <2>1. ASSUME i > n PROVE s = <<>>
    <3>1. Len(s) = 0
      BY <1>0, <1>1, <2>1
    <3> HIDE DEF s
    <3>. QED
      BY <1>1, <3>1
  <2>. QED
    BY <2>1
<1>4. ASSUME i <= n
      PROVE  /\ list[i] \in Term(Denominators) /\ WorthOf(list[i]) \in Int
             /\ Worth(s) = WorthOf(list[i]) + Worth(t)
  <2> DEFINE e == list[i]
             T == Term(Denominators)
  <2>1. e \in T
    <3>1. i \in 1 .. Len(list) /\ list \in Seq(T)
      BY <1>4
    <3> HIDE DEF T
    <3>. QED
      BY <3>1, ElementOfSeq
  <2>2. e \in F /\ e \in Fraction /\ WorthOf(e) \in Int
    BY <2>1, TermIsFraction, WorthOfType DEF F
  <2>3. /\ t \in Seq(F) /\ Len(t) = n - i
        /\ \A k \in 1 .. n - i : t[k] = list[i + k]
    <3>1. i \in 0 .. Len(list)
      BY <1>4
    <3>. QED
      BY <1>0, <3>1, PartsOfList
  <2>4. s = <<e>> \o t
    <3> HIDE DEF t, s
    <3>1. <<e>> \o t \in Seq(F) /\ Len(<<e>> \o t) = n - i + 1
      BY <1>0, <2>2, <2>3
    <3>2. ASSUME NEW k \in 1 .. n - i + 1 PROVE s[k] = (<<e>> \o t)[k]
      <4>1. s[k] = list[i - 1 + k]
        BY <1>1
      <4>2. CASE k = 1
        <5>1. (<<e>> \o t)[1] = e
          BY <2>2, <2>3
        <5>2. i - 1 + 1 = i
          BY <1>0
        <5>. QED
          BY <4>1, <4>2, <5>1, <5>2
      <4>3. CASE k # 1
        <5>1. k - 1 \in 1 .. n - i /\ i + (k - 1) = i - 1 + k
          BY <1>0, <4>3
        <5>2. (<<e>> \o t)[k] = t[k - 1]
          BY <1>0, <2>2, <2>3, <4>3
        <5>3. t[k - 1] = list[i + (k - 1)]
          BY <2>3, <5>1
        <5>. QED
          BY <4>1, <5>1, <5>2, <5>3
      <4>. QED
        BY <4>2, <4>3
    <3>3. Len(s) = Len(<<e>> \o t)
      BY <1>1, <3>1
    <3>. QED
      BY <1>1, <3>1, <3>2, <3>3, SeqEqual
  <2>5. <<e>> \in Seq(Fraction) /\ Worth(<<e>>) = WorthOf(e)
    BY <2>2, WorthOfFew
  <2>6. Worth(<<e>> \o t) = Worth(<<e>>) + Worth(t)
    <3> HIDE DEF t, e
    <3>. QED
      BY <2>3, <2>5, WorthOfConcat DEF F
  <2>. QED
    BY <2>1, <2>2, <2>4, <2>5, <2>6
<1>. QED
  BY <1>1, <1>2, <1>3, <1>4 DEF F

\* The terms of the chunk that is not begun yet.
LaterTerms(g, lists, p) == IF p = "loop" /\ lists = <<>> THEN ChunkOf(g, 2) ELSE <<>>

\* SumKept, list by list.
SumIs(g, list, i, n, d, lists, p) ==
  Worth(SubSeq(list, i, Len(list))) + Worth(LaterTerms(g, lists, p))
    + Worth(n) + Worth(d) + DoneWorth(lists) = Worth(g)

\* SumKept in terms of what each list is worth.
LEMMA SumIsKept ==
  ASSUME NEW g \in StepInput, NEW list \in Seq(Term(Denominators)),
         NEW i \in 1 .. Len(list) + 1,
         NEW n \in Sorted(Denominators), NEW d \in Sorted(Final),
         NEW lists \in Seq(Sorted(Final)), Len(lists) <= 2, NEW p
  PROVE  /\ Worth((SubSeq(list, i, Len(list)) \o LaterTerms(g, lists, p))
                     \o n \o (d \o FlattenSeq(lists))) = Worth(g)
              <=> SumIs(g, list, i, n, d, lists, p)
         /\ Worth(SubSeq(list, i, Len(list))) \in Int
         /\ Worth(LaterTerms(g, lists, p)) \in Int
         /\ Worth(n) \in Int /\ Worth(d) \in Int /\ DoneWorth(lists) \in Int
         /\ Worth(g) \in Int
<1> DEFINE a == SubSeq(list, i, Len(list))
           b == LaterTerms(g, lists, p)
<1>1. a \in Seq(Fraction)
  BY TermsLeft
<1>2. g \in Seq(Fraction) /\ Worth(g) \in Int
  BY InputIsSorted, TermIsFraction, WorthsType
<1>3. b \in Seq(Fraction)
  <2>1. ChunkOf(g, 2) \in Seq(Fraction)
    BY <1>2, ChunksAddUp
  <2>2. <<>> \in Seq(Fraction)
    OBVIOUS
  <2>. QED
    BY <2>1, <2>2, Zenon DEF LaterTerms
<1>4. n \in Seq(Fraction) /\ d \in Seq(Fraction)
  BY TermIsFraction, FinalIsDenominator
<1> HIDE DEF a, b
<1>5. /\ Worth(a) \in Int /\ Worth(b) \in Int /\ Worth(n) \in Int /\ Worth(d) \in Int
      /\ DoneWorth(lists) \in Int
      /\ Worth((a \o b) \o n \o (d \o FlattenSeq(lists)))
           = Worth(a) + Worth(b) + Worth(n) + Worth(d) + DoneWorth(lists)
  BY <1>1, <1>3, <1>4, SumOfParts
<1>. QED
  BY <1>2, <1>5 DEF a, b, SumIs

\* The invariant holds at the start.
LEMMA InitIInv == Init => IInv
<1> SUFFICES ASSUME Init PROVE IInv
  OBVIOUS
<1> USE DEF Init
<1>1. given \in StepInput /\ given \in Seq(Term(Denominators)) /\ given \in Seq(Fraction)
  BY InputIsSorted, TermIsFraction
<1>2. terms \in Seq(Term(Denominators)) /\ at \in 1 .. Len(terms) + 1
  <2>1. ChunkOf(given, 1) \in Seq(Term(Denominators))
    BY <1>1, ChunkMeans
  <2>2. Len(terms) \in Nat
    BY <2>1
  <2>. QED
    BY <2>1, <2>2
<1>3. newterms \in Sorted(Denominators) /\ dec \in Sorted(Final)
  BY EmptyIsSorted
<1>4. results \in Seq(Sorted(Final)) /\ Len(results) = 0
  OBVIOUS
<1>5. TypesInv
  BY <1>1, <1>2, <1>3, <1>4 DEF TypesInv
<1>6. PhaseInv
  BY <1>4 DEF PhaseInv
<1>7. SumKept
  <2>1. SumKept <=> SumIs(given, terms, at, newterms, dec, results, phase)
    <3>1. Len(results) <= 2
      BY <1>4
    <3> HIDE DEF Init
    <3>2. SumKept <=> Worth((SubSeq(terms, at, Len(terms))
                               \o LaterTerms(given, results, phase))
                              \o newterms \o (dec \o FlattenSeq(results))) = Worth(given)
      BY Zenon DEF SumKept, Waiting, Finished, LaterTerms
    <3>3. Worth((SubSeq(terms, at, Len(terms)) \o LaterTerms(given, results, phase))
                  \o newterms \o (dec \o FlattenSeq(results))) = Worth(given)
            <=> SumIs(given, terms, at, newterms, dec, results, phase)
      BY <1>1, <1>2, <1>3, <1>4, <3>1, SumIsKept
    <3>. QED
      BY <3>2, <3>3, Zenon
  <2>2. SubSeq(terms, at, Len(terms)) = ChunkOf(given, 1)
    BY <1>2, TermsLeft
  <2>3. LaterTerms(given, results, phase) = ChunkOf(given, 2)
    BY DEF LaterTerms
  <2>4. /\ ChunkOf(given, 1) \in Seq(Fraction) /\ ChunkOf(given, 2) \in Seq(Fraction)
        /\ Worth(ChunkOf(given, 1)) + Worth(ChunkOf(given, 2)) = Worth(given)
    BY <1>1, ChunksAddUp
  <2>5. Worth(newterms) = 0 /\ Worth(dec) = 0 /\ DoneWorth(results) = 0
    BY <1>4, WorthOfFew DEF DoneWorth
  <2>6. SumIs(given, terms, at, newterms, dec, results, phase)
    <3> DEFINE x == Worth(ChunkOf(given, 1))
               y == Worth(ChunkOf(given, 2))
    <3>1. x \in Int /\ y \in Int /\ x + y = Worth(given)
      BY <2>4, WorthsType
    <3> HIDE DEF x, y
    <3>2. x + y + 0 + 0 + 0 = Worth(given)
      BY <3>1
    <3>. QED
      BY <2>2, <2>3, <2>5, <3>2 DEF SumIs, x, y
  <2>. QED
    BY <2>1, <2>6
<1>. QED
  BY <1>5, <1>6, <1>7 DEF IInv

\* The term that a turn decomposes, and what it becomes.
LEMMA TurnBySize ==
  ASSUME TypesInv, MergeBySize
  PROVE  LET l == terms[at]
             r == NSSdecompStep(l)
         IN  /\ l \in Term(Denominators)
             /\ \/ /\ newterms' \in Sorted(Denominators)
                   /\ Worth(newterms') = Worth(newterms) + WorthOf(l)
                   /\ dec' = dec
                \/ /\ dec' \in Sorted(Final)
                   /\ Worth(dec') = Worth(dec) + WorthOf(l)
                   /\ newterms' = newterms
<1> DEFINE l == terms[at]
           r == NSSdecompStep(l)
<1>1. l \in Term(Denominators)
  <2>1. at <= Len(terms)
    BY DEF MergeBySize
  <2>2. at \in 1 .. Len(terms) + 1 /\ terms \in Seq(Term(Denominators))
    BY DEF TypesInv
  <2>. QED
    BY <2>1, <2>2, TermsLeft
<1>2. /\ r \in Seq(Term(Denominators)) /\ Worth(r) = WorthOf(l)
      /\ ~WasDecomposed(r) => r \in Seq(Term(Final))
  <2> HIDE DEF l
  <2>. QED
    BY <1>1, NSSdecompStepKeepsWorth
<1>3. newterms \in Sorted(Denominators) /\ dec \in Sorted(Final)
  BY DEF TypesInv
<1>4. IF WasDecomposed(r) THEN newterms' = MergePfd(newterms, r) /\ dec' = dec
      ELSE dec' = MergePfd(dec, r) /\ newterms' = newterms
  BY DEF MergeBySize, JoinsFinished
<1> HIDE DEF l, r
<1>5. CASE WasDecomposed(r)
  <2>1. MergePfd(newterms, r) \in Sorted(Denominators)
    BY <1>2, <1>3, MergePfdSorts, FinalIsDenominator
  <2>2. Worth(MergePfd(newterms, r)) = Worth(newterms) + Worth(r)
    BY <1>2, <1>3, MergePfdKeepsWorth
  <2>. QED
    BY <1>1, <1>2, <1>4, <1>5, <2>1, <2>2 DEF l
<1>6. CASE ~WasDecomposed(r)
  <2>1. MergePfd(dec, r) \in Sorted(Final)
    BY <1>2, <1>3, <1>6, MergePfdSorts, FinalIsDenominator
  <2>2. Worth(MergePfd(dec, r)) = Worth(dec) + Worth(r)
    BY <1>2, <1>3, MergePfdKeepsWorth, FinalIsDenominator
  <2>. QED
    BY <1>1, <1>2, <1>4, <1>6, <2>1, <2>2 DEF l
<1>. QED
  BY <1>5, <1>6

\* A turn of the for loop by index adds what its term is worth to the two lists,
\* and keeps both sorted.
LEMMA TurnByIndex ==
  ASSUME TypesInv, MergeByIndex
  PROVE  /\ terms[at] \in Term(Denominators)
         /\ newterms' \in Sorted(Denominators) /\ dec' \in Sorted(Final)
         /\ Worth(newterms') \in Int /\ Worth(dec') \in Int
         /\ Worth(newterms') + Worth(dec')
              = Worth(newterms) + Worth(dec) + WorthOf(terms[at])
<1> DEFINE l == terms[at]
           r == IF step = "numeratorDecompStep" THEN numeratorDecompStep(l)
                ELSE shortNumeratorDecompStep(l)
<1>1. l \in Term(Denominators)
  <2>1. at <= Len(terms)
    BY DEF MergeByIndex
  <2>2. at \in 1 .. Len(terms) + 1 /\ terms \in Seq(Term(Denominators))
    BY DEF TypesInv
  <2>. QED
    BY <2>1, <2>2, TermsLeft
<1>2. newterms \in Sorted(Denominators) /\ dec \in Sorted(Final)
  BY DEF TypesInv
<1>3. newterms' = MergePfd(newterms, r.again) /\ dec' = MergePfd(dec, r.rest)
  BY DEF MergeByIndex, JoinsFinished
<1>4. Splits(l, r)
  <2> HIDE DEF l
  <2>1. Splits(l, shortNumeratorDecompStep(l)) /\ Splits(l, numeratorDecompStep(l))
    BY <1>1, NumeratorStepsKeepWorth
  <2>. QED
    BY <2>1, Zenon
<1> HIDE DEF l, r
<1> DEFINE a == r.again
           b == r.rest
<1>5. /\ a \in Seq(Term(Denominators)) /\ b \in Seq(Term(Final))
      /\ b \in Seq(Term(Denominators))
      /\ Worth(a) + Worth(b) = WorthOf(l)
  BY <1>4, FinalIsDenominator DEF Splits
<1> HIDE DEF a, b
<1>6. MergePfd(newterms, a) \in Sorted(Denominators) /\ MergePfd(dec, b) \in Sorted(Final)
  BY <1>2, <1>5, MergePfdSorts, FinalIsDenominator
<1>7. /\ Worth(MergePfd(newterms, a)) = Worth(newterms) + Worth(a)
      /\ Worth(MergePfd(dec, b)) = Worth(dec) + Worth(b)
  BY <1>2, <1>5, MergePfdKeepsWorth, FinalIsDenominator
<1>8. /\ Worth(newterms) \in Int /\ Worth(dec) \in Int /\ Worth(a) \in Int
      /\ Worth(b) \in Int
  BY <1>2, <1>5, TermIsFraction, FinalIsDenominator, WorthsType
<1>9. newterms' = MergePfd(newterms, a) /\ dec' = MergePfd(dec, b)
  BY <1>3 DEF a, b
<1>10. /\ Worth(newterms') \in Int /\ Worth(dec') \in Int
       /\ Worth(newterms') + Worth(dec') = Worth(newterms) + Worth(dec) + WorthOf(l)
  <2> DEFINE x == Worth(newterms)
             y == Worth(dec)
             u == Worth(a)
             v == Worth(b)
  <2>1. Worth(newterms') = x + u /\ Worth(dec') = y + v /\ WorthOf(l) = u + v
    BY <1>5, <1>7, <1>9
  <2>2. x \in Int /\ y \in Int /\ u \in Int /\ v \in Int
    BY <1>8
  <2> HIDE DEF x, y, u, v
  <2>3. (x + u) + (y + v) = x + y + (u + v)
    BY <2>2
  <2>. QED
    BY <2>1, <2>2, <2>3 DEF x, y
<1>. QED
  BY <1>1, <1>6, <1>9, <1>10 DEF l

\* SumKept of a state and of the next one, list by list.
LEMMA SumKeptMeans ==
  /\ TypesInv /\ PhaseInv =>
       /\ SumKept <=> SumIs(given, terms, at, newterms, dec, results, phase)
       /\ Worth(SubSeq(terms, at, Len(terms))) \in Int
       /\ Worth(LaterTerms(given, results, phase)) \in Int
       /\ Worth(newterms) \in Int /\ Worth(dec) \in Int /\ DoneWorth(results) \in Int
       /\ Worth(given) \in Int
  /\ TypesInv' /\ PhaseInv' =>
       (SumKept' <=> SumIs(given', terms', at', newterms', dec', results', phase'))
<1>1. ASSUME TypesInv, PhaseInv
      PROVE  /\ SumKept <=> SumIs(given, terms, at, newterms, dec, results, phase)
             /\ Worth(SubSeq(terms, at, Len(terms))) \in Int
             /\ Worth(LaterTerms(given, results, phase)) \in Int
             /\ Worth(newterms) \in Int /\ Worth(dec) \in Int /\ DoneWorth(results) \in Int
             /\ Worth(given) \in Int
  <2>1. Len(results) <= 2
    <3> DEFINE k == Len(results)
    <3>1. k \in 0 .. 2
      BY <1>1, Zenon DEF TypesInv
    <3> HIDE DEF k
    <3>2. k <= 2
      BY <3>1
    <3>. QED
      BY <3>2, Zenon DEF k
  <2>2. /\ given \in StepInput /\ terms \in Seq(Term(Denominators))
        /\ at \in 1 .. Len(terms) + 1 /\ newterms \in Sorted(Denominators)
        /\ dec \in Sorted(Final) /\ results \in Seq(Sorted(Final))
    BY <1>1 DEF TypesInv
  <2>3. SumKept <=> Worth((SubSeq(terms, at, Len(terms))
                             \o LaterTerms(given, results, phase))
                            \o newterms \o (dec \o FlattenSeq(results))) = Worth(given)
    BY Zenon DEF SumKept, Waiting, Finished, LaterTerms
  <2>4. /\ Worth((SubSeq(terms, at, Len(terms)) \o LaterTerms(given, results, phase))
                    \o newterms \o (dec \o FlattenSeq(results))) = Worth(given)
             <=> SumIs(given, terms, at, newterms, dec, results, phase)
        /\ Worth(SubSeq(terms, at, Len(terms))) \in Int
        /\ Worth(LaterTerms(given, results, phase)) \in Int
        /\ Worth(newterms) \in Int /\ Worth(dec) \in Int /\ DoneWorth(results) \in Int
        /\ Worth(given) \in Int
    BY <2>1, <2>2, SumIsKept
  <2>. QED
    BY <2>3, <2>4, Zenon
<1>2. ASSUME TypesInv', PhaseInv'
      PROVE  SumKept' <=> SumIs(given', terms', at', newterms', dec', results', phase')
  <2>1. Len(results') <= 2
    <3> DEFINE k == Len(results')
    <3>1. k \in 0 .. 2
      BY <1>2, Zenon DEF TypesInv
    <3> HIDE DEF k
    <3>2. k <= 2
      BY <3>1
    <3>. QED
      BY <3>2, Zenon DEF k
  <2>2. /\ given' \in StepInput /\ terms' \in Seq(Term(Denominators))
        /\ at' \in 1 .. Len(terms') + 1 /\ newterms' \in Sorted(Denominators)
        /\ dec' \in Sorted(Final) /\ results' \in Seq(Sorted(Final))
    BY <1>2 DEF TypesInv
  <2>3. SumKept' <=> Worth((SubSeq(terms', at', Len(terms'))
                             \o LaterTerms(given', results', phase'))
                            \o newterms' \o (dec' \o FlattenSeq(results'))) = Worth(given')
    BY Zenon DEF SumKept, Waiting, Finished, LaterTerms
  <2>4. Worth((SubSeq(terms', at', Len(terms')) \o LaterTerms(given', results', phase'))
                 \o newterms' \o (dec' \o FlattenSeq(results'))) = Worth(given')
          <=> SumIs(given', terms', at', newterms', dec', results', phase')
    BY <2>1, <2>2, SumIsKept
  <2>. QED
    BY <2>3, <2>4, Zenon
<1>. QED
  BY <1>1, <1>2

\* It is kept by a turn of the for loop by size,
LEMMA MergeBySizeKeeps == IInv /\ MergeBySize => IInv'
<1> SUFFICES ASSUME IInv, MergeBySize PROVE IInv'
  OBVIOUS
<1>1. TypesInv /\ PhaseInv /\ SumKept
  BY DEF IInv
<1>2. /\ phase = "loop" /\ at <= Len(terms) /\ at' = at + 1
      /\ given' = given /\ step' = step /\ terms' = terms
      /\ results' = results /\ phase' = phase
  BY DEF MergeBySize
<1> DEFINE l == terms[at]
<1>3. /\ l \in Term(Denominators)
      /\ \/ /\ newterms' \in Sorted(Denominators)
            /\ Worth(newterms') = Worth(newterms) + WorthOf(l)
            /\ dec' = dec
         \/ /\ dec' \in Sorted(Final)
            /\ Worth(dec') = Worth(dec) + WorthOf(l)
            /\ newterms' = newterms
  BY <1>1, TurnBySize
<1> HIDE DEF l
<1>4. TypesInv'
  <2>1. newterms' \in Sorted(Denominators) /\ dec' \in Sorted(Final)
    BY <1>1, <1>3 DEF TypesInv
  <2>2. at' \in 1 .. Len(terms') + 1
    <3>1. at \in 1 .. Len(terms) + 1 /\ Len(terms) \in Nat
      BY <1>1 DEF TypesInv
    <3>. QED
      BY <1>2, <3>1
  <2>. QED
    BY <1>1, <1>2, <2>1, <2>2 DEF TypesInv
<1>5. PhaseInv'
  BY <1>1, <1>2 DEF PhaseInv
<1>6. SumKept'
  <2>1. /\ WorthOf(l) \in Int
        /\ Worth(SubSeq(terms, at, Len(terms)))
             = WorthOf(l) + Worth(SubSeq(terms, at + 1, Len(terms)))
    BY <1>1, <1>2, TermsLeft DEF TypesInv, l
  <2>2. SubSeq(terms, at + 1, Len(terms)) \in Seq(Fraction)
    <3>1. at + 1 \in 1 .. Len(terms) + 1
      BY <1>2, <1>4 DEF TypesInv
    <3>. QED
      BY <1>1, <3>1, TermsLeft DEF TypesInv
  <2> DEFINE a == Worth(SubSeq(terms, at, Len(terms)))
             a2 == Worth(SubSeq(terms, at + 1, Len(terms)))
             b == Worth(LaterTerms(given, results, phase))
             n == Worth(newterms)
             n2 == Worth(newterms')
             d == Worth(dec)
             d2 == Worth(dec')
             s == DoneWorth(results)
             g == Worth(given)
             x == WorthOf(l)
  <2>3. /\ a \in Int /\ b \in Int /\ n \in Int /\ d \in Int /\ s \in Int /\ g \in Int
        /\ a + b + n + d + s = g
    BY <1>1, SumKeptMeans DEF SumIs
  <2>4. a2 \in Int /\ x \in Int /\ a = x + a2
    BY <2>1, <2>2, WorthsType
  <2>5. (n2 = n + x /\ d2 = d) \/ (d2 = d + x /\ n2 = n)
    BY <1>3
  <2>6. SumIs(given', terms', at', newterms', dec', results', phase')
          <=> a2 + b + n2 + d2 + s = g
    BY <1>2 DEF SumIs
  <2> HIDE DEF a, a2, b, n, n2, d, d2, s, g, x
  <2>7. a2 + b + n2 + d2 + s = g
    BY <2>3, <2>4, <2>5
  <2>. QED
    BY <1>4, <1>5, <2>6, <2>7, SumKeptMeans
<1>. QED
  BY <1>4, <1>5, <1>6 DEF IInv

\* by one by index,
LEMMA MergeByIndexKeeps == IInv /\ MergeByIndex => IInv'
<1> SUFFICES ASSUME IInv, MergeByIndex PROVE IInv'
  OBVIOUS
<1>1. TypesInv /\ PhaseInv /\ SumKept
  BY DEF IInv
<1>2. /\ phase = "loop" /\ at <= Len(terms) /\ at' = at + 1
      /\ given' = given /\ step' = step /\ terms' = terms
      /\ results' = results /\ phase' = phase
  BY DEF MergeByIndex
<1> DEFINE l == terms[at]
<1>3. /\ l \in Term(Denominators)
      /\ newterms' \in Sorted(Denominators) /\ dec' \in Sorted(Final)
      /\ Worth(newterms') \in Int /\ Worth(dec') \in Int
      /\ Worth(newterms') + Worth(dec') = Worth(newterms) + Worth(dec) + WorthOf(l)
  BY <1>1, TurnByIndex
<1> HIDE DEF l
<1>4. TypesInv'
  <2>1. at' \in 1 .. Len(terms') + 1
    <3>1. at \in 1 .. Len(terms) + 1 /\ Len(terms) \in Nat
      BY <1>1 DEF TypesInv
    <3>. QED
      BY <1>2, <3>1
  <2>. QED
    BY <1>1, <1>2, <1>3, <2>1 DEF TypesInv
<1>5. PhaseInv'
  BY <1>1, <1>2 DEF PhaseInv
<1>6. SumKept'
  <2>1. /\ WorthOf(l) \in Int
        /\ Worth(SubSeq(terms, at, Len(terms)))
             = WorthOf(l) + Worth(SubSeq(terms, at + 1, Len(terms)))
    BY <1>1, <1>2, TermsLeft DEF TypesInv, l
  <2>2. SubSeq(terms, at + 1, Len(terms)) \in Seq(Fraction)
    <3>1. at + 1 \in 1 .. Len(terms) + 1
      BY <1>2, <1>4 DEF TypesInv
    <3>. QED
      BY <1>1, <3>1, TermsLeft DEF TypesInv
  <2> DEFINE a == Worth(SubSeq(terms, at, Len(terms)))
             a2 == Worth(SubSeq(terms, at + 1, Len(terms)))
             b == Worth(LaterTerms(given, results, phase))
             n == Worth(newterms)
             n2 == Worth(newterms')
             d == Worth(dec)
             d2 == Worth(dec')
             s == DoneWorth(results)
             g == Worth(given)
             x == WorthOf(l)
  <2>3. /\ a \in Int /\ b \in Int /\ n \in Int /\ d \in Int /\ s \in Int /\ g \in Int
        /\ a + b + n + d + s = g
    BY <1>1, SumKeptMeans DEF SumIs
  <2>4. a2 \in Int /\ x \in Int /\ a = x + a2
    BY <2>1, <2>2, WorthsType
  <2>5. n2 \in Int /\ d2 \in Int /\ n2 + d2 = n + d + x
    BY <1>3
  <2>6. SumIs(given', terms', at', newterms', dec', results', phase')
          <=> a2 + b + n2 + d2 + s = g
    BY <1>2 DEF SumIs
  <2> HIDE DEF a, a2, b, n, n2, d, d2, s, g, x
  <2>7. a2 + b + n2 + d2 + s = g
    BY <2>3, <2>4, <2>5
  <2>. QED
    BY <1>4, <1>5, <2>6, <2>7, SumKeptMeans
<1>. QED
  BY <1>4, <1>5, <1>6 DEF IInv

\* by the next pass of the while loop,
LEMMA NextPassKeeps == IInv /\ NextPass => IInv'
<1> SUFFICES ASSUME IInv, NextPass PROVE IInv'
  OBVIOUS
<1>1. TypesInv /\ PhaseInv /\ SumKept
  BY DEF IInv
<1>2. /\ phase = "loop" /\ at > Len(terms) /\ at' = 1
      /\ terms' = newterms /\ newterms' = <<>>
      /\ given' = given /\ step' = step /\ dec' = dec
      /\ results' = results /\ phase' = phase
  BY DEF NextPass
<1>3. newterms \in Seq(Term(Denominators)) /\ Len(newterms) \in Nat
  BY <1>1 DEF TypesInv, Sorted
<1>4. TypesInv'
  <2>1. newterms' \in Sorted(Denominators)
    BY <1>2, EmptyIsSorted
  <2>2. at' \in 1 .. Len(terms') + 1
    BY <1>2, <1>3
  <2>. QED
    BY <1>1, <1>2, <1>3, <2>1, <2>2 DEF TypesInv
<1>5. PhaseInv'
  BY <1>1, <1>2 DEF PhaseInv
<1>6. SumKept'
  <2>1. SubSeq(terms, at, Len(terms)) = <<>>
    BY <1>1, <1>2, TermsLeft DEF TypesInv
  <2>2. SubSeq(terms', at', Len(terms')) = newterms
    <3>1. 1 \in 1 .. Len(newterms) + 1
      BY <1>3
    <3>. QED
      BY <1>2, <1>3, <3>1, TermsLeft
  <2> DEFINE b == Worth(LaterTerms(given, results, phase))
             n == Worth(newterms)
             d == Worth(dec)
             s == DoneWorth(results)
             g == Worth(given)
  <2>3. /\ b \in Int /\ n \in Int /\ d \in Int /\ s \in Int /\ g \in Int
        /\ 0 + b + n + d + s = g
    BY <1>1, <2>1, SumKeptMeans, WorthOfFew DEF SumIs
  <2>4. SumIs(given', terms', at', newterms', dec', results', phase')
          <=> n + b + 0 + d + s = g
    BY <1>2, <2>2, WorthOfFew DEF SumIs
  <2> HIDE DEF b, n, d, s, g
  <2>5. n + b + 0 + d + s = g
    BY <2>3
  <2>. QED
    BY <1>4, <1>5, <2>4, <2>5, SumKeptMeans
<1>. QED
  BY <1>4, <1>5, <1>6 DEF IInv

\* by the end of the loop of a chunk,
LEMMA EndLoopKeeps == IInv /\ EndLoop => IInv'
<1> SUFFICES ASSUME IInv, EndLoop PROVE IInv'
  OBVIOUS
<1>1. TypesInv /\ PhaseInv /\ SumKept
  BY DEF IInv
<1>2. /\ phase = "loop" /\ at > Len(terms) /\ newterms = <<>>
      /\ results' = Append(results, dec) /\ dec' = <<>> /\ at' = 1
      /\ given' = given /\ step' = step /\ newterms' = newterms
      /\ results = <<>> => terms' = ChunkOf(given, 2) /\ phase' = phase
      /\ results # <<>> => terms' = <<>> /\ phase' = "merge"
  BY DEF EndLoop
<1> DEFINE D == Sorted(Final)
<1>3. /\ results \in Seq(D) /\ dec \in D /\ dec \in Seq(Fraction)
      /\ given \in StepInput /\ given \in Seq(Term(Denominators))
  BY <1>1, InputIsSorted, FinalIsDenominator, TermIsFraction DEF TypesInv
<1>4. Len(results) = 0 \/ Len(results) = 1
  <2> DEFINE k == Len(results)
  <2>1. k \in 0 .. 2
    BY <1>1, Zenon DEF TypesInv
  <2>2. k <= 1
    BY <1>1, <1>2, Zenon DEF PhaseInv
  <2> HIDE DEF k
  <2>3. k = 0 \/ k = 1
    BY <2>1, <2>2
  <2>. QED
    BY <2>3, Zenon DEF k
<1> HIDE DEF D
<1>5. /\ results' \in Seq(D) /\ Len(results') = Len(results) + 1
      /\ Len(results') \in 0 .. 2
  <2>1. Append(results, dec) \in Seq(D) /\ Len(Append(results, dec)) = Len(results) + 1
    BY <1>3
  <2>2. Len(Append(results, dec)) \in 0 .. 2
    <3> DEFINE k == Len(results)
               m == Len(Append(results, dec))
    <3>1. m = k + 1 /\ (k = 0 \/ k = 1)
      BY <1>4, <2>1
    <3> HIDE DEF k, m
    <3>2. m \in 0 .. 2
      BY <3>1
    <3>. QED
      BY <3>2, Zenon DEF m
  <2>. QED
    BY <1>2, <2>1, <2>2
<1>6. terms' \in Seq(Term(Denominators)) /\ Len(terms') \in Nat
  <2>1. ChunkOf(given, 2) \in Seq(Term(Denominators)) /\ Len(ChunkOf(given, 2)) \in Nat
    BY <1>3, ChunkMeans
  <2>2. <<>> \in Seq(Term(Denominators)) /\ Len(<<>>) \in Nat
    OBVIOUS
  <2>. QED
    BY <1>2, <2>1, <2>2, Zenon
<1>7. TypesInv'
  <2>1. newterms' \in Sorted(Denominators) /\ dec' \in Sorted(Final)
    BY <1>2, EmptyIsSorted
  <2>2. at' \in 1 .. Len(terms') + 1
    BY <1>2, <1>6
  <2>3. phase' \in {"loop", "merge", "done", "failed"}
    BY <1>2
  <2>4. given' \in StepInput /\ step' \in Steps
    BY <1>1, <1>2 DEF TypesInv
  <2>. QED
    BY <1>5, <1>6, <2>1, <2>2, <2>3, <2>4 DEF TypesInv, D
<1>8. PhaseInv'
  <2>1. CASE results = <<>>
    <3>1. phase' = "loop" /\ Len(results') = 1
      BY <1>2, <1>5, <2>1
    <3>. QED
      BY <3>1 DEF PhaseInv
  <2>2. CASE results # <<>>
    <3>1. Len(results) = 1
      BY <1>3, <1>4, <2>2
    <3>2. phase' = "merge" /\ Len(results') = 2
      BY <1>2, <1>5, <2>2, <3>1
    <3>. QED
      BY <1>2, <2>2, <3>2 DEF PhaseInv
  <2>. QED
    BY <2>1, <2>2
<1>9. SumKept'
  <2>1. SubSeq(terms, at, Len(terms)) = <<>>
    BY <1>1, <1>2, TermsLeft DEF TypesInv
  <2>2. SubSeq(terms', at', Len(terms')) = terms'
    BY <1>2, <1>6, <1>7, TermsLeft DEF TypesInv
  <2> DEFINE b == Worth(LaterTerms(given, results, phase))
             d == Worth(dec)
             s == DoneWorth(results)
             g == Worth(given)
             t2 == Worth(terms')
             b2 == Worth(LaterTerms(given', results', phase'))
             s2 == DoneWorth(results')
  <2>3. /\ b \in Int /\ d \in Int /\ s \in Int /\ g \in Int
        /\ 0 + b + 0 + d + s = g
    BY <1>1, <1>2, <2>1, SumKeptMeans, WorthOfFew DEF SumIs
  <2>4. SumIs(given', terms', at', newterms', dec', results', phase')
          <=> t2 + b2 + 0 + 0 + s2 = g
    BY <1>2, <2>2, WorthOfFew DEF SumIs
  <2>5. b2 = 0
    <3>1. results' # <<>>
      BY <1>2, <1>3
    <3>2. LaterTerms(given', results', phase') = <<>>
      BY <3>1 DEF LaterTerms
    <3>. QED
      BY <3>2, WorthOfFew
  <2>6. t2 = b
    <3>1. CASE results = <<>>
      BY <1>2, <3>1 DEF LaterTerms
    <3>2. CASE results # <<>>
      BY <1>2, <3>2 DEF LaterTerms
    <3>. QED
      BY <3>1, <3>2
  <2>7. s2 = d + s
    <3>1. CASE Len(results) = 0
      <4>1. Len(results') = 1 /\ results'[1] = dec
        BY <1>2, <1>3, <3>1
      <4>2. s2 = d /\ s = 0
        BY <3>1, <4>1 DEF DoneWorth
      <4> HIDE DEF s2, d, s
      <4>. QED
        BY <2>3, <4>2
    <3>2. CASE Len(results) = 1
      <4>1. Len(results') = 2
        BY <1>5, <3>2
      <4>2. results'[1] = results[1] /\ results'[2] = dec
        <5>1. results' = Append(results, dec)
          BY <1>2
        <5>2. /\ Append(results, dec)[Len(results) + 1] = dec
              /\ \A k \in 1 .. Len(results) : Append(results, dec)[k] = results[k]
          BY <1>3
        <5>. QED
          BY <3>2, <5>1, <5>2
      <4>3. s2 = Worth(results[1]) + d /\ s = Worth(results[1])
        BY <3>2, <4>1, <4>2 DEF DoneWorth
      <4> HIDE DEF s2, d, s
      <4>. QED
        BY <2>3, <4>3
    <3>. QED
      BY <1>4, <3>1, <3>2
  <2> HIDE DEF b, d, s, g, t2, b2, s2
  <2>8. t2 + b2 + 0 + 0 + s2 = g
    BY <2>3, <2>5, <2>6, <2>7
  <2>. QED
    BY <1>7, <1>8, <2>4, <2>8, SumKeptMeans
<1>. QED
  BY <1>7, <1>8, <1>9 DEF IInv

\* by the merge of the two results,
LEMMA MergePairKeeps == IInv /\ MergePair => IInv'
<1> SUFFICES ASSUME IInv, MergePair PROVE IInv'
  OBVIOUS
<1>1. TypesInv /\ PhaseInv /\ SumKept
  BY DEF IInv
<1> DEFINE a == results[1]
           b == results[2]
           merged == MergePfdSorted(a, b)
           D == Sorted(Final)
<1>2. /\ phase = "merge"
      /\ merged = <<>> => phase' = "failed" /\ results' = results
      /\ merged # <<>> => phase' = "done" /\ results' = <<merged>>
      /\ given' = given /\ step' = step /\ terms' = terms
      /\ newterms' = newterms /\ dec' = dec /\ at' = at
  BY DEF MergePair
<1>3. /\ terms = <<>> /\ newterms = <<>> /\ dec = <<>> /\ Len(results) = 2
      /\ results \in Seq(D)
  BY <1>1, <1>2 DEF TypesInv, PhaseInv
<1>4. a \in D /\ b \in D
  <2> HIDE DEF D
  <2>1. 1 \in 1 .. Len(results) /\ 2 \in 1 .. Len(results)
    BY <1>3
  <2>. QED
    BY <1>3, <2>1, ElementOfSeq
<1> HIDE DEF a, b
<1>5. merged \in D
  BY <1>4, MergePfdSortedSorts, FinalIsDenominator
<1>6. /\ Worth(merged) = Worth(a) + Worth(b)
      /\ Worth(a) \in Int /\ Worth(b) \in Int
  BY <1>4, MergePfdSortedKeepsWorth, FinalIsDenominator, TermIsFraction, WorthsType
<1> HIDE DEF merged, D
<1>7. Worth(merged) = Worth(given)
  <2>1. SubSeq(terms, at, Len(terms)) = <<>>
    <3>1. at \in 1 .. Len(terms) + 1 /\ Len(terms) = 0
      BY <1>1, <1>3 DEF TypesInv
    <3>2. at > Len(terms)
      BY <3>1
    <3>. QED
      BY <1>1, <3>2, TermsLeft DEF TypesInv
  <2>2. LaterTerms(given, results, phase) = <<>>
    BY <1>2 DEF LaterTerms
  <2>3. DoneWorth(results) = Worth(a) + Worth(b)
    BY <1>3 DEF DoneWorth, a, b
  <2>4. 0 + 0 + 0 + 0 + (Worth(a) + Worth(b)) = Worth(given)
    BY <1>1, <1>3, <2>1, <2>2, <2>3, SumKeptMeans, WorthOfFew DEF SumIs
  <2>. QED
    BY <1>6, <2>4
<1>8. CASE merged = <<>>
  <2>1. phase' = "failed" /\ results' = results
    BY <1>2, <1>8
  <2>2. Worth(given) = 0
    BY <1>7, <1>8, WorthOfFew
  <2>3. TypesInv'
    BY <1>1, <1>2, <2>1 DEF TypesInv
  <2>4. PhaseInv'
    BY <1>2, <1>3, <2>1, <2>2 DEF PhaseInv
  <2>5. SumKept'
    <3>1. SumIs(given', terms', at', newterms', dec', results', phase')
            <=> SumIs(given, terms, at, newterms, dec, results, phase)
      BY <1>2, <2>1 DEF SumIs, LaterTerms
    <3>. QED
      BY <1>1, <2>3, <2>4, <3>1, SumKeptMeans
  <2>. QED
    BY <2>3, <2>4, <2>5 DEF IInv
<1>9. CASE merged # <<>>
  <2>1. phase' = "done" /\ results' = <<merged>>
    BY <1>2, <1>9
  <2>2. results' \in Seq(D) /\ Len(results') = 1
    BY <1>5, <2>1
  <2>3. TypesInv'
    <3>1. Len(results') \in 0 .. 2
      BY <2>2
    <3>. QED
      BY <1>1, <1>2, <2>1, <2>2, <3>1 DEF TypesInv, D
  <2>4. PhaseInv'
    BY <1>2, <1>3, <2>1, <2>2 DEF PhaseInv
  <2>5. SumKept'
    <3>1. SubSeq(terms', at', Len(terms')) = <<>>
      <4>1. terms' = <<>> /\ terms' \in Seq(Term(Denominators))
            /\ at' \in 1 .. Len(terms') + 1
        BY <1>2, <1>3, <2>3 DEF TypesInv
      <4>2. at' > Len(terms')
        BY <4>1
      <4>. QED
        BY <4>1, <4>2, TermsLeft
    <3>2. LaterTerms(given', results', phase') = <<>>
      BY <2>1 DEF LaterTerms
    <3>3. DoneWorth(results') = Worth(merged)
      BY <2>1, <2>2 DEF DoneWorth
    <3>4. Worth(merged) \in Int
      BY <1>6
    <3>5. SumIs(given', terms', at', newterms', dec', results', phase')
            <=> 0 + 0 + 0 + 0 + Worth(merged) = Worth(given)
      BY <1>2, <1>3, <3>1, <3>2, <3>3, WorthOfFew DEF SumIs
    <3>6. 0 + 0 + 0 + 0 + Worth(merged) = Worth(given)
      BY <1>7, <3>4
    <3>. QED
      BY <2>3, <2>4, <3>5, <3>6, SumKeptMeans
  <2>. QED
    BY <2>3, <2>4, <2>5 DEF IInv
<1>. QED
  BY <1>8, <1>9

\* and by steps that change nothing.
LEMMA StutterKeeps == IInv /\ UNCHANGED vars => IInv'
<1> SUFFICES ASSUME IInv, UNCHANGED vars PROVE IInv'
  OBVIOUS
<1>1. /\ given' = given /\ step' = step /\ terms' = terms /\ newterms' = newterms
      /\ dec' = dec /\ at' = at /\ results' = results /\ phase' = phase
  BY DEF vars
<1>2. TypesInv /\ PhaseInv /\ SumKept
  BY DEF IInv
<1>3. TypesInv'
  BY <1>1, <1>2 DEF TypesInv
<1>4. PhaseInv'
  BY <1>1, <1>2 DEF PhaseInv
<1>5. SumKept'
  BY <1>1, <1>2 DEF SumKept, Waiting, Finished
<1>. QED
  BY <1>3, <1>4, <1>5 DEF IInv

\* Every step keeps the invariant, and so every state has it.
THEOREM InvariantHolds == Spec => []IInv
<1>1. Init => IInv
  BY InitIInv
<1>2. IInv /\ [Next]_vars => IInv'
  <2> SUFFICES ASSUME IInv, [Next]_vars PROVE IInv'
    OBVIOUS
  <2>1. CASE MergeBySize
    BY <2>1, MergeBySizeKeeps
  <2>2. CASE MergeByIndex
    BY <2>2, MergeByIndexKeeps
  <2>3. CASE NextPass
    BY <2>3, NextPassKeeps
  <2>4. CASE EndLoop
    BY <2>4, EndLoopKeeps
  <2>5. CASE MergePair
    BY <2>5, MergePairKeeps
  <2>6. CASE Stopped
    BY <2>6, StutterKeeps DEF Stopped
  <2>7. CASE UNCHANGED vars
    BY <2>7, StutterKeeps
  <2>. QED
    BY <2>1, <2>2, <2>3, <2>4, <2>5, <2>6, <2>7 DEF Next
<1>. QED
  BY <1>1, <1>2, PTL DEF Spec

\* No pass of generic_dec_loop and no merge changes the sum of the fractions of
\* a step, whatever the factors, the exponents, the numerators and the number of
\* terms are.
THEOREM TheSumIsKept == Spec => []SumKept
<1>1. IInv => SumKept
  BY DEF IInv
<1>. QED
  BY <1>1, InvariantHolds, PTL

\* The lists that mergepfd and mergepfd_sorted work on are sorted, without a
\* numerator 0, in every state.
THEOREM ListsAreNormal == Spec => []ListsNormal
<1>1. IInv => ListsNormal
  <2> SUFFICES ASSUME IInv,
                      NEW list \in {newterms, dec}
                                     \cup {results[i] : i \in 1 .. Len(results)}
               PROVE  InOrder(list) /\ \A i \in 1 .. Len(list) : list[i].num # 0
    BY DEF ListsNormal
  <2>1. /\ newterms \in Sorted(Denominators) /\ dec \in Sorted(Final)
        /\ results \in Seq(Sorted(Final))
    BY DEF IInv, TypesInv
  <2>2. \A i \in 1 .. Len(results) : results[i] \in Sorted(Final)
    BY <2>1, ElementOfSeq
  <2>3. list \in Sorted(Denominators)
    BY <2>1, <2>2, FinalIsDenominator
  <2>4. InOrder(list) /\ list \in Seq(Term(Denominators))
    BY <2>3 DEF Sorted
  <2>5. \A i \in 1 .. Len(list) : list[i] \in Term(Denominators)
    BY <2>4, ElementOfSeq
  <2>6. \A e \in Term(Denominators) : e.num # 0
    BY DEF Term
  <2>. QED
    BY <2>4, <2>5, <2>6
<1>. QED
  BY <1>1, InvariantHolds, PTL

\* The factors of every denominator that generic_dec_loop has put aside as done
\* have a common zero; and pfd_fork_merge_pair fails only on fractions of sum 0.
THEOREM ResultsAreDecomposed == Spec => []ResultsDecomposed
<1>1. IInv => ResultsDecomposed
  <2> SUFFICES ASSUME IInv PROVE ResultsDecomposed
    OBVIOUS
  <2>1. TypesInv /\ PhaseInv
    BY DEF IInv
  <2> DEFINE T == Term(Final)
             f == FlattenSeq(results)
  <2>2. dec \in Seq(T)
    BY <2>1 DEF TypesInv, Sorted
  <2>3. f \in Seq(T)
    <3> DEFINE k == Len(results)
    <3>1. k \in 0 .. 2 /\ results \in Seq(Sorted(Final))
      BY <2>1, Zenon DEF TypesInv
    <3> HIDE DEF k
    <3>2. k <= 2
      BY <3>1
    <3>3. Len(results) <= 2
      BY <3>2, Zenon DEF k
    <3>. QED
      BY <3>1, <3>3, DoneWorthIsSum
  <2> HIDE DEF f, T
  <2>4. dec \o f \in Seq(T)
    BY <2>2, <2>3
  <2>5. \A i \in 1 .. Len(dec \o f) : (dec \o f)[i] \in T
    BY <2>4, ElementOfSeq
  <2>6. \A e \in T : HaveCommonZero(e.den)
    BY DEF T, Term, Final
  <2>7. phase = "failed" => Worth(given) = 0
    BY <2>1 DEF PhaseInv
  <2>. QED
    BY <2>5, <2>6, <2>7 DEF ResultsDecomposed, Finished, f
<1>. QED
  BY <1>1, InvariantHolds, PTL

-----------------------------------------------------------------------------
(***************************************************************************)
(* Why the while loop ends.  That it does is liveness; what is proved is   *)
(* that the largest total degree of a denominator falls with every pass.   *)
(***************************************************************************)

Degree(d) == Total[d.exp]

\* The denominators of a degree below k.
BelowDegree(k) == {d \in Denominators : Degree(d) < k}

DegreeUpTo(list, k) == \A i \in 1 .. Len(list) : Degree(list[i].den) <= k

\* A denominator without a factor, or with a power less, is of lower degree.
LEMMA PartsAreLower ==
  ASSUME NEW d \in Denominators, NEW i \in 1 .. Len(d.ind)
  PROVE  /\ Without(d, i) \in BelowDegree(Degree(d))
         /\ Lowered(d, i) \in BelowDegree(Degree(d))
<1> DEFINE x == d.exp[i]
           t == Total[d.exp]
<1>1. /\ d.exp \in Seq(Int) /\ i \in 1 .. Len(d.exp) /\ x \in 1 .. MaxExp
      /\ t \in Int /\ d.exp \in Seq(1 .. MaxExp)
      /\ d \in [ind : Seq(DOMAIN Q), exp : Seq(1 .. MaxExp)]
  BY DenominatorParts, DenominatorsMeans
<1>2. x \in Int /\ x >= 1
  BY <1>1, MaxExpAssumption
<1>3. Total[RemoveAt(d.exp, i)] = t - x
  BY <1>1, TotalOfRemoved
<1>4. Total[[d.exp EXCEPT ![i] = x - 1]] = t - x + (x - 1)
  <2>1. x - 1 \in Int
    BY <1>2
  <2> DEFINE y == x - 1
  <2> HIDE DEF y
  <2>2. Total[[d.exp EXCEPT ![i] = y]] = Total[d.exp] - d.exp[i] + y
    BY <1>1, <2>1, TotalOfReplaced DEF y
  <2>. QED
    BY <2>2 DEF y
<1>5. Without(d, i).exp = RemoveAt(d.exp, i)
  BY DEF Without
<1>6. Lowered(d, i).exp =
        IF x = 1 THEN RemoveAt(d.exp, i) ELSE [d.exp EXCEPT ![i] = x - 1]
  BY <1>1 DEF Lowered, Without
<1> HIDE DEF x, t
<1>7. Total[Without(d, i).exp] < t /\ Total[Lowered(d, i).exp] < t
  <2>1. t - x < t /\ t - x + (x - 1) < t
    BY <1>1, <1>2
  <2>. QED
    BY <1>3, <1>4, <1>5, <1>6, <2>1
<1>8. Without(d, i) \in Denominators /\ Lowered(d, i) \in Denominators
  BY WithoutIsDenominator, LoweredIsDenominator
<1>. QED
  BY <1>7, <1>8 DEF BelowDegree, Degree, t

\* What Nonzero keeps of fractions of low degree are terms of low degree.
LEMMA NonzeroIsLow ==
  ASSUME NEW k, NEW list, NEW n \in Nat, Len(list) = n,
         list = [i \in 1 .. n |-> list[i]],
         \A i \in 1 .. n : list[i] \in [num : Int, den : BelowDegree(k)]
  PROVE  Nonzero[list] \in Seq(Term(BelowDegree(k)))
<1> DEFINE S == [num : Int, den : BelowDegree(k)]
           T == {e \in S : e.num # 0}
           U == Term(BelowDegree(k))
           r == Nonzero[list]
<1>1. S \in SUBSET Fraction
  BY DEF BelowDegree, Fraction
<1>2. T \subseteq U
  BY DEF Term
<1> HIDE DEF S, T, U, r
<1>3. list \in Seq(S)
  <2>1. \A i \in 1 .. n : list[i] \in S
    BY DEF S
  <2>. QED
    BY <2>1
<1>4. r \in Seq(T)
  BY <1>1, <1>3, NonzeroKeepsWorth DEF T, r
<1>5. \A i \in 1 .. Len(r) : r[i] \in U
  BY <1>2, <1>4, ElementOfSeq
<1>6. r \in Seq(U)
  BY <1>4, <1>5
<1>. QED
  BY <1>6 DEF U, r

\* What a procedure gives to be decomposed again has a lower total degree than
\* the term it was given.
THEOREM StepsLowerDegree ==
  ASSUME NEW l \in Term(Denominators)
  PROVE  LET D == BelowDegree(Degree(l.den))
         IN  /\ WasDecomposed(NSSdecompStep(l)) => NSSdecompStep(l) \in Seq(Term(D))
             /\ shortNumeratorDecompStep(l).again \in Seq(Term(D))
             /\ numeratorDecompStep(l).again \in Seq(Term(D))
<1> DEFINE d == l.den
           k == Degree(d)
           n == Len(d.ind)
           D == BelowDegree(k)
<1>1. l.num \in Int /\ d \in Denominators
  BY OneTerm
<1>2. n \in Nat /\ (d.ind = <<>> <=> n = 0)
  <2> HIDE DEF d
  <2>1. d.ind \in Seq(DOMAIN Q)
    BY <1>1, DenominatorParts
  <2>. QED
    BY <2>1 DEF n
<1>3. \A i \in 1 .. n : Without(d, i) \in D /\ Lowered(d, i) \in D
  BY <1>1, PartsAreLower
<1>4. ASSUME WasDecomposed(NSSdecompStep(l))
      PROVE  NSSdecompStep(l) \in Seq(Term(D))
  <2> DEFINE list == Certified(l)
  <2>1. Liftstd[PowersOf(d)].g = 1
    <3> SUFFICES ASSUME Liftstd[PowersOf(d)].g # 1 PROVE FALSE
      OBVIOUS
    <3>1. NSSdecompStep(l) = <<l>>
      BY NSSdecompStepIs
    <3>. QED
      BY <1>4, <3>1 DEF WasDecomposed
  <2>2. /\ NSSdecompStep(l) = Nonzero[list]
        /\ list = [i \in 1 .. n |-> list[i]] /\ Len(list) = n
        /\ \A i \in 1 .. n : list[i] \in [num : Int, den : {Without(d, i)}]
    BY <2>1, NSSdecompStepIs
  <2> HIDE DEF list, n, k, d
  <2>3. \A i \in 1 .. n : list[i] \in [num : Int, den : D]
    <3> HIDE DEF D
    <3>. QED
      BY <1>3, <2>2
  <2>4. Nonzero[list] \in Seq(Term(D))
    BY <1>2, <2>2, <2>3, NonzeroIsLow, Zenon
  <2>. QED
    BY <2>2, <2>4, Zenon
<1>5. ASSUME d.ind # <<>> PROVE Spread(l) \in Seq(Term(D))
  <2> DEFINE list == Spreaded(l)
  <2>1. n >= 1
    <3> HIDE DEF n
    <3>. QED
      BY <1>2, <1>5
  <2>2. /\ Spread(l) = Nonzero[list]
        /\ list = [i \in 1 .. n |-> list[i]] /\ Len(list) = n
        /\ \A i \in 1 .. n : list[i] \in [num : Int, den : {Lowered(d, i)}]
    BY <2>1, SpreadIs
  <2> HIDE DEF list, n, k, d
  <2>3. \A i \in 1 .. n : list[i] \in [num : Int, den : D]
    <3> HIDE DEF D
    <3>. QED
      BY <1>3, <2>2
  <2>4. Nonzero[list] \in Seq(Term(D))
    BY <1>2, <2>2, <2>3, NonzeroIsLow, Zenon
  <2>. QED
    BY <2>2, <2>4, Zenon
<1>6. <<>> \in Seq(Term(D))
  OBVIOUS
<1>7. shortNumeratorDecompStep(l).again \in Seq(Term(D))
  BY <1>5, <1>6 DEF shortNumeratorDecompStep
<1>8. numeratorDecompStep(l).again \in Seq(Term(D))
  BY <1>5, <1>6 DEF numeratorDecompStep
<1>. QED
  BY <1>4, <1>7, <1>8

\* What is found in a pass has a lower degree than the largest of the pass.
NewtermsLower ==
  \A k \in Nat : DegreeUpTo(terms, k) => newterms \in Sorted(BelowDegree(k))

\* A pass of the while loop lowers the largest degree: after a denominator of
\* degree k there are at most k passes.
PassesLowerDegree ==
  [][NextPass => \A k \in Nat : DegreeUpTo(terms, k) =>
                                  k > 0 /\ DegreeUpTo(terms', k - 1)]_vars

\* What comes of a term of the list is below the degree of the list.
LEMMA LowerIsLower ==
  ASSUME NEW list \in Seq(Term(Denominators)), NEW k \in Nat, DegreeUpTo(list, k),
         NEW i \in 1 .. Len(list)
  PROVE  /\ BelowDegree(Degree(list[i].den)) \subseteq BelowDegree(k)
         /\ BelowDegree(k) \in SUBSET Denominator
         /\ \A r \in Seq(Term(BelowDegree(Degree(list[i].den)))) :
              r \in Seq(Term(BelowDegree(k)))
<1> DEFINE D == BelowDegree(Degree(list[i].den))
           E == BelowDegree(k)
           S == Term(D)
           T == Term(E)
<1>1. Degree(list[i].den) <= k /\ Degree(list[i].den) \in Int
  <2>1. list[i].den \in Denominators
    <3> DEFINE U == Term(Denominators)
    <3>1. list \in Seq(U)
      OBVIOUS
    <3> HIDE DEF U
    <3>2. list[i] \in U
      BY <3>1, ElementOfSeq
    <3>. QED
      BY <3>2 DEF U, Term
  <2>2. Degree(list[i].den) \in Int
    BY <2>1, DenominatorParts DEF Degree
  <2>. QED
    BY <2>2 DEF DegreeUpTo
<1>2. ASSUME NEW d \in D PROVE d \in E
  <2>1. d \in Denominators /\ Degree(d) < Degree(list[i].den)
    BY DEF BelowDegree
  <2>2. Degree(d) \in Int
    BY <2>1, DenominatorParts DEF Degree
  <2>3. Degree(d) < k
    BY <1>1, <2>1, <2>2
  <2>. QED
    BY <2>1, <2>3 DEF BelowDegree
<1>3. E \in SUBSET Denominator
  BY DenominatorsAre DEF BelowDegree
<1>4. S \subseteq T
  <2>1. D \subseteq E
    BY <1>2
  <2> HIDE DEF D, E
  <2>. QED
    BY <2>1 DEF Term
<1> HIDE DEF S, T
<1>5. ASSUME NEW r \in Seq(S) PROVE r \in Seq(T)
  <2>1. \A j \in 1 .. Len(r) : r[j] \in T
    BY <1>4, ElementOfSeq
  <2>. QED
    BY <2>1
<1>. QED
  BY <1>2, <1>3, <1>5 DEF S, T

\* Every turn keeps the new terms below the degree of the terms of the pass.
LEMMA NewtermsStayLower == IInv /\ NewtermsLower /\ [Next]_vars => NewtermsLower'
<1> SUFFICES ASSUME IInv, NewtermsLower, [Next]_vars,
                    NEW k \in Nat, DegreeUpTo(terms', k)
             PROVE  newterms' \in Sorted(BelowDegree(k))
  BY DEF NewtermsLower
<1>1. TypesInv /\ PhaseInv
  BY DEF IInv
<1>2. <<>> \in Sorted(BelowDegree(k))
  BY EmptyIsSorted
<1>3. terms' = terms => newterms \in Sorted(BelowDegree(k))
  BY DEF NewtermsLower
<1>4. CASE MergeBySize
  <2> DEFINE l == terms[at]
             r == NSSdecompStep(l)
             D == BelowDegree(Degree(l.den))
  <2>1. terms' = terms /\ at \in 1 .. Len(terms) /\ terms \in Seq(Term(Denominators))
    <3>1. at \in 1 .. Len(terms) + 1 /\ at <= Len(terms) /\ terms' = terms
      BY <1>1, <1>4 DEF TypesInv, MergeBySize
    <3>2. terms \in Seq(Term(Denominators))
      BY <1>1 DEF TypesInv
    <3>3. Len(terms) \in Nat
      BY <3>2
    <3>4. at \in 1 .. Len(terms)
      BY <3>1, <3>3
    <3>. QED
      BY <3>1, <3>2, <3>4
  <2>2. l \in Term(Denominators)
    BY <1>1, <1>4, TurnBySize
  <2>3. newterms' = IF WasDecomposed(r) THEN MergePfd(newterms, r) ELSE newterms
    BY <1>4 DEF MergeBySize
  <2>4. newterms \in Sorted(BelowDegree(k))
    BY <1>3, <2>1
  <2>5. CASE WasDecomposed(r)
    <3>1. r \in Seq(Term(D))
      <4> HIDE DEF l
      <4>. QED
        BY <2>2, <2>5, StepsLowerDegree
    <3>2. r \in Seq(Term(BelowDegree(k))) /\ BelowDegree(k) \in SUBSET Denominator
      <4> HIDE DEF r
      <4>. QED
        BY <2>1, <3>1, LowerIsLower
    <3> HIDE DEF r
    <3>3. MergePfd(newterms, r) \in Sorted(BelowDegree(k))
      BY <2>4, <3>2, MergePfdSorts
    <3>. QED
      BY <2>3, <2>5, <3>3
  <2>6. CASE ~WasDecomposed(r)
    BY <2>3, <2>4, <2>6
  <2>. QED
    BY <2>5, <2>6
<1>5. CASE MergeByIndex
  <2> DEFINE l == terms[at]
             r == IF step = "numeratorDecompStep" THEN numeratorDecompStep(l)
                  ELSE shortNumeratorDecompStep(l)
             a == r.again
             D == BelowDegree(Degree(l.den))
  <2>1. terms' = terms /\ at \in 1 .. Len(terms) /\ terms \in Seq(Term(Denominators))
    <3>1. at \in 1 .. Len(terms) + 1 /\ at <= Len(terms) /\ terms' = terms
      BY <1>1, <1>5 DEF TypesInv, MergeByIndex
    <3>2. terms \in Seq(Term(Denominators))
      BY <1>1 DEF TypesInv
    <3>3. Len(terms) \in Nat
      BY <3>2
    <3>4. at \in 1 .. Len(terms)
      BY <3>1, <3>3
    <3>. QED
      BY <3>1, <3>2, <3>4
  <2>2. l \in Term(Denominators)
    BY <1>1, <1>5, TurnByIndex
  <2>3. newterms' = MergePfd(newterms, a)
    BY <1>5 DEF MergeByIndex
  <2>4. newterms \in Sorted(BelowDegree(k))
    BY <1>3, <2>1
  <2>5. a \in Seq(Term(D))
    <3> HIDE DEF l
    <3>1. /\ shortNumeratorDecompStep(l).again \in Seq(Term(D))
          /\ numeratorDecompStep(l).again \in Seq(Term(D))
      BY <2>2, StepsLowerDegree
    <3>. QED
      BY <3>1
  <2> HIDE DEF a
  <2>6. a \in Seq(Term(BelowDegree(k))) /\ BelowDegree(k) \in SUBSET Denominator
    BY <2>1, <2>5, LowerIsLower
  <2>7. MergePfd(newterms, a) \in Sorted(BelowDegree(k))
    BY <2>4, <2>6, MergePfdSorts
  <2>. QED
    BY <2>3, <2>7
<1>6. CASE NextPass
  BY <1>2, <1>6 DEF NextPass
<1>7. CASE EndLoop
  BY <1>2, <1>7 DEF EndLoop
<1>8. CASE MergePair
  BY <1>3, <1>8 DEF MergePair
<1>9. CASE UNCHANGED vars \/ Stopped
  BY <1>3, <1>9 DEF vars, Stopped
<1>. QED
  BY <1>4, <1>5, <1>6, <1>7, <1>8, <1>9 DEF Next

\* Every pass of the while loop of generic_dec_loop starts with terms of a lower
\* degree than the one before, and only while that degree is positive: there are
\* no more passes than the degree of the input.
THEOREM PassesDoLowerDegree == Spec => PassesLowerDegree
<1> DEFINE Lowers == NextPass => \A k \in Nat : DegreeUpTo(terms, k) =>
                                    k > 0 /\ DegreeUpTo(terms', k - 1)
<1>1. Init => NewtermsLower
  BY EmptyIsSorted DEF Init, NewtermsLower
<1>2. IInv /\ NewtermsLower => Lowers
  <2> SUFFICES ASSUME IInv, NewtermsLower, NextPass,
                      NEW k \in Nat, DegreeUpTo(terms, k)
               PROVE  k > 0 /\ DegreeUpTo(terms', k - 1)
    OBVIOUS
  <2>1. newterms # <<>> /\ terms' = newterms
    BY DEF NextPass
  <2> DEFINE T == Term(BelowDegree(k))
  <2>2. newterms \in Seq(T)
    BY DEF NewtermsLower, Sorted
  <2>3. ASSUME NEW e \in T
        PROVE  Degree(e.den) \in Nat /\ Degree(e.den) < k
    <3>1. e.den \in Denominators /\ Degree(e.den) < k
      BY DEF Term, BelowDegree
    <3>2. e.den \in Denominator
      BY <3>1, DenominatorsAre
    <3>3. e.den.exp \in Seq(Nat \ {0})
      BY <3>2 DEF Denominator
    <3>4. Total[e.den.exp] \in Nat
      BY <3>3, TotalIsPositive
    <3>. QED
      BY <3>1, <3>4 DEF Degree
  <2> HIDE DEF T
  <2>4. \A i \in 1 .. Len(newterms) : newterms[i] \in T
    BY <2>2, ElementOfSeq
  <2>5. k > 0
    <3>1. 1 \in 1 .. Len(newterms)
      BY <2>1, <2>2
    <3>2. Degree(newterms[1].den) \in Nat /\ Degree(newterms[1].den) < k
      BY <2>3, <2>4, <3>1
    <3>. QED
      BY <3>2
  <2>6. ASSUME NEW i \in 1 .. Len(newterms) PROVE Degree(newterms[i].den) <= k - 1
    <3>1. Degree(newterms[i].den) \in Nat /\ Degree(newterms[i].den) < k
      BY <2>3, <2>4
    <3>. QED
      BY <3>1
  <2>. QED
    BY <2>1, <2>5, <2>6 DEF DegreeUpTo
<1>3. Spec => [](IInv /\ NewtermsLower)
  BY <1>1, InvariantHolds, NewtermsStayLower, PTL DEF Spec
<1>. QED
  BY <1>2, <1>3, PTL DEF Spec, PassesLowerDegree
=============================================================================
