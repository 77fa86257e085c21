-------------------------- MODULE QuickSortProofs --------------------------
(***************************************************************************)
(* Proofs about QuickSort, for every number of problems and all sizes: the *)
(* indices stay in the array and the list ends up as a sorted permutation. *)
(***************************************************************************)
EXTENDS QuickSort, TLAPS

\* The array b holds in the positions lo .. hi what a holds there, in any order,
\* and is equal to a elsewhere.
Rearranged(a, b, lo, hi) ==
  /\ b \in [Index -> Index]
  /\ \A k \in Index : ~(lo <= k /\ k <= hi) => b[k] = a[k]
  /\ \A k \in lo .. hi : \E m \in lo .. hi : b[k] = a[m]

OneToOne(a) == \A k, m \in Index : k # m => a[k] # a[m]

-----------------------------------------------------------------------------

\* An exchange of two positions of a range rearranges the range (pfd_swap).
LEMMA SwapRearranges ==
  ASSUME count \in Nat,
         NEW a \in [Index -> Index],
         NEW lo \in Index, NEW hi \in Index,
         NEW x \in lo .. hi, NEW y \in lo .. hi
  PROVE  /\ Rearranged(a, Swapped(a, x, y), lo, hi)
         /\ OneToOne(a) => OneToOne(Swapped(a, x, y))
<1>1. x \in Index /\ y \in Index
  BY DEF Index
<1>2. \A k \in Index : Swapped(a, x, y)[k] =
                         IF k = y THEN a[x] ELSE IF k = x THEN a[y] ELSE a[k]
  BY <1>1 DEF Swapped
<1>3. Swapped(a, x, y) \in [Index -> Index]
  BY <1>1 DEF Swapped
<1>4. ASSUME NEW k \in lo .. hi
      PROVE  \E m \in lo .. hi : Swapped(a, x, y)[k] = a[m]
  <2>1. k \in Index
    BY DEF Index
  <2>. QED
    BY <1>2, <2>1
<1>5. OneToOne(a) => OneToOne(Swapped(a, x, y))
  BY <1>1, <1>2 DEF OneToOne
<1>. QED
  BY <1>2, <1>3, <1>4, <1>5 DEF Rearranged

\* Two rearrangements of a range, one after the other, are one.
LEMMA RearrangedTwice ==
  ASSUME count \in Nat,
         NEW a, NEW b, NEW c, NEW lo \in Int, NEW hi \in Int,
         Rearranged(a, b, lo, hi), Rearranged(b, c, lo, hi)
  PROVE  Rearranged(a, c, lo, hi)
BY DEF Rearranged

\* pfd_quick_pivot rearranges the range it is called for.
LEMMA PivotChosenRearranges ==
  ASSUME TypeOK, Permuted, at = "call", low < high
  PROVE  /\ Rearranged(input, PivotChosen, low, high)
         /\ OneToOne(PivotChosen)
<1> DEFINE mid == (low + high) \div 2
           a == IF Lower(input, mid, low) THEN Swapped(input, low, mid)
                ELSE input
           b == IF Lower(a, high, low) THEN Swapped(a, low, high) ELSE a
           c == IF Lower(b, mid, high) THEN Swapped(b, low, high) ELSE b
<1>1. /\ count \in Nat /\ low \in Index /\ high \in Index
      /\ mid \in low .. high /\ low \in low .. high /\ high \in low .. high
      /\ input \in [Index -> Index] /\ OneToOne(input)
  BY MaxCountAssumption DEF TypeOK, Range, Index, Permuted, OneToOne
<1>2. \A e \in [Index -> Index] : Rearranged(e, e, low, high)
  BY <1>1 DEF Rearranged, Index
<1> HIDE DEF mid
<1>3. Rearranged(input, a, low, high) /\ OneToOne(a)
  BY <1>1, <1>2, SwapRearranges
<1>4. a \in [Index -> Index]
  BY <1>3 DEF Rearranged
<1> HIDE DEF a
<1>5. Rearranged(a, b, low, high) /\ OneToOne(b)
  BY <1>1, <1>2, <1>3, <1>4, SwapRearranges
<1>6. b \in [Index -> Index]
  BY <1>5 DEF Rearranged
<1> HIDE DEF b
<1>7. Rearranged(b, c, low, high) /\ OneToOne(c)
  BY <1>1, <1>2, <1>5, <1>6, SwapRearranges
<1> HIDE DEF c
<1>8. Rearranged(input, c, low, high)
  <2>1. low \in Int /\ high \in Int
    BY <1>1 DEF Index
  <2>2. Rearranged(input, b, low, high)
    BY <1>1, <1>3, <1>5, <2>1, RearrangedTwice
  <2>. QED
    BY <1>1, <1>7, <2>1, <2>2, RearrangedTwice
<1>9. PivotChosen = c
  BY DEF PivotChosen, a, b, c, mid
<1>. QED
  BY <1>7, <1>8, <1>9

\* Rearranging the range of the call at work keeps the order of everything that
\* no call is still to sort.
LEMMA RearrangedKeepsOrder ==
  ASSUME TypeOK, OrderedUnlessPending, RangesDisjoint, at # "done",
         low < high,
         NEW b, Rearranged(input, b, low, high),
         NEW k \in Index, NEW m \in Index, k < m
  PROVE  \/ sizes[b[k]] <= sizes[b[m]]
         \/ low <= k /\ m <= high
         \/ \E s \in 1 .. Len(stack) : stack[s][1] <= k /\ m <= stack[s][2]
<1>1. /\ count \in Nat /\ low \in 0 .. count /\ high \in -1 .. count - 1
      /\ stack \in Seq(Range)
      /\ k \in Int /\ m \in Int
  BY MaxCountAssumption DEF TypeOK, Range, Index
<1>2. \A s \in 1 .. Len(stack) : stack[s][1] \in Int /\ high < stack[s][1]
  <2>1. \A s \in 1 .. Len(stack) : stack[s] \in Range
    BY <1>1
  <2>. QED
    BY <1>1, <2>1 DEF Range, RangesDisjoint
<1>3. \A x \in low .. high : x \in Index
  BY <1>1 DEF Index
<1>4. CASE ~(low <= k /\ k <= high) /\ ~(low <= m /\ m <= high)
  <2>1. b[k] = input[k] /\ b[m] = input[m]
    BY <1>4 DEF Rearranged
  <2>. QED
    BY <2>1 DEF OrderedUnlessPending, Before, SizeAt
<1>5. CASE ~(low <= k /\ k <= high) /\ (low <= m /\ m <= high)
  <2>1. k < low
    BY <1>1, <1>5
  <2>2. b[k] = input[k]
    BY <1>5 DEF Rearranged
  <2>3. PICK x \in low .. high : b[m] = input[x]
    BY <1>1, <1>5 DEF Rearranged
  <2>4. k < x /\ ~(low <= k)
    BY <1>1, <2>1, <2>3
  <2>5. \A s \in 1 .. Len(stack) : ~(stack[s][1] <= k)
    BY <1>1, <1>2, <2>1
  <2>6. SizeAt(k) <= SizeAt(x)
    BY <1>3, <2>4, <2>5 DEF OrderedUnlessPending, Before
  <2>. QED
    BY <2>2, <2>3, <2>6 DEF SizeAt
<1>6. CASE (low <= k /\ k <= high) /\ ~(low <= m /\ m <= high)
  <2>1. high < m
    BY <1>1, <1>6
  <2>2. b[m] = input[m]
    BY <1>6 DEF Rearranged
  <2>3. PICK x \in low .. high : b[k] = input[x]
    BY <1>1, <1>6 DEF Rearranged
  <2>4. x < m /\ ~(m <= high)
    BY <1>1, <2>1, <2>3
  <2>5. \A s \in 1 .. Len(stack) : ~(stack[s][1] <= x)
    BY <1>1, <1>2, <2>3
  <2>6. SizeAt(x) <= SizeAt(m)
    BY <1>3, <2>4, <2>5 DEF OrderedUnlessPending, Before
  <2>. QED
    BY <2>2, <2>3, <2>6 DEF SizeAt
<1>7. CASE (low <= k /\ k <= high) /\ (low <= m /\ m <= high)
  BY <1>7
<1>. QED
  BY <1>4, <1>5, <1>6, <1>7

-----------------------------------------------------------------------------

\* The calls that follow, after one is put in front and after one is taken off.
LEMMA StackFacts ==
  ASSUME NEW st \in Seq(Range), NEW r \in Range
  PROVE  /\ <<r>> \o st \in Seq(Range)
         /\ Len(<<r>> \o st) = Len(st) + 1
         /\ (<<r>> \o st)[1] = r
         /\ \A s \in 1 .. Len(st) : (<<r>> \o st)[s + 1] = st[s]
         /\ st # <<>> =>
              /\ st[1] \in Range
              /\ Tail(st) \in Seq(Range)
              /\ Len(Tail(st)) = Len(st) - 1
              /\ \A s \in 1 .. Len(st) - 1 : Tail(st)[s] = st[s + 1]
<1>1. /\ <<r>> \o st \in Seq(Range)
      /\ Len(<<r>> \o st) = Len(st) + 1
      /\ (<<r>> \o st)[1] = r
      /\ \A s \in 1 .. Len(st) : (<<r>> \o st)[s + 1] = st[s]
  OBVIOUS
<1>2. st # <<>> => /\ st[1] \in Range
                   /\ Tail(st) \in Seq(Range)
                   /\ Len(Tail(st)) = Len(st) - 1
                   /\ \A s \in 1 .. Len(st) - 1 : Tail(st)[s] = st[s + 1]
  OBVIOUS
<1>. QED
  BY <1>1, <1>2

\* Where the indices are while a range is partitioned.
LEMMA InThePartition ==
  ASSUME TypeOK, at \in {"pivot", "up", "down", "place"}
  PROVE  /\ count \in Nat /\ low \in Index /\ high \in Index /\ low < high
         /\ i \in low .. high /\ j \in low .. high - 1 /\ pivotSize \in Int
         /\ \A k \in low .. high : k \in Index /\ SizeAt(k) \in Int
<1>1. /\ count \in Nat /\ low \in 0 .. count /\ high \in -1 .. count - 1
      /\ low < high /\ i \in low .. high /\ j \in low .. high - 1
      /\ pivotSize \in Int
  BY MaxCountAssumption DEF TypeOK, Range
<1>2. \A k \in low .. high : k \in Index
  BY <1>1 DEF Index
<1>3. \A k \in Index : sizes[input[k]] \in Int
  BY FileSizesAssumption DEF TypeOK
<1>. QED
  BY <1>1, <1>2, <1>3 DEF Index, SizeAt

\* A call with nothing to sort returns: no two problems are in its range.
LEMMA ReturnStep ==
  ASSUME IInv, Return
  PROVE  IInv'
<1>1. /\ count \in Nat /\ low \in 0 .. count /\ high \in -1 .. count - 1
      /\ stack \in Seq(Range)
  BY MaxCountAssumption DEF IInv, TypeOK, Range
<1>2. CASE stack = <<>>
  <2>1. TypeOK'
    BY <1>2 DEF IInv, TypeOK, Return, Index, Range, scan
  <2>2. OrderedUnlessPending'
    BY <1>1, <1>2 DEF IInv, OrderedUnlessPending, Return, Index, Before, SizeAt
  <2>3. (Permuted /\ RangesDisjoint /\ Partitioned)'
    BY <1>2 DEF IInv, Permuted, RangesDisjoint, Partitioned, Return, Index
  <2>. QED
    BY <1>2, <2>1, <2>2, <2>3 DEF IInv, Return
<1>3. CASE stack # <<>>
  <2>1. /\ stack[1] \in Range
        /\ stack' \in Seq(Range)
        /\ Len(stack') = Len(stack) - 1
        /\ Len(stack) \in Nat \ {0}
        /\ \A s \in 1 .. Len(stack') : stack'[s] = stack[s + 1]
        /\ low' = stack[1][1] /\ high' = stack[1][2] /\ at' = "call"
    BY <1>1, <1>3, StackFacts DEF Return
  <2>2. TypeOK'
    BY <1>1, <1>3, <2>1 DEF IInv, TypeOK, Return, Index, Range, scan
  <2>3. OrderedUnlessPending'
    <3> SUFFICES ASSUME NEW k \in Index, NEW m \in Index, k < m, ~Before(k, m),
                        ~(low' <= k /\ m <= high')
                 PROVE  \E s \in 1 .. Len(stack') :
                          stack'[s][1] <= k /\ m <= stack'[s][2]
      BY <1>3, <2>1 DEF OrderedUnlessPending, Return, Index, Before, SizeAt
    <3>1. ~(low <= k /\ m <= high)
      BY <1>1 DEF Return, Index
    <3>2. PICK s \in 1 .. Len(stack) : stack[s][1] <= k /\ m <= stack[s][2]
      BY <3>1 DEF IInv, OrderedUnlessPending
    <3>3. s # 1
      BY <2>1, <3>2
    <3>4. s - 1 \in 1 .. Len(stack') /\ stack'[s - 1] = stack[s]
      BY <2>1, <3>2, <3>3
    <3>. QED
      BY <3>2, <3>4
  <2>4. RangesDisjoint'
    <3>1. \A s \in 1 .. Len(stack') : stack'[s][1] = stack[s + 1][1]
                                      /\ stack'[s][2] = stack[s + 1][2]
                                      /\ s + 1 \in 1 .. Len(stack)
      BY <2>1
    <3>2. \A s \in 1 .. Len(stack) :
            \A t \in 1 .. s - 1 : stack[t][2] < stack[s][1]
      BY DEF IInv, RangesDisjoint
    <3>3. \A s \in 1 .. Len(stack') : high' < stack'[s][1]
      BY <2>1, <3>1, <3>2
    <3>4. ASSUME NEW s \in 1 .. Len(stack'), NEW t \in 1 .. s - 1
          PROVE  stack'[t][2] < stack'[s][1]
      <4>1. t \in 1 .. Len(stack') /\ t + 1 \in 1 .. (s + 1) - 1
        BY <2>1
      <4>. QED
        BY <3>1, <3>2, <4>1
    <3>. QED
      BY <3>3, <3>4 DEF RangesDisjoint
  <2>5. (Permuted /\ Partitioned)'
    BY <2>1 DEF IInv, Permuted, Partitioned, Return, Index
  <2>. QED
    BY <2>1, <2>2, <2>3, <2>4, <2>5 DEF IInv
<1>. QED
  BY <1>2, <1>3

\* The three exchanges of pfd_quick_pivot stay inside the range of the call.
LEMMA ChoosePivotStep ==
  ASSUME IInv, ChoosePivot
  PROVE  IInv'
<1>1. /\ count \in Nat /\ low \in Index /\ high \in Index /\ low < high
      /\ at = "call"
  BY MaxCountAssumption DEF IInv, TypeOK, Range, Index, ChoosePivot
<1>2. Rearranged(input, input', low, high) /\ OneToOne(input')
  BY <1>1, PivotChosenRearranges DEF IInv, ChoosePivot
<1>3. input' \in [Index -> Index]
  BY <1>2 DEF Rearranged
<1>4. TypeOK'
  <2>1. pivotSize' \in Int
    BY <1>1, <1>3, FileSizesAssumption DEF IInv, TypeOK, ChoosePivot, Index
  <2>2. Index' = Index /\ Range' = Range
    BY DEF ChoosePivot, Index, Range
  <2>3. i' \in low .. high /\ j' \in low .. high - 1
    BY <1>1 DEF ChoosePivot, Index
  <2>. QED
    BY <1>1, <1>3, <2>1, <2>2, <2>3 DEF IInv, TypeOK, ChoosePivot
<1>5. OrderedUnlessPending'
  <2>1. ASSUME NEW k \in Index, NEW m \in Index, k < m
        PROVE  \/ sizes[input'[k]] <= sizes[input'[m]]
               \/ low <= k /\ m <= high
               \/ \E s \in 1 .. Len(stack) :
                    stack[s][1] <= k /\ m <= stack[s][2]
    BY <1>1, <1>2, <2>1, RearrangedKeepsOrder DEF IInv
  <2>. QED
    BY <2>1 DEF OrderedUnlessPending, ChoosePivot, Index, Before, SizeAt
<1>6. Partitioned'
  <2>1. /\ pivotSize' = SizeAt(high)' /\ high' = high /\ low' = low
        /\ i' = low /\ j' = high - 1 /\ at' = "pivot"
    BY DEF ChoosePivot, SizeAt
  <2>2. pivotSize' \in Int
    BY <1>4 DEF TypeOK
  <2>. QED
    BY <1>1, <2>1, <2>2 DEF Partitioned, Index
<1>7. (Permuted /\ RangesDisjoint /\ at # "done")'
  BY <1>2 DEF IInv, Permuted, OneToOne, RangesDisjoint, ChoosePivot, Index
<1>. QED
  BY <1>4, <1>5, <1>6, <1>7 DEF IInv

\* The loops move the indices inside the range and note what they have passed.
LEMMA ScanStep ==
  ASSUME IInv, EnterLoop \/ ScanUp \/ ScanDown
  PROVE  IInv'
<1> USE DEF IInv
<1>1. /\ at \in {"pivot", "up", "down"}
      /\ count \in Nat /\ low \in Index /\ high \in Index /\ low < high
      /\ i \in low .. high /\ j \in low .. high - 1 /\ pivotSize \in Int
      /\ \A k \in low .. high : SizeAt(k) \in Int
  <2>1. at \in {"pivot", "up", "down"}
    BY DEF EnterLoop, ScanUp, ScanDown
  <2>. QED
    BY <2>1, InThePartition
<1>2. UNCHANGED <<count, sizes, input, low, high, stack, pivotSize>>
  BY DEF EnterLoop, ScanUp, ScanDown, scan
<1>4. at' \in {"up", "down", "place"}
  BY <1>1 DEF EnterLoop, ScanUp, ScanDown
<1>5. i' \in low .. high /\ j' \in low .. high - 1
  BY <1>1 DEF EnterLoop, ScanUp, ScanDown, UpGoesOn, DownGoesOn, scan, Index
<1>6. TypeOK'
  BY <1>1, <1>2, <1>4, <1>5 DEF TypeOK, Index, Range
<1>7. (Permuted /\ RangesDisjoint)'
  BY <1>2 DEF Permuted, RangesDisjoint, Index
<1>8. OrderedUnlessPending'
  BY <1>1, <1>2, <1>4 DEF OrderedUnlessPending, Index, Before, SizeAt
<1>9. Partitioned'
  <2>1. /\ pivotSize' = SizeAt(high)' /\ high' = high /\ low' = low
        /\ \A k : SizeAt(k)' = SizeAt(k)
    BY <1>1, <1>2 DEF Partitioned, SizeAt
  <2>2. /\ \A k \in low .. i - 1 : SizeAt(k) < pivotSize
        /\ \A k \in j + 1 .. high : SizeAt(k) >= pivotSize
        /\ at = "pivot" => i = low /\ j = high - 1
        /\ at = "down" => i = high \/ SizeAt(i) >= pivotSize
    BY <1>1 DEF Partitioned
  <2>3. CASE EnterLoop
    <3>1. i' = i /\ j' = j /\ at = "pivot"
          /\ at' = IF i < j THEN "up" ELSE "place"
      BY <2>3 DEF EnterLoop, scan
    <3>. QED
      BY <1>1, <1>2, <2>1, <2>2, <3>1 DEF Partitioned, Index
  <2>4. CASE ScanUp
    <3>1. CASE UpGoesOn
      <4>1. i' = i + 1 /\ j' = j /\ at' = "up" /\ SizeAt(i) < pivotSize
        BY <2>4, <3>1 DEF ScanUp, UpGoesOn
      <4>. QED
        BY <1>1, <1>2, <2>1, <2>2, <4>1 DEF Partitioned, Index
    <3>2. CASE ~UpGoesOn
      <4>1. i' = i /\ j' = j /\ at' = "down"
        BY <2>4, <3>2 DEF ScanUp
      <4>2. i = high \/ SizeAt(i) >= pivotSize
        BY <1>1, <3>2 DEF UpGoesOn, Index
      <4>. QED
        BY <1>1, <1>2, <2>1, <2>2, <4>1, <4>2 DEF Partitioned, Index
    <3>. QED
      BY <3>1, <3>2
  <2>5. CASE ScanDown
    <3>1. i' = i /\ j' = j - 1 /\ at' = "down" /\ at = "down"
          /\ SizeAt(j) >= pivotSize
      BY <2>5 DEF ScanDown, DownGoesOn
    <3>2. \A k \in (j - 1) + 1 .. high : SizeAt(k) >= pivotSize
      BY <1>1, <2>2, <3>1 DEF Index
    <3>. QED
      BY <1>1, <1>2, <2>1, <2>2, <3>1, <3>2 DEF Partitioned, Index
  <2>. QED
    BY <2>3, <2>4, <2>5
<1>. QED
  BY <1>4, <1>6, <1>7, <1>8, <1>9

\* An exchange puts a small element below and a large one above.
LEMMA ExchangeStep ==
  ASSUME IInv, Exchange
  PROVE  IInv'
<1>1. /\ at = "down"
      /\ count \in Nat /\ low \in Index /\ high \in Index /\ low < high
      /\ i \in low .. high /\ j \in low .. high - 1 /\ pivotSize \in Int
      /\ \A k \in low .. high : k \in Index /\ SizeAt(k) \in Int
  BY InThePartition DEF IInv, Exchange
<1>2. UNCHANGED <<count, sizes, low, high, stack, i, j, pivotSize>>
  BY DEF Exchange, scan
<1>3. /\ pivotSize = SizeAt(high)
      /\ \A k \in low .. i - 1 : SizeAt(k) < pivotSize
      /\ \A k \in j + 1 .. high : SizeAt(k) >= pivotSize
      /\ i = high \/ SizeAt(i) >= pivotSize
  BY <1>1 DEF IInv, Partitioned
<1>4. CASE i < j
  <2>1. /\ at' = "up" /\ input' = Swapped(input, i, j)
        /\ i \in low .. high /\ j \in low .. high
        /\ input \in [Index -> Index]
    <3>1. at' = "up" /\ input' = Swapped(input, i, j)
      BY <1>1, <1>4 DEF Exchange
    <3>2. i \in low .. high /\ j \in low .. high
      BY <1>1 DEF Index
    <3>. QED
      BY <3>1, <3>2 DEF IInv, TypeOK
  <2>2. Rearranged(input, input', low, high) /\ OneToOne(input')
    BY <1>1, <2>1, SwapRearranges DEF IInv, Permuted, OneToOne
  <2>3. TypeOK'
    BY <1>1, <1>2, <2>1, <2>2 DEF IInv, TypeOK, Rearranged, Index, Range
  <2>4. OrderedUnlessPending'
    <3>1. ASSUME NEW k \in Index, NEW m \in Index, k < m
          PROVE  \/ sizes[input'[k]] <= sizes[input'[m]]
                 \/ low <= k /\ m <= high
                 \/ \E s \in 1 .. Len(stack) :
                      stack[s][1] <= k /\ m <= stack[s][2]
      BY <1>1, <2>2, <3>1, RearrangedKeepsOrder DEF IInv
    <3>. QED
      BY <1>2, <2>1, <3>1 DEF OrderedUnlessPending, Index, Before, SizeAt
  <2>5. Partitioned'
    <3>1. \A k \in low .. i - 1 : SizeAt(k)' = SizeAt(k)
      BY <1>1, <1>2, <1>4, <2>1 DEF SizeAt, Swapped, Index
    <3>2. \A k \in j + 1 .. high : SizeAt(k)' = SizeAt(k)
      BY <1>1, <1>2, <1>4, <2>1 DEF SizeAt, Swapped, Index
    <3>3. high \in j + 1 .. high
      BY <1>1 DEF Index
    <3>. QED
      BY <1>1, <1>2, <1>3, <2>1, <3>1, <3>2, <3>3 DEF Partitioned
  <2>6. (Permuted /\ RangesDisjoint)'
    BY <1>2, <2>2 DEF IInv, Permuted, OneToOne, RangesDisjoint, Index
  <2>. QED
    BY <2>1, <2>3, <2>4, <2>5, <2>6 DEF IInv
<1>5. CASE ~(i < j)
  <2>1. at' = "place" /\ input' = input
    BY <1>5 DEF Exchange
  <2>2. TypeOK'
    BY <1>1, <1>2, <2>1 DEF IInv, TypeOK, Index, Range
  <2>3. OrderedUnlessPending'
    BY <1>1, <1>2, <2>1
       DEF IInv, OrderedUnlessPending, Index, Before, SizeAt
  <2>4. \A k : SizeAt(k)' = SizeAt(k)
    BY <1>2, <2>1 DEF SizeAt
  <2>5. Partitioned'
    <3>1. j <= i
      BY <1>1, <1>5 DEF Index
    <3>. QED
      BY <1>2, <1>3, <2>1, <2>4, <3>1 DEF Partitioned
  <2>6. (Permuted /\ RangesDisjoint)'
    BY <1>2, <2>1 DEF IInv, Permuted, RangesDisjoint, Index
  <2>. QED
    BY <2>1, <2>2, <2>3, <2>5, <2>6 DEF IInv
<1>. QED
  BY <1>4, <1>5

\* The pivot is put between the smaller and the larger elements, and each side
\* is a call of its own.
LEMMA PlaceStep ==
  ASSUME IInv, Place
  PROVE  IInv'
<1>1. /\ at = "place"
      /\ count \in Nat /\ low \in Index /\ high \in Index /\ low < high
      /\ i \in low .. high /\ j \in low .. high - 1 /\ pivotSize \in Int
      /\ \A k \in low .. high : k \in Index /\ SizeAt(k) \in Int
  BY InThePartition DEF IInv, Place
<1>2. UNCHANGED <<count, sizes, low, i, j, pivotSize>> /\ high' = i - 1
      /\ at' = "call"
  BY DEF Place, scan
<1>3. /\ pivotSize = SizeAt(high)
      /\ \A k \in low .. i - 1 : SizeAt(k) < pivotSize
      /\ \A k \in j + 1 .. high : SizeAt(k) >= pivotSize
      /\ j <= i /\ (i = low \/ i = high \/ SizeAt(i) >= pivotSize)
  BY <1>1 DEF IInv, Partitioned
<1>4. Rearranged(input, input', low, high) /\ OneToOne(input')
  <2>1. input \in [Index -> Index] /\ OneToOne(input)
        /\ high \in low .. high
    <3>1. high \in low .. high
      BY <1>1 DEF Index
    <3>. QED
      BY <3>1 DEF IInv, TypeOK, Permuted, OneToOne
  <2>2. Rearranged(input, input, low, high)
    BY <1>1, <2>1 DEF Rearranged, Index
  <2>3. input' = PivotPlaced
    BY DEF Place
  <2>. QED
    BY <1>1, <2>1, <2>2, <2>3, SwapRearranges DEF PivotPlaced
<1>5. /\ stack' \in Seq(Range)
      /\ stack \in Seq(Range)
      /\ Len(stack') = Len(stack) + 1 /\ Len(stack) \in Nat
      /\ stack'[1][1] = i + 1 /\ stack'[1][2] = high
      /\ \A s \in 1 .. Len(stack) : stack'[s + 1] = stack[s]
  <2>1. stack \in Seq(Range) /\ <<i + 1, high>> \in Range
    <3>1. i + 1 \in 0 .. count /\ high \in -1 .. count - 1
      BY <1>1 DEF Index
    <3>2. <<i + 1, high>> \in Range
      BY <3>1 DEF Range
    <3>. QED
      BY <3>2 DEF IInv, TypeOK
  <2>2. stack' = <<<<i + 1, high>>>> \o stack
    BY DEF Place
  <2>. QED
    BY <2>1, <2>2, StackFacts
<1>6. \A s \in 1 .. Len(stack) :
        stack[s][1] \in Int /\ stack[s][2] \in Int /\ high < stack[s][1]
  <2>1. \A s \in 1 .. Len(stack) : stack[s] \in Range
    BY <1>5
  <2>. QED
    BY <1>1, <2>1 DEF Range, IInv, RangesDisjoint
<1>7. /\ \A k \in low .. i - 1 : sizes[input'[k]] <= sizes[input'[i]]
      /\ \A k \in i + 1 .. high : sizes[input'[i]] <= sizes[input'[k]]
  <2>1. CASE SizeAt(i) > pivotSize
    <3>1. input' = Swapped(input, i, high) /\ input \in [Index -> Index]
          /\ i \in Index
      BY <1>1, <2>1 DEF Place, PivotPlaced, IInv, TypeOK
    <3>2. \A k \in low .. high :
            sizes[input'[k]] = IF k = high THEN SizeAt(i)
                               ELSE IF k = i THEN SizeAt(high) ELSE SizeAt(k)
      BY <1>1, <3>1 DEF Swapped, SizeAt
    <3>3. i # high
      BY <1>1, <1>3, <2>1
    <3>4. sizes[input'[i]] = pivotSize
      BY <1>1, <1>3, <3>2, <3>3
    <3>5. ASSUME NEW k \in low .. i - 1
          PROVE  sizes[input'[k]] < pivotSize
      <4>1. k \in low .. high /\ k # high /\ k # i
        BY <1>1 DEF Index
      <4>. QED
        BY <1>3, <3>2, <4>1
    <3>6. ASSUME NEW k \in i + 1 .. high
          PROVE  sizes[input'[k]] >= pivotSize
      <4>1. k \in low .. high /\ k # i /\ k \in j + 1 .. high
        BY <1>1, <1>3 DEF Index
      <4>. QED
        BY <1>1, <1>3, <2>1, <3>2, <4>1
    <3>7. \A k \in low .. high : sizes[input'[k]] \in Int
      BY <1>1, <3>2 DEF Index
    <3>. QED
      BY <1>1, <3>4, <3>5, <3>6, <3>7 DEF Index
  <2>2. CASE ~(SizeAt(i) > pivotSize)
    <3>1. input' = input
      BY <2>2 DEF Place, PivotPlaced
    <3>2. \A k \in i + 1 .. high : SizeAt(i) <= SizeAt(k)
      <4>1. SUFFICES ASSUME NEW k \in i + 1 .. high
                     PROVE  SizeAt(i) <= SizeAt(k)
        OBVIOUS
      <4>2. k \in j + 1 .. high /\ k \in low .. high
        BY <1>1, <1>3 DEF Index
      <4>. QED
        BY <1>1, <1>3, <2>2, <4>2
    <3>3. \A k \in low .. i - 1 : SizeAt(k) <= SizeAt(i)
      <4>1. SUFFICES ASSUME NEW k \in low .. i - 1
                     PROVE  SizeAt(k) <= SizeAt(i)
        OBVIOUS
      <4>2. k \in low .. high /\ i # low
        BY <1>1 DEF Index
      <4>3. SizeAt(i) >= pivotSize
        BY <1>1, <1>3, <4>2
      <4>. QED
        BY <1>1, <1>3, <4>2, <4>3
    <3>. QED
      BY <3>1, <3>2, <3>3 DEF SizeAt
  <2>. QED
    BY <2>1, <2>2
<1>8. TypeOK'
  <2>1. Index' = Index /\ Range' = Range
    BY <1>2 DEF Index, Range
  <2>2. <<low', high'>> \in Range
    <3>1. low \in 0 .. count /\ i - 1 \in -1 .. count - 1
      BY <1>1 DEF Index
    <3>. QED
      BY <1>2, <3>1 DEF Range
  <2>. QED
    BY <1>2, <1>4, <1>5, <2>1, <2>2 DEF IInv, TypeOK, Rearranged
<1>9. OrderedUnlessPending'
  <2>1. SUFFICES ASSUME NEW k \in Index, NEW m \in Index, k < m,
                        ~(sizes[input'[k]] <= sizes[input'[m]]),
                        ~(low <= k /\ m <= i - 1)
                 PROVE  \E s \in 1 .. Len(stack') :
                          stack'[s][1] <= k /\ m <= stack'[s][2]
    BY <1>2 DEF OrderedUnlessPending, Index, Before, SizeAt
  <2>2. \/ low <= k /\ m <= high
        \/ \E s \in 1 .. Len(stack) : stack[s][1] <= k /\ m <= stack[s][2]
    BY <1>1, <1>4, <2>1, RearrangedKeepsOrder DEF IInv
  <2>3. CASE low <= k /\ m <= high
    <3>1. k \in Int /\ m \in Int
      BY <1>1 DEF Index
    <3>2. \A x \in low .. high : sizes[input'[x]] \in Int
      BY <1>1, <1>2, <1>8, FileSizesAssumption DEF TypeOK, Index
    <3>3. k # i
      BY <1>1, <1>7, <2>1, <2>3, <3>1 DEF Index
    <3>4. m # i
      BY <1>1, <1>7, <2>1, <2>3, <3>1 DEF Index
    <3>5. ~(k < i /\ i < m)
      <4>1. SUFFICES ASSUME k < i, i < m PROVE FALSE
        OBVIOUS
      <4>2. k \in low .. i - 1 /\ m \in i + 1 .. high
        BY <1>1, <2>3, <3>1, <4>1 DEF Index
      <4>3. /\ sizes[input'[k]] <= sizes[input'[i]]
            /\ sizes[input'[i]] <= sizes[input'[m]]
        BY <1>7, <4>2
      <4>4. k \in low .. high /\ m \in low .. high
        BY <1>1, <4>2 DEF Index
      <4>. QED
        BY <1>1, <2>1, <3>2, <4>3, <4>4
    <3>6. i + 1 <= k
      BY <1>1, <2>1, <2>3, <3>1, <3>3, <3>4, <3>5 DEF Index
    <3>7. 1 \in 1 .. Len(stack')
      BY <1>5
    <3>. QED
      BY <1>5, <2>3, <3>6, <3>7
  <2>4. CASE \E s \in 1 .. Len(stack) : stack[s][1] <= k /\ m <= stack[s][2]
    <3>1. PICK s \in 1 .. Len(stack) : stack[s][1] <= k /\ m <= stack[s][2]
      BY <2>4
    <3>2. s + 1 \in 1 .. Len(stack') /\ stack'[s + 1] = stack[s]
      BY <1>5
    <3>. QED
      BY <3>1, <3>2
  <2>. QED
    BY <2>2, <2>3, <2>4
<1>10. RangesDisjoint'
  <2>1. SUFFICES ASSUME NEW s \in 1 .. Len(stack'), NEW t \in 1 .. s - 1
                 PROVE  high' < stack'[s][1] /\ stack'[t][2] < stack'[s][1]
    <3>1. \A s \in 1 .. Len(stack') : s # 1 => 1 \in 1 .. s - 1
      BY <1>5
    <3>2. high' < stack'[1][1]
      BY <1>1, <1>2, <1>5 DEF Index
    <3>. QED
      BY <3>1, <3>2 DEF RangesDisjoint
  <2>2. /\ s - 1 \in 1 .. Len(stack) /\ stack'[s] = stack[s - 1]
        /\ stack[s - 1][1] \in Int /\ high < stack[s - 1][1]
    <3>1. s - 1 \in 1 .. Len(stack) /\ (s - 1) + 1 = s
      BY <1>5
    <3>. QED
      BY <1>5, <1>6, <3>1
  <2>3. high' < stack'[s][1]
    BY <1>1, <1>2, <2>2 DEF Index
  <2>4. CASE t = 1
    <3>1. stack'[t][2] = high
      BY <1>5, <2>4
    <3>. QED
      BY <2>2, <2>3, <3>1
  <2>5. CASE t # 1
    <3>1. t - 1 \in 1 .. (s - 1) - 1 /\ stack'[t] = stack[t - 1]
      <4>1. t - 1 \in 1 .. Len(stack) /\ (t - 1) + 1 = t
            /\ t - 1 \in 1 .. (s - 1) - 1
        BY <1>5, <2>5
      <4>. QED
        BY <1>5, <4>1
    <3>2. stack[t - 1][2] < stack[s - 1][1]
      <4>1. RangesDisjoint
        BY DEF IInv
      <4>. QED
        BY <2>2, <3>1, <4>1 DEF RangesDisjoint
    <3>. QED
      BY <2>2, <2>3, <3>1, <3>2
  <2>. QED
    BY <2>3, <2>4, <2>5
<1>11. (Permuted /\ Partitioned)'
  BY <1>2, <1>4 DEF Permuted, OneToOne, Partitioned, Index
<1>. QED
  BY <1>2, <1>8, <1>9, <1>10, <1>11 DEF IInv

-----------------------------------------------------------------------------

\* The array is as sort_input_files_by_size fills it, and one call is pending.
LEMMA IInvInit ==
  ASSUME Init
  PROVE  IInv
<1>1. count \in Nat /\ count <= MaxCount
  BY MaxCountAssumption DEF Init
<1>2. /\ input \in [Index -> Index] /\ Permuted
  BY DEF Init, Permuted
<1>3. TypeOK
  BY <1>1, <1>2 DEF Init, TypeOK, Range, Index
<1>4. OrderedUnlessPending
  BY <1>1 DEF Init, OrderedUnlessPending, Index
<1>5. RangesDisjoint /\ Partitioned /\ at # "done"
  BY DEF Init, RangesDisjoint, Partitioned
<1>. QED
  BY <1>2, <1>3, <1>4, <1>5 DEF IInv

\* Every action of the sorting keeps the invariant.
LEMMA IInvStep ==
  ASSUME IInv, [Next]_vars
  PROVE  IInv'
<1>1. CASE UNCHANGED vars
  BY <1>1 DEF vars, scan, IInv, TypeOK, Permuted, OrderedUnlessPending,
              RangesDisjoint, Partitioned, Index, Range, Before, SizeAt
<1>2. CASE Return
  BY <1>2, ReturnStep
<1>3. CASE ChoosePivot
  BY <1>3, ChoosePivotStep
<1>4. CASE EnterLoop \/ ScanUp \/ ScanDown
  BY <1>4, ScanStep
<1>5. CASE Exchange
  BY <1>5, ExchangeStep
<1>6. CASE Place
  BY <1>6, PlaceStep
<1>. QED
  BY <1>1, <1>2, <1>3, <1>4, <1>5, <1>6 DEF Next, Done

\* The invariant holds throughout.
THEOREM Invariance == Spec => []IInv
<1>1. Init => IInv
  BY IInvInit
<1>2. IInv /\ [Next]_vars => IInv'
  BY IInvStep
<1>. QED
  BY <1>1, <1>2, PTL DEF Spec

\* pfd_quick_sort, its pivot and its partition never read or write outside the
\* array, whatever the sizes are.
THEOREM TypeCorrect == Spec => []TypeOK
<1>1. IInv => TypeOK
  BY DEF IInv
<1>. QED
  BY <1>1, Invariance, PTL

\* At any time two problems are in order unless a call is still to sort both.
THEOREM OrderKept == Spec => []OrderedUnlessPending
<1>1. IInv => OrderedUnlessPending
  BY DEF IInv
<1>. QED
  BY <1>1, Invariance, PTL

\* sort_input_files_by_size leaves every problem in the list once and the list in
\* the order of the sizes, for any number of problems and any sizes.
THEOREM SortsCorrectly == Spec => []SortedPermutation
<1>1. IInv => SortedPermutation
  <2>1. SUFFICES ASSUME IInv, at = "done",
                        NEW k \in Index, NEW m \in Index, k < m
                 PROVE  Before(k, m)
    BY DEF SortedPermutation, IInv
  <2>2. Len(stack) = 0
    BY <2>1 DEF IInv
  <2>. QED
    BY <2>1, <2>2 DEF IInv, OrderedUnlessPending
<1>. QED
  BY <1>1, Invariance, PTL
=============================================================================
