----------------------------- MODULE QuickSort -----------------------------
(***************************************************************************)
(* How the list of the problems is sorted by the size of their input:      *)
(* sort_input_files_by_size with pfd_quick_sort, pfd_quick_pivot and       *)
(* pfd_quick_partition of interface/singular_pnet-interface.cpp.           *)
(*                                                                         *)
(* The array input holds the numbers of the problems, sizes the sizes of   *)
(* their files.  A call of pfd_quick_sort sorts the positions low .. high; *)
(* the calls that come after it are on the stack, the next one first.  A   *)
(* step of one of the loops of pfd_quick_partition is an action.           *)
(***************************************************************************)
EXTENDS Integers, Sequences

CONSTANTS
  MaxCount,   \* bound on the number of problems
  FileSizes   \* what a size may be: that of a file, or -1 without one

ASSUME MaxCountAssumption == MaxCount \in Nat
ASSUME FileSizesAssumption == FileSizes \subseteq Int

VARIABLES
  count, sizes,
  input,
  low, high,    \* the arguments of the call at work
  stack,
  at,           \* where it is: "call", "pivot", "up", "down", "place"; "done"
  i, j, pivotSize

scan == <<i, j, pivotSize>>
vars == <<count, sizes, input, low, high, stack, at, scan>>

Index == 0 .. count - 1

SizeAt(k) == sizes[input[k]]

\* pfd_swap
Swapped(a, x, y) == [a EXCEPT ![x] = a[y], ![y] = a[x]]

Lower(a, x, y) == sizes[a[x]] < sizes[a[y]]

\* Mutation: the pivot is copied to the end, not exchanged.
PivotChosenByCopy ==
  [input EXCEPT ![high] = input[(low + high) \div 2]]

\* pfd_quick_pivot: the three exchanges, each on the outcome of the one before.
PivotChosen ==
  LET mid == (low + high) \div 2
      a == IF Lower(input, mid, low) THEN Swapped(input, low, mid) ELSE input
      b == IF Lower(a, high, low) THEN Swapped(a, low, high) ELSE a
  IN  IF Lower(b, mid, high) THEN Swapped(b, low, high) ELSE b

\* Mutation: the scan from below does not stop at high.
UpGoesOnUnbounded == SizeAt(i) <= pivotSize

\* The condition of the first inner loop.
UpGoesOn == i < high /\ SizeAt(i) < pivotSize

\* Mutation: elements as large as the pivot stop the scan from above, too.
DownGoesOnAbove == j > low /\ SizeAt(j) > pivotSize

\* The condition of the second inner loop.
DownGoesOn == j > low /\ SizeAt(j) >= pivotSize

\* Mutation: the pivot is left at the end.
PivotLeft == input

\* The last exchange of pfd_quick_partition.
PivotPlaced == IF SizeAt(i) > pivotSize THEN Swapped(input, i, high) ELSE input

-----------------------------------------------------------------------------

\* sort_input_files_by_size calls pfd_quick_sort on the whole array.
Init ==
  /\ count \in 0 .. MaxCount
  /\ sizes \in [Index -> FileSizes]
  /\ input = [k \in Index |-> k]
  /\ low = 0 /\ high = count - 1
  /\ stack = <<>>
  /\ at = "call"
  /\ i = 0 /\ j = 0 /\ pivotSize = 0

\* pfd_quick_sort with nothing to sort returns to the next call.
Return ==
  /\ at = "call"
  /\ low >= high
  /\ IF stack = <<>>
       THEN at' = "done" /\ UNCHANGED <<low, high, stack>>
       ELSE /\ low' = stack[1][1] /\ high' = stack[1][2]
            /\ stack' = Tail(stack)
            /\ UNCHANGED at
  /\ UNCHANGED <<count, sizes, input, scan>>

\* pfd_quick_partition up to its loop.
ChoosePivot ==
  /\ at = "call"
  /\ low < high
  /\ input' = PivotChosen
  /\ pivotSize' = sizes[input'[high]]
  /\ i' = low
  /\ j' = high - 1
  /\ at' = "pivot"
  /\ UNCHANGED <<count, sizes, low, high, stack>>

\* The condition of its loop, met or not.
EnterLoop ==
  /\ at = "pivot"
  /\ at' = IF i < j THEN "up" ELSE "place"
  /\ UNCHANGED <<count, sizes, input, low, high, stack, scan>>

\* The first inner loop.
ScanUp ==
  /\ at = "up"
  /\ IF UpGoesOn THEN i' = i + 1 /\ UNCHANGED at
                 ELSE at' = "down" /\ UNCHANGED i
  /\ UNCHANGED <<count, sizes, input, low, high, stack, j, pivotSize>>

\* The second inner loop.
ScanDown ==
  /\ at = "down"
  /\ DownGoesOn
  /\ j' = j - 1
  /\ UNCHANGED <<count, sizes, input, low, high, stack, at, i, pivotSize>>

\* After it: the exchange, which leaves i < j, or the end of the outer loop.
Exchange ==
  /\ at = "down"
  /\ ~DownGoesOn
  /\ IF i < j THEN input' = Swapped(input, i, j) /\ at' = "up"
              ELSE at' = "place" /\ UNCHANGED input
  /\ UNCHANGED <<count, sizes, low, high, stack, scan>>

\* The end of pfd_quick_partition, and the two calls on what is left and right
\* of the pivot.
Place ==
  /\ at = "place"
  /\ input' = PivotPlaced
  /\ high' = i - 1
  /\ stack' = <<<<i + 1, high>>>> \o stack
  /\ at' = "call"
  /\ UNCHANGED <<count, sizes, low, scan>>

Done == at = "done" /\ UNCHANGED vars

Next ==
  \/ Return
  \/ ChoosePivot
  \/ EnterLoop
  \/ ScanUp
  \/ ScanDown
  \/ Exchange
  \/ Place
  \/ Done

Spec == Init /\ [][Next]_vars /\ WF_vars(Next)

-----------------------------------------------------------------------------

Range == (0 .. count) \X (-1 .. count - 1)

\* The indices stay inside the array wherever it is read.
TypeOK ==
  /\ count \in 0 .. MaxCount
  /\ sizes \in [Index -> FileSizes]
  /\ input \in [Index -> Index]
  /\ <<low, high>> \in Range
  /\ stack \in Seq(Range)
  /\ at \in {"call", "pivot", "up", "down", "place", "done"}
  /\ at \in {"pivot", "up", "down", "place"} =>
       low < high /\ i \in low .. high /\ j \in low .. high - 1
  /\ pivotSize \in Int

\* No problem gets lost or doubled.
Permuted == \A k, m \in Index : k # m => input[k] # input[m]

Before(k, m) == SizeAt(k) <= SizeAt(m)

\* Every call leaves what is outside its range alone and in order: two problems
\* are in order unless they are both in the range of a call that has not
\* returned.
OrderedUnlessPending ==
  \A k, m \in Index :
    k < m => \/ Before(k, m)
             \/ at # "done" /\ low <= k /\ m <= high
             \/ \E s \in 1 .. Len(stack) : stack[s][1] <= k /\ m <= stack[s][2]

\* The ranges of the calls that have not returned lie one after the other.
RangesDisjoint ==
  \A s \in 1 .. Len(stack) :
    /\ high < stack[s][1]
    /\ \A t \in 1 .. s - 1 : stack[t][2] < stack[s][1]

\* What the scans have passed is on the right side of the pivot.
Partitioned ==
  at \in {"pivot", "up", "down", "place"} =>
    /\ pivotSize = SizeAt(high)
    /\ \A k \in low .. i - 1 : SizeAt(k) < pivotSize
    /\ \A k \in j + 1 .. high : SizeAt(k) >= pivotSize
    /\ at = "pivot" => i = low /\ j = high - 1
    /\ at = "down" => i = high \/ SizeAt(i) >= pivotSize
    /\ at = "place" =>
         j <= i /\ (i = low \/ i = high \/ SizeAt(i) >= pivotSize)

\* The inductive invariant that carries the proofs.
IInv ==
  /\ TypeOK
  /\ Permuted
  /\ OrderedUnlessPending
  /\ RangesDisjoint
  /\ Partitioned
  /\ at = "done" => stack = <<>>

\* When the sorting is done the list holds every problem once, in the order of
\* the sizes: this is the list that the shares are taken from.
SortedPermutation ==
  at = "done" => Permuted /\ \A k, m \in Index : k < m => Before(k, m)

\* The sorting comes to an end, equal sizes or not.
Terminates == <>(at = "done")

\* "make sure the "median of three" is in position of high", says
\* pfd_quick_pivot.
PivotIsMedian ==
  (at = "pivot" /\ high - low > 1) =>
    LET mid == (low + high) \div 2
    IN  (Before(low, high) /\ Before(high, mid))
          \/ (Before(mid, high) /\ Before(high, low))
=============================================================================
