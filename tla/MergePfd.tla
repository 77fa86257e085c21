------------------------------ MODULE MergePfd ------------------------------
(***************************************************************************)
(* How lists of fractions are added (singular/pfd.lib): is_dp_smaller,     *)
(* mergepfd and mergepfd_sorted.                                           *)
(*                                                                         *)
(* A term is a numerator over a denominator.  A denominator is a sequence  *)
(* of the indices of its factors, in ascending order, and one of their     *)
(* exponents, both empty for the denominator 1.  A numerator is a          *)
(* polynomial in the code and an integer here: all that these procedures   *)
(* do with it is to add it to another and to compare the sum with 0.       *)
(***************************************************************************)
EXTENDS Integers, SequencesExt

Entry == [num : Int, den : [ind : Seq(Nat), exp : Seq(Nat)]]

\* sum of an intvec.
Total[e \in Seq(Int)] ==
  LET sum[i \in 0 .. Len(e)] == IF i = 0 THEN 0 ELSE sum[i - 1] + e[i]
  IN  sum[Len(e)]

Smaller2(x, y) == IF x <= y THEN x ELSE y

\* The comparison of the sums of the exponents.
LowerDegree(d, e) == Total[d.exp] < Total[e.exp]

\* is_dp_smaller: by total degree, then from the last factor on, where a larger
\* index and then a larger exponent come first.
IsDpSmaller(d, e) ==
  LET FromEnd(s, i) == s[Len(s) - i]
      common == 0 .. Smaller2(Len(d.ind), Len(e.ind)) - 1
      SameAt(i) == /\ FromEnd(d.ind, i) = FromEnd(e.ind, i)
                   /\ FromEnd(d.exp, i) = FromEnd(e.exp, i)
      FirstAt(i) == \/ FromEnd(d.ind, i) > FromEnd(e.ind, i)
                    \/ /\ FromEnd(d.ind, i) = FromEnd(e.ind, i)
                       /\ FromEnd(d.exp, i) > FromEnd(e.exp, i)
  IN  /\ e.exp # <<>>
      /\ \/ d.exp = <<>>
         \/ LowerDegree(d, e)
         \/ /\ ~LowerDegree(e, d)
            /\ \E i \in common :
                 FirstAt(i) /\ \A k \in 0 .. i - 1 : SameAt(k)

\* Mutation: a sum of 0 stays in the list.
SumKeptAtZero(list, a, entry) ==
  ReplaceAt(list, a, [list[a] EXCEPT !.num = @ + entry.num])

\* mergepfd, for an entry whose denominator is that of entry a of the list: the
\* numerators are added, and a sum of 0 is deleted.
AddedAt(list, a, entry) ==
  IF list[a].num + entry.num = 0 THEN RemoveAt(list, a)
  ELSE ReplaceAt(list, a, [list[a] EXCEPT !.num = @ + entry.num])

\* The binary search of mergepfd: the first entry that is not smaller, or the
\* last one.  A turn that finds a and b equal does nothing, so as many turns as
\* there are entries are enough.
SearchPlace(list, entry) ==
  LET halved[r \in [a : Nat, b : Nat]] ==
        LET m == (r.a + r.b) \div 2
        IN  IF r.b <= r.a THEN r
            ELSE IF IsDpSmaller(list[m].den, entry.den) THEN [r EXCEPT !.a = m + 1]
            ELSE [r EXCEPT !.b = m]
      range[k \in 0 .. Len(list)] ==
        IF k = 0 THEN [a |-> 1, b |-> Len(list)] ELSE halved[range[k - 1]]
  IN  range[Len(list)].a

\* One turn of the loop of mergepfd, for a list and an entry.
InsertTerm[p \in Seq(Entry) \X Entry] ==
  LET list == p[1]
      entry == p[2]
      a == SearchPlace(list, entry)
  IN  IF list = <<>> THEN <<entry>>
      ELSE IF IsDpSmaller(list[a].den, entry.den) THEN InsertAt(list, a + 1, entry)
      ELSE IF list[a].den = entry.den THEN AddedAt(list, a, entry)
      ELSE InsertAt(list, a, entry)

\* mergepfd(dec1, dec2): dec1 is to be sorted, dec2 need not be.
MergePfd(dec1, dec2) ==
  LET upto[i \in 0 .. Len(dec2)] ==
        IF i = 0 THEN dec1 ELSE InsertTerm[<<upto[i - 1], dec2[i]>>]
  IN  upto[Len(dec2)]

\* Mutation: of two terms with the same denominator the right one is taken.
RightOnTie(x, y) == <<y>>

\* mergepfd_sorted, for two terms with the same denominator.
SumOfTwo(x, y) ==
  IF x.num + y.num = 0 THEN <<>> ELSE <<[x EXCEPT !.num = @ + y.num]>>

\* mergepfd_sorted(dec1, dec2): both are to be sorted.  Turns that are left when
\* both lists have come to their ends do nothing.
MergePfdSorted(dec1, dec2) ==
  LET n1 == Len(dec1)
      n2 == Len(dec2)
      turn[s \in [i1 : Nat, i2 : Nat, merged : Seq(Entry)]] ==
        LET x == dec1[s.i1]
            y == dec2[s.i2]
            Take(list, k1, k2) ==
              [i1 |-> s.i1 + k1, i2 |-> s.i2 + k2, merged |-> s.merged \o list]
        IN  IF s.i1 > n1
              THEN IF s.i2 > n2 THEN s ELSE Take(<<y>>, 0, 1)
            ELSE IF s.i2 > n2 \/ IsDpSmaller(x.den, y.den) THEN Take(<<x>>, 1, 0)
            ELSE IF x.den = y.den THEN Take(SumOfTwo(x, y), 1, 1)
            ELSE Take(<<y>>, 0, 1)
      turns[k \in 0 .. n1 + n2] ==
        IF k = 0 THEN [i1 |-> 1, i2 |-> 1, merged |-> <<>>] ELSE turn[turns[k - 1]]
  IN  turns[n1 + n2].merged
=============================================================================
