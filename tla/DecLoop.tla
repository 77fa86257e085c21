------------------------------ MODULE DecLoop ------------------------------
(***************************************************************************)
(* What happens to the terms of two chunks in one decomposition step:      *)
(* generic_dec_loop of singular/pfd.lib decomposes the terms of a chunk    *)
(* until none is left to decompose, once for each chunk, and               *)
(* pfd_fork_merge_pair (singular/pfd_singular_interface.lib.in) adds the   *)
(* two results.  ForkComputeStep has the order of all this for any number  *)
(* of chunks; here the lists have content.                                 *)
(*                                                                         *)
(* Numerators and factors are integers instead of polynomials, and a prime *)
(* stands for a point: factors have a common zero there when it divides    *)
(* all of them.  Integers have what NSSdecompStep, shortNumeratorDecomp-   *)
(* Step and numeratorDecompStep need: a basis of the ideal of some factors *)
(* with its coefficients, a certificate 1 = t1*q1 + ... + tm*qm when they  *)
(* have no common zero and none otherwise, and division with remainder by  *)
(* the basis.  algDependDecompStep, which needs variables, is left out;    *)
(* its loop is NSSdecompStep's.                                            *)
(***************************************************************************)
EXTENDS MergePfd

CONSTANTS
  Q,            \* the factors, ideal q in the code
  MaxExp,       \* bound on the exponents
  MaxDegree,    \* bound on their sum in the terms of the input
  Numerators,   \* what the numerator of a term of the input may be
  MaxTerms      \* bound on the number of terms of the input

Divides(n, x) == x % n = 0

ASSUME FactorsAssumption == Q \in Seq(Nat \ {0, 1})
ASSUME MaxExpAssumption == MaxExp \in Nat \ {0}
ASSUME MaxDegreeAssumption == MaxDegree \in Nat
ASSUME NumeratorsAssumption == Numerators \subseteq Int \ {0}
ASSUME MaxTermsAssumption == MaxTerms \in Nat

VARIABLES
  given,      \* the terms of the step, as they are in the from file
  step,       \* the procedure that decomposes a term
  terms, newterms, dec,   \* as in generic_dec_loop
  at,         \* its i
  results,    \* the decomposed terms of the chunks, in the order of the chunks
  phase       \* "loop", "merge", "done" or "failed"

vars == <<given, step, terms, newterms, dec, at, results, phase>>

Lists(S, m) == UNION {[1 .. n -> S] : n \in 0 .. m}

\* The denominators of the input.
Denominators ==
  {d \in [ind : Lists(DOMAIN Q, Len(Q)), exp : Lists(1 .. MaxExp, Len(Q))] :
     /\ Len(d.ind) = Len(d.exp)
     /\ \A i, k \in DOMAIN d.ind : i < k => d.ind[i] < d.ind[k]
     /\ Total[d.exp] <= MaxDegree}

InOrder(list) ==
  \A i, k \in 1 .. Len(list) : i < k => IsDpSmaller(list[i].den, list[k].den)

\* The list of a step that follows another, as the merge has left it.
StepInput ==
  {list \in Lists([num : Numerators, den : Denominators], MaxTerms) :
     Len(list) >= 2 /\ InOrder(list)}

\* pfd_split_terms for two chunks.
ChunkOf(list, c) ==
  [i \in 1 .. (Len(list) + 2 - c) \div 2 |-> list[2 * (i - 1) + c]]

-----------------------------------------------------------------------------

Product[s \in Seq(Int)] ==
  LET upto[i \in 0 .. Len(s)] == IF i = 0 THEN 1 ELSE upto[i - 1] * s[i]
  IN  upto[Len(s)]

Power(x, n) == Product[[i \in 1 .. n |-> x]]

\* The factors of a denominator, without and with their powers.
FactorsOf(d) == [i \in 1 .. Len(d.ind) |-> Q[d.ind[i]]]

PowersOf(d) == [i \in 1 .. Len(d.ind) |-> Power(Q[d.ind[i]], d.exp[i])]

Gcd(x, y) == Max({n \in 1 .. y : Divides(n, x) /\ Divides(n, y)})

Basis == [g : Nat, t : Seq(Int)]

\* The basis of an ideal and one more number.
WithNumber[p \in Basis \X (Nat \ {0})] ==
  LET h == p[1]
      q == p[2]
      g == Gcd(h.g, q)
      coefficient[d \in Nat] == CHOOSE x \in 0 .. q - 1 : (x * h.g) % q = d % q
      x == coefficient[g]
  IN  [g |-> g,
       t |-> Append([i \in 1 .. Len(h.t) |-> x * h.t[i]], (g - x * h.g) \div q)]

\* liftstd: the basis g of the ideal of qs, and coefficients t1, ..., tm with
\* t1*q1 + ... + tm*qm = g.
Liftstd[qs \in Seq(Nat \ {0})] ==
  LET upto[n \in 0 .. Len(qs)] ==
        IF n = 0 THEN [g |-> 0, t |-> <<>>] ELSE WithNumber[<<upto[n - 1], qs[n]>>]
  IN  upto[Len(qs)]

\* Only coefficients that are not 0 make a term.
Nonzero[list \in Seq(Entry)] ==
  LET upto[i \in 0 .. Len(list)] ==
        IF i = 0 THEN <<>>
        ELSE IF list[i].num = 0 THEN upto[i - 1] ELSE Append(upto[i - 1], list[i])
  IN  upto[Len(list)]

\* A denominator without its factor number i, and with one power less of it.
Without(d, i) == [ind |-> RemoveAt(d.ind, i), exp |-> RemoveAt(d.exp, i)]

Lowered(d, i) ==
  IF d.exp[i] = 1 THEN Without(d, i) ELSE [d EXCEPT !.exp[i] = @ - 1]

\* NSSdecompStep: a Nullstellensatz certificate of the powers, if there is one.
\* No factors at all have none: their ideal is 0.
NSSdecompStep(l) ==
  LET std == Liftstd[PowersOf(l.den)]
      split[t \in Seq(Int)] ==
        Nonzero[[i \in 1 .. Len(t) |-> [num |-> l.num * t[i], den |-> Without(l.den, i)]]]
  IN  IF std.g = 1 THEN split[std.t] ELSE <<l>>

\* Mutation: the division is by the first factor, not by the basis of the ideal.
RemainderByFirst(l) == l.num % Q[l.den.ind[1]]

\* The remainder of a numerator in the division by the basis of the factors.
Remainder(l) == l.num % Liftstd[FactorsOf(l.den)].g

\* The numerator but for its remainder, spread over the factors.  That the code
\* reduces the coefficients by the syzygies makes them smaller, not different in sum.
Spread(l) ==
  LET std == Liftstd[FactorsOf(l.den)]
      spread[p \in Int \X Seq(Int)] ==
        Nonzero[[i \in 1 .. Len(p[2]) |-> [num |-> p[1] * p[2][i], den |-> Lowered(l.den, i)]]]
  IN  spread[<<(l.num - Remainder(l)) \div std.g, std.t>>]

\* shortNumeratorDecompStep: the terms to decompose again and those that are done.
shortNumeratorDecompStep(l) ==
  IF l.den.ind = <<>> \/ Remainder(l) # 0 THEN [again |-> <<>>, rest |-> <<l>>]
  ELSE [again |-> Spread(l), rest |-> <<>>]

\* numeratorDecompStep: the remainder stays.
numeratorDecompStep(l) ==
  IF l.den.ind = <<>> THEN [again |-> <<>>, rest |-> <<l>>]
  ELSE [again |-> Spread(l),
        rest |-> Nonzero[<<[l EXCEPT !.num = Remainder(l)]>>]]

Steps == {"NSSdecompStep", "shortNumeratorDecompStep", "numeratorDecompStep"}

LoopStrat == IF step = "NSSdecompStep" THEN "size" ELSE "index"

\* Mutation: any list is taken for a decomposition.
AnyList(result) == Len(result) > 0

\* general_merge_step for "size": a list of one term is the term that went in.
WasDecomposed(result) == Len(result) > 1

\* Mutation: what has been decomposed before is forgotten.
LosesFinished(list) == list

\* general_merge_step: the terms that are done join dec.
JoinsFinished(list) == MergePfd(dec, list)

-----------------------------------------------------------------------------

Init ==
  /\ given \in StepInput
  /\ step \in Steps
  /\ terms = ChunkOf(given, 1)
  /\ newterms = <<>> /\ dec = <<>> /\ results = <<>>
  /\ at = 1
  /\ phase = "loop"

\* One turn of the for loop with general_merge_step for "size".
MergeBySize ==
  /\ phase = "loop" /\ LoopStrat = "size"
  /\ at <= Len(terms)
  /\ LET result == NSSdecompStep(terms[at])
     IN  IF WasDecomposed(result)
           THEN newterms' = MergePfd(newterms, result) /\ UNCHANGED dec
           ELSE dec' = JoinsFinished(result) /\ UNCHANGED newterms
  /\ at' = at + 1
  /\ UNCHANGED <<given, step, terms, results, phase>>

\* One turn with general_merge_step for "index".
MergeByIndex ==
  /\ phase = "loop" /\ LoopStrat = "index"
  /\ at <= Len(terms)
  /\ LET result == IF step = "numeratorDecompStep"
                     THEN numeratorDecompStep(terms[at])
                     ELSE shortNumeratorDecompStep(terms[at])
     IN  /\ newterms' = MergePfd(newterms, result.again)
         /\ dec' = JoinsFinished(result.rest)
  /\ at' = at + 1
  /\ UNCHANGED <<given, step, terms, results, phase>>

\* The next turn of the while loop.
NextPass ==
  /\ phase = "loop"
  /\ at > Len(terms)
  /\ newterms # <<>>
  /\ terms' = newterms
  /\ newterms' = <<>>
  /\ at' = 1
  /\ UNCHANGED <<given, step, dec, results, phase>>

\* generic_dec_loop returns; pfd_fork_compute_term writes the result.
EndLoop ==
  /\ phase = "loop"
  /\ at > Len(terms)
  /\ newterms = <<>>
  /\ results' = Append(results, dec)
  /\ dec' = <<>>
  /\ at' = 1
  /\ IF results = <<>>
       THEN terms' = ChunkOf(given, 2) /\ UNCHANGED phase
       ELSE terms' = <<>> /\ phase' = "merge"
  /\ UNCHANGED <<given, step, newterms>>

\* pfd_fork_merge_pair.
MergePair ==
  /\ phase = "merge"
  /\ LET merged == MergePfdSorted(results[1], results[2])
     IN  IF merged = <<>>
           THEN phase' = "failed" /\ UNCHANGED results
           ELSE phase' = "done" /\ results' = <<merged>>
  /\ UNCHANGED <<given, step, terms, newterms, dec, at>>

Stopped == phase \in {"done", "failed"} /\ UNCHANGED vars

Next ==
  \/ MergeBySize
  \/ MergeByIndex
  \/ NextPass
  \/ EndLoop
  \/ MergePair
  \/ Stopped

Spec == Init /\ [][Next]_vars /\ WF_vars(Next)

-----------------------------------------------------------------------------

\* The exponent of factor k, 0 for a factor that is not in the denominator.
ExpOf(d, k) ==
  IF \E i \in DOMAIN d.ind : d.ind[i] = k
    THEN d.exp[CHOOSE i \in DOMAIN d.ind : d.ind[i] = k] ELSE 0

\* What a fraction is to be multiplied with to have the denominator in which
\* every factor has the exponent MaxExp.
Weight ==
  [d \in Denominators |->
     Product[[k \in 1 .. Len(Q) |-> Power(Q[k], MaxExp - ExpOf(d, k))]]]

\* What a list of terms adds up to, in terms of that denominator.
Worth(list) ==
  Total[[i \in 1 .. Len(list) |-> list[i].num * Weight[list[i].den]]]

\* Terms that the loops have not come to yet.
Waiting ==
  SubSeq(terms, at, Len(terms))
    \o (IF phase = "loop" /\ results = <<>> THEN ChunkOf(given, 2) ELSE <<>>)

Finished == dec \o FlattenSeq(results)

\* At any time the terms still to be decomposed, those found in this pass and
\* those that are done add up to the terms the step was given: whatever
\* mergepfd and mergepfd_sorted add or delete, no pass and no merge changes the
\* value of the fraction.
SumKept == Worth(Waiting \o newterms \o Finished) = Worth(given)

\* The lists that mergepfd and mergepfd_sorted take for sorted are sorted, with
\* every denominator at most once and no numerator 0, although what is inserted
\* comes in the order in which the decomposition finds it.
ListsNormal ==
  \A list \in {newterms, dec} \cup {results[i] : i \in 1 .. Len(results)} :
    InOrder(list) /\ \A i \in 1 .. Len(list) : list[i].num # 0

\* Whether the factors of a denominator have a common zero.
HaveCommonZero(d) ==
  d.ind = <<>> \/ \E z \in 2 .. Q[d.ind[1]] : \A k \in DOMAIN d.ind : Divides(z, Q[d.ind[k]])

\* No denominator that the loops have put aside as done can be split further:
\* its factors have a common zero, so that no certificate of them or of their
\* powers exists, whatever other terms have been added to it since.  And the
\* merge fails only when the terms of the step add up to 0.
ResultsDecomposed ==
  /\ \A i \in 1 .. Len(Finished) : HaveCommonZero(Finished[i].den)
  /\ phase = "failed" => Worth(given) = 0

\* The while loop ends: every pass lowers the denominators it does not put aside.
Terminates == <>(phase \in {"done", "failed"})
=============================================================================
