# Verification of pfd-parallel

TLA+ modules, TLC runs and TLAPS proofs about the parallel partial fraction
decomposition of this repository: a client library for Singular that hands a
list of rational functions to a GPI-Space workflow (a Petri net), whose
transitions call C++ handlers, which call procedures in Singular.

Paths below are relative to the repository's root.

## The system

| part | code | state | operations |
|---|---|---|---|
| client driver | `singular/pfd_gspc.lib.in`, `src/bin/SINGULAR-parallel-module.cpp`, `src/installation.cpp`, struct files of `interface/singular_functions.cpp` | files `i<k>_temp`, `i<k>`, `o<k>` in tempdir, named by the position of a task in its call | `parallel_pfd`, `custom_pfd`, `pfd_waitall`, `pfd_fullyparallel`, `sggspc_pfd` |
| workflow over all problems | `workflow/parallel_allpfd.xpnet` | places with the shares, the list, the tasks, the count | initialize, p/s_extract, done_extract, p/s_compute, collect, finish |
| one problem | `workflow/pfd_compute.xpnet`, `workflow/pfd_serial_compute_pfd.xpnet` | the problem's token; `input_<id>`, `terms_<k>_<id>`, time files; result files | prepare, pass on, four steps, hand forward, write result; serial computation |
| one step of a problem | `workflow/pfd_fork_compute_step.xpnet` | chunk tokens on places, counter, turn; chunk, result and time files | check_skip, skip_step, split_init, fork_compute, populate_left/right, merge_decomposed, hand_merged_back, finish_step |
| handlers | `interface/singular_pnet-interface.cpp`, `interface/pnet_logging.cpp`, `singular/pfd_singular_interface.lib.in` | files in tempdir and in the output directory | one per transition |
| algorithms | `singular/pfd.lib` | none (pure) | decomposition steps, merging of sorted lists, input checks, text output |
| parser of Mathematica input | `python/` | none | used before a run |

The client writes one input file per problem and starts the net with one
options token. `initialize` sets the two shares and the list of problems,
sorted by input size. `p_extract` and `s_extract` take problems from the end of
the list; a parallel problem runs through a net of its own whose four inlined
steps split the terms into chunks, decompose them on any number of workers,
and merge the results pairwise; a serial problem is one call. `collect` counts
results down and `finish` ends the net. Nothing but tokens and files is shared:
a handler reads the files that an earlier handler has written, and throws when
one is not there, which ends the whole net. The files outlive a crash.

What is hard here: the order in which chunks come back, are paired and merged
(`ForkComputeStep`); the end of a step and the end of the net, which are
inferred from counters (`ForkComputeStep`, `ParallelAllPfd`); the arithmetic of
the share (`ParallelShare`); and files that a call cut off, failed or about
other entries has left for the next one (`PfdCompute` for those of a problem,
`PfdCall` for those between client and workers). `PROJECT.json` lists the hazards one by one at their lines.

## Modules

* `ForkComputeStep` - one decomposition step. A place is a set of chunk
  numbers; a long-running transition is a Begin action that takes its tokens and
  an End action that puts the result, so that any number overlap. A file's
  content is the set of terms, or of chunks, that it accounts for, and the
  empty set is a file that is not there.
  `PairwiseReduction` is what a step promises: a partition of the terms whose
  blocks are joined two at a time. `ForkComputeStepProofs` holds the proofs about
  a step, that it implements `PairwiseReduction` among them.
* `ParallelShare` - from `options.percentage` to the two counts of `initialize`.
  A positive binary32 value is a mantissa of 24 bits over a power of two, with
  round-to-nearest-even at the division and at the product and truncation at the
  conversion to an unsigned int. `ParallelShareProofs` holds the proofs about this
  arithmetic, `MCParallelShareProofs` those of the properties that the run checks.
* `ParallelAllPfd` - the net over all problems, using the shares above.
  `TaskFarm` is what it promises: every output is written once, then the run is
  reported. A problem's own computation is one overlapping Begin/End pair.
  `ParallelAllPfdProofs` holds the proofs.
* `PfdCompute` - one problem over any number of calls, parallel or serial, each
  of which may be cut off anywhere. Contents of files are sets of marks ("old",
  "new", time measurements) that are carried along when a file is read, so a
  property can say what has gone into the result. A step is three actions here:
  what ForkComputeStep does between them does not touch the other files.
  `PfdComputeProofs` holds the proofs.
* `PfdCall` - calls of `parallel_pfd` one after the other: what the client does
  from its arguments to the answer, with every way in which it gives up, and what
  the workers do to the files it shares with them. An action of the client is one
  file operation or one check that may end the call; the loop variables of
  `write_in_structs_to_file` and `sggspc_pfd` are `pos`. A worker's computation of
  a problem is three actions: it reads its input and looks for a result, it
  stores the result, it writes the output file. The net in between is the
  abstract `TaskFarm`, instantiated with the call's tasks: ending a task is its
  `Write`, a failing one its `Abort`, and so on. `ResumableCall` is what calls
  promise the user: no result is lost, an answer means that all are there, a
  rejection has a reason, and a call that is not cut off ends.
  `PfdCallProofs` holds the proofs.
* `QuickSort` - how the list of problems is sorted, loop step by loop step: the
  array, the stack of calls and the two scanning indices. It is the program
  behind "sorted" in `ParallelAllPfd`. `QuickSortProofs` holds the proofs.
* `MergePfd` - `is_dp_smaller`, `mergepfd` and `mergepfd_sorted` as operators on
  lists of terms. `DecLoop` - `generic_dec_loop` with `general_merge_step` for
  two chunks, and `pfd_fork_merge_pair` on the two results, with three of the
  four step procedures. A numerator is an integer and a factor a number greater
  than 1 in place of polynomials, and a prime stands for a point: factors have a
  common zero there when it divides all of them. `Liftstd` is Singular's
  `liftstd`, a basis of the ideal of some factors and its coefficients. As in the
  code, a certificate exists when the factors have no common zero
  (`HaveCommonZero`); when they have one, `NSSdecompStep` returns the term with
  all its factors, and the numerator steps may find a remainder by the basis and
  put it aside with all factors. So what a result promises is not a number of
  factors but that those of each denominator have a common zero. What integers
  lose: every basis is one number here, where an ideal of polynomials may need
  several; and remainders of polynomials add up to remainders (1/2 + 1/2
  carries), so no property says that numerators of a result are reduced.
  `DecLoopProofs` holds the proofs about both.
* `MC...` modules hold the values that a `.cfg` cannot write.

Modules relate as the code does: `ParallelAllPfd` starts `PfdCompute` or a
serial call per problem, and `PfdCompute` goes through `ForkComputeStep` for
each active step. They are checked separately, each for what it can get wrong;
what one assumes of the next is what the next one's properties say
(`OutComplete` and `FailsOnlyByCancelling` for a step, `AnswersUnlessCutOff`
for a problem). `PfdCall` is composed with the net by its abstraction: it takes
the steps of `TaskFarm`, and `ParallelAllPfd` is proved to implement `TaskFarm`
(`NetImplementsFarm`). That a computed result is final, `ResultIsFinal` of
`PfdCompute`, is what `results` of `PfdCall` being a set that only grows stands
for.

Definitions commented "Mutation" are part of no specification. Each is a
faulty form of the definition that follows it, which shows that a property can
fail.

## Runs

| run | instance | shows |
|---|---|---|
| `fork_compute_step` | 1..6 terms, split_max 5: fewer, as many and more terms than chunks; the two terms of a step with exactly two may cancel; 40,067 states | no term lost or doubled, counter exact, sides alternate, no two handlers on one token, every file there when read, times counted once, nothing left over, only cancelling makes a step fail, it ends, and it implements `PairwiseReduction` |
| `parallel_share` | all percentages 0..100, 0..127 tasks, three strategies | shares add up, at most one parallel task lost to the float |
| `parallel_all_pfd` | 0..4 problems of different size, two of them failing, 0, 34, 75, 100 and 150 percent, sorted or not | each task once, count exact, DONE waits for all, shares dealt, largest in parallel, cancelled only for a reason, the call is answered, implements `TaskFarm` |
| `pfd_compute` | trivial, ordinary and vanishing problems; steps skipped first, last, between, all; empty or full tempdir at the start; any number of calls | nothing old in the result, times counted once, no handler misses a file, nothing new left behind, results final, every call answered |
| `quick_sort` | every list of 0..6 problems with sizes -1, 0, 1 and 2, 156,435 states | indices in range, what no pending call covers is in order, the result is a sorted permutation, the sort ends |
| `dec_loop` | two or three terms in two chunks over the factors 4, 6, 9 (4 and 6, and 6 and 9, have a common zero, 4 and 9 and all three have none), exponents to 2, total degree to 3, 220,774 states | the sum is kept by every pass and merge, lists are sorted without doubles and zeros, the factors of what is done have a common zero, the loop ends |
| `pfd_call` | two sound entries and a failing one; calls of 0, 1 and 2 tasks, the same entries in another order, one entry twice, the failing one first or last, each flaw a call may have; any number of calls, each cut off anywhere; 420,787 states | an answer is of this call's entries, in order, with their results there; an answered call leaves none of its files; calls implement `ResumableCall` with its liveness |
| `no_terms_after_merge` | two cancelling terms | finding 1 |
| `share_one_short` | as `parallel_share` | finding 2 |
| `largest_first_on_text` | no `.ssi` inputs | finding 3 |
| `output_formats` | one ordinary problem | finding 4 |
| `median_of_three` | up to 3 problems | finding 5 |

Bounds. Five chunks are the smallest number at which merges overlap, a merged
token is merged again while another merge runs, and the left side is one ahead
with tokens still being decomposed; six terms give chunks of one and of two.
Four problems give shares of 0, 1, 3 and 4, and 150 percent more than the list.
Word is the range of an unsigned int: any value above the number of tasks
behaves alike, a small one keeps the states printable. 127 tasks keep the exact
products within 31 bits, the range of TLC's integers. Six problems give ranges
of every kind to `QuickSort` (empty, one, two, with and without equal sizes on
both sides of the pivot). Three factors, of which neighbours have a common zero,
give `DecLoop` terms of two factors that are done and others that are not,
certificates whose terms need a second pass and ones whose terms do not, and remainders over
one and two factors; three terms make a chunk of more than one. Two positions give
`PfdCall` calls whose names are all, partly or not those of the call before; a
third task would add workers that are alike. A flaw acts before or after the
loop over the tasks, so the calls that have one need no more than one task.

Fairness. `ForkComputeStep` and `ParallelAllPfd`, and the sequential `QuickSort` and
`DecLoop`, assume weak fairness of the
next-state relation: the workflow engine fires an enabled transition sooner
or later and a call into Singular returns. That is enough because the nets
run out of tokens to move and the loops of work. `PfdCompute` assumes it of the handlers only; nobody
has to make another call, and `AnswersUnlessCutOff` speaks of a last one.
`PfdCall` likewise assumes it of `Step`, the client, the workers and the net, and
neither of new calls nor of interruptions. Weak fairness of the whole step is
enough: nothing in a call is repeated without an end.

## Findings

1. `pfd_fork_merge_pair` raises an error ("no terms after merge, even though
   ...") when two non-empty results add up to nothing. Numerators of terms with
   equal denominators are added and zeros deleted, so this can happen, and it
   cancels the net with all other problems.
2. The share of parallel problems is one less than the documented p/100 for some
   percentages, 53 of 100 among them: the float product is truncated.
3. With `.txt` inputs, the default, the first call sorts by the size of files
   that are not there, so the documented "p/100 largest" are not the ones chosen.
4. A call cut off between the result file and the other output formats leaves
   a problem that every later call takes for done.
5. `pfd_quick_pivot` says that it moves the median of three to `high`; its last
   exchange is of `low` and `high` instead of `mid` and `high`, so sizes in
   ascending order get the smallest as pivot. The list is sorted all the same.

## Proofs

`ForkComputeStepProofs` proves for every `MaxTerms`, `SplitMax` and `Cancelling`,
from the assumptions `MaxTermsAssumption`, `SplitMaxAssumption` and
`CancellingAssumption` (positive numbers, sets of terms), that a step satisfies
TypeOK, TermsConserved, CounterExact, JobsDisjoint, FilesMatchPlaces,
FailsOnlyByCancelling and OutComplete.

The argument is one inductive invariant, `IInv`. None of these is inductive
alone: a term is conserved by a merge because both result files are there
(FilesMatchPlaces), they are because no other handler has the tokens
(JobsDisjoint), and `finish_step` keeps all terms because computing = 1 leaves
one token (CounterExact). `StageMatchesFiles` ties the task's place to the files
of the step, and `ChunksDealt` bounds the tokens. There is one lemma for each
action; `Invariance` puts them together. Lemmas about cardinalities and about the
round-robin split come first. Two more invariants follow with it:
TurnsAlternate (`TurnsDoAlternate`), and TimesMatchResults, that the time of each
chunk is counted once (`TimesAreExact`), which needs `TimesFollow`: the chunks
counted in a token's time files are the ones whose terms its result file holds,
while a merge is half done as well.

`ForkComputeStepProofs` also proves that a step implements `PairwiseReduction`
(`StepImplementsReduction`), whose blocks are the terms behind each token:
those of the chunk file until it is decomposed, those of the result
afterwards, those of both results while a pair is merged. A decomposition leaves
the blocks as they are, the end of a merge joins two of them, and everything
else stutters. What the proof needs beyond the invariant is `TokensApart`:
two tokens of a step never stand for the same terms, so that a set of blocks does not hide one.

`QuickSortProofs` proves for every `MaxCount` and `FileSizes`, from
`MaxCountAssumption` and `FileSizesAssumption`, that the sort satisfies TypeOK,
OrderedUnlessPending and SortedPermutation. TypeOK says in particular that
`i`, `j` and the bounds of every pending call stay where the code may index the
array. The inductive invariant adds that pending ranges do not overlap, that
the scans leave smaller sizes below `i` and others above `j`, and that input is
injective. The step that takes thought is an exchange inside a pending range:
it leaves the range's set of problems as it is (lemmas on rearrangements), so
the order between that range and everything outside it is kept. Finding 5
does no harm to this: any pivot will do.

`ParallelAllPfdProofs` proves for any number of problems, sizes, percentages and
failing problems that the net over all problems satisfies TypeOK, EachTaskOnce,
ControlExact, DoneMeansWritten, LargestGoParallel and CancelledOnlyByFailure, and
that it implements `TaskFarm`, which states no fairness. The assumptions are the
named ones of the module: sizes are numbers, and `ShareAssumption`, that the
share of each percentage is one that the float arithmetic yields a number for. The
inductive invariant `IInv` adds three parts. `TokensAgree` ties the control
tokens to each other: nothing exists before initialize. `ListMatchesShares` says
that the list is as long as what is left of the shares, or, above 100 percent,
short by a constant amount: without it done_extract could throw a rest of the list
away, and p_extract run into an empty one. `LargestTaken` says that the list stays
in order, that the parallel side is larger than the rest, and that nothing
serial starts while a parallel share is left. The order of sorted lists of the
same set is all that is used of the sort, and `QuickSortProofs` is about that.
Two theorems need in addition that the share is at most the number of tasks, and
so have the hypothesis that there are fewer than 2^24 of them, the numbers that a
float holds exactly: `SharesAreDealt` (SharesDealt, with `SharesGiven`: what p_extract has handed out and
what it has left are the share of initialize), and `OnlyFailuresCancel`, that up
to 100 percent nothing but a failing problem ends the net early. Above 100
percent the list runs out before the share does, which is why
CancelledOnlyByFailure names that case.

`ParallelShareProofs` proves about the float arithmetic that the share of p
percent of n tasks is at most n, and exact for 0 and 100 percent, below 2^24
tasks (`ShareIsAtMostAll`); and that it is the p*n/100 of the documentation rounded
down, or one less, up to 2^16 tasks (`ShareIsNearProportion`). The bound is there
because the code has one: the two roundings move the product by about n/2^23,
which has to stay below the 1/100 that separates p*n/100 from the next number. The first follows from
rounding being monotone: p/100 is rounded to at most 1, and the product to at
most n. The second adds up the errors of half a unit in the last place
of the division and of the product. That the scale of either rounding exists,
which the model chooses, is `ScaleExists` and `ProductScaleExists`.
`Power` is a function for the powers of two, because
the provers know nothing of 2^i for a variable i. `MCParallelShareProofs` has
SharesAddUp up to 2^16 tasks and StrategiesAreExact below 2^24
for all strategies and percentages; the run reaches 127 tasks.

`PfdComputeProofs` proves for any problems and settings of active steps, any number of calls
and any cut between them that one problem satisfies TypeOK, NothingOldInResult,
TotalCountsEachPart, ThrowsOnlyWhenVanishing, LeavesNothingNew and
ResultIsFinal. The inductive invariant says of every kind of file which ones hold
something of the current call, and exactly what, wherever the problem's token is
(`TermsMatch`, `ListsMatch`, `ChunkTimesMatch`, `TimesMatch`, `StepTimesMatch`);
nothing is said of the other files but that they have nothing new, so leftovers
of earlier calls are unrestricted. `ResultMatches` is where this
pays: a handler reads only files that the current call has written, so nothing
old reaches the result, although old files lie under the same names. A call
that is cut off makes everything it wrote old, which keeps each part.

`PfdCallProofs` proves for any entries, calls and failing entries that calls
satisfy AnswerIsOfThisCall and TempdirCleaned, and that their steps are steps of
`ResumableCall` (`CallsKeepPromise`, the safety part of ImplementsPromise), from
`MaxTasksAssumption` and `RequestsAssumption`. Leftovers are not restricted in any
way: the invariant says nothing of a file until this call has written it.
`InStructsWritten` follows the writing loop, `JobsRight` says that a worker's word
about a task is about the entry at its position and that its result is there once
stored, and `ReadingRight` that what the client has not read yet is on disk,
which holds because a net that is done has ended all tasks (`NetFollowsPhase`).
`ReasonsGiven` has the reason of every way to give up.

`DecLoopProofs` proves about `MergePfd` and `DecLoop`, for every `Q`, `MaxExp`,
`MaxDegree`, `Numerators` and `MaxTerms`, that a step satisfies SumKept, ListsNormal
and ResultsDecomposed. The assumptions are `FactorsAssumption` (factors of at
least 2, whether they have common zeros or not), `NumeratorsAssumption` (integers but 0) and
that the bounds are numbers. The argument has four layers.

* Lists. `IsDpSmaller` is a strict total order on denominators
  (`SmallerIsIrreflexive`, `SmallerIsTransitive`, `SmallerIsTotal`). From this the
  binary search finds the one place where an entry belongs (`SearchFinds`: the
  range always encloses it and shrinks), and `mergepfd` and `mergepfd_sorted` keep
  lists sorted, without doubles and zeros (`MergePfdSorts`, `MergePfdSortedSorts`).
* Sums. `Worth` of a list is additive under insertion, deletion, change of a
  numerator and concatenation, so both procedures keep it (`MergePfdKeepsWorth`,
  `MergePfdSortedKeepsWorth`).
* Steps. The greatest common divisor of two numbers is their least positive
  combination (`GcdIsCombination`); so `Liftstd` gives a number that divides all
  of its numbers, and coefficients that combine them to it (`LiftstdIsBasis`).
  The weight of a denominator without a factor is its weight times that factor.
  Hence each step keeps the worth of a term (`NSSdecompStepKeepsWorth`,
  `NumeratorStepsKeepWorth`). What is put aside has factors with a common zero:
  a remainder by the basis means that the basis is no unit, and if the basis of the
  *powers* is none, its least divisor divides each factor, since otherwise it
  would be comaximal with that factor and with its power (`NoCertificate`). And a list of
  one term from `NSSdecompStep` is the term that went in, which is what
  `general_merge_step` takes it for: a certificate never has one term only.
* States. `IInv` has the types (which lists are sorted, that what is done has
  denominators in `Final`, of which the factors have a common zero), what there is in each phase, and SumKept. No part is
  inductive without the types: a merge keeps a sum only of sorted lists. The last
  merge fails only when the sum it has kept is 0.

`PassesDoLowerDegree` is the variant behind Terminates: what is to be decomposed
again has a lower total degree (`StepsLowerDegree`), so each pass starts lower
than the one before, and only while the degree is positive. That it is fair to let
the passes go on, and so the end itself, is liveness and left to the run. The folds
of the procedures are recursive functions here, and facts about them are proved from their
partial results (`Induction` and `InductionUpTo` state induction for a set of
numbers, which the provers can use).

Only model-checked: liveness (Completes, CallIsAnswered, AnswersUnlessCutOff,
Terminates of `QuickSort` and of `DecLoop`, and the fairness in ImplementsPromise),
which is out of the prover's reach; and the findings, which are
counterexamples. Every safety invariant, action property and refinement that a
passing run checks has a theorem, those about the share for the numbers of tasks
named above.

## Not modelled

The algebra of the decompositions (Groebner bases, `leinartas_adapted`,
`algDependDecompStep`, `MultivariateApart_kl`) and of the preparation of an input
(`prepareNonLin`, `process_l_input`, `checkSingleEntryFraction`); text input and
output of `pfd.lib` (`pfdMat`, display and parsing); the conversions between C++ and
Singular values in `interface/singular_functions.cpp`; procedures that no
transition calls (`decompStepGPI`, `.pfd_merge.lib`); build and start scripts; the
parser in `python/`, which is used before a run. The hand-back transitions of
`pfd_compute.xpnet` need a nonzero status, which no step returns. GPI-Space and
Singular are external: an enabled transition fires once and atomically takes its
tokens, an exception in a handler cancels the job.

`PfdCall` assumes one session at a time per temporary directory, that a cut-off
ends the client together with its workers, and that writing one file is atomic. A
result file that a crash has left in pieces is therefore not there; nothing in the
code would tell it from a whole one. The entry points `custom_pfd`, `pfd_waitall`
and `pfd_fullyparallel` fill in a configuration and call `parallel_pfd`;
`custom_pfd` without a configuration also removes its default temporary directory
after the answer.

Met while reading, and checked by no run:

* A problem that is handled serially is answered "success! (serially)" also when
  it was skipped because its result is there
  (`singular/pfd_singular_interface.lib.in:41-43`), other than `Readme2.md:314`
  says of such problems; `BeginTask` has it as it is.
* `pfd_waitall` lacks a comma in its call of `custom_pfd`
  (`singular/pfd_gspc.lib.in:464`), and `pfd_fullyparallel` passes its `steps`
  at the position where `custom_pfd` expects the name of an algorithm, which it
  refuses.

## Plan

1. Done: all modules above; proofs of every safety invariant, action property and
   refinement that a run checks.
2. What is behind the liveness properties, as action properties: a measure that
   every step of `QuickSort`, `ForkComputeStep` and `ParallelAllPfd` lowers, as
   `PassesDoLowerDegree` has it for the passes of `DecLoop`.
3. That a merge is commutative: `MergePfdSorted` of two sorted lists is the same
   list either way round, so that the order in which pairs are merged does not
   show in a result.
