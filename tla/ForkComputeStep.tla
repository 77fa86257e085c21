-------------------------- MODULE ForkComputeStep --------------------------
(***************************************************************************)
(* One decomposition step of one problem: the Petri net                    *)
(* workflow/pfd_fork_compute_step.xpnet together with the C++ and Singular *)
(* code its transitions call.                                              *)
(*                                                                         *)
(* The terms of the problem are dealt out to chunks, the chunks are        *)
(* decomposed by any number of workers at once, and the decomposed chunks  *)
(* are merged pairwise until one is left.  A token of the net is a chunk   *)
(* number (term_id); the problem id is the same in every token of one      *)
(* instance and is left out.  A place is the set of tokens on it.          *)
(*                                                                         *)
(* fork_compute and merge_decomposed run for a long time on a worker and   *)
(* are split into a Begin action, which takes the tokens from their        *)
(* places, and an End action, which puts the result back: any number of    *)
(* them overlap.  The other transitions run on the net alone or on a token *)
(* nobody else can reach, and are one action each.                         *)
(*                                                                         *)
(* A file's content is the set of things it accounts for, and the empty    *)
(* set is a file that does not exist:                                      *)
(*   result[c]  the terms whose decompositions are summed in               *)
(*              terms_k_result_<id>_<c>.ssi                                *)
(*   ctime[c]   the chunks whose computing time compute_<step>_<id>_<c>    *)
(*              .time holds                                                *)
(*   mtime[c]   the chunks whose merging time merge_<step>_<id>_<c>.time   *)
(*              holds (0 ms of its own for a chunk never merged)           *)
(* A handler that reads a missing file throws, which ends the whole net.   *)
(*                                                                         *)
(* A definition whose comment begins with "Mutation" is part of no         *)
(* specification: it is a faulty form of the definition after it, which a  *)
(* property of a run must tell from the right one.                         *)
(***************************************************************************)
EXTENDS Integers, FiniteSets

CONSTANTS
  MaxTerms,    \* bound on the number of terms the step starts from
  SplitMax,    \* options.split_max
  Cancelling   \* the sets of terms whose decompositions add up to nothing

ASSUME MaxTermsAssumption == MaxTerms \in Nat \ {0}
ASSUME SplitMaxAssumption == SplitMax \in Nat \ {0}
ASSUME CancellingAssumption == Cancelling \subseteq SUBSET (0 .. MaxTerms - 1)

VARIABLES
  termCount,    \* size of the list of unprocessed terms in the from file
  active,       \* options.steps_active[step]
  task,         \* the place the task_status token is on, and its status
  terms, computeJobs, decomposed, left, right, mergeJobs, merged,
  turn,         \* the place the active token is on: l_active, r_active or none
  computing,    \* counts.computing; 0 when term_counts holds no token
  stepFiles,    \* of "from", terms_(k-1)_<id>.ssi, and "dectemp",
                \* terms_(k-1)_dectemp_<id>.ssi, those that exist
  toFile,       \* terms summed in terms_k_<id>.ssi
  chunkFile,    \* chunks whose terms_(k-1)_<id>_<c>.ssi exists
  result, ctime, mtime,
  net           \* "cancelled" once a handler has thrown

tokens  == <<terms, computeJobs, decomposed, left, right, mergeJobs, merged>>
files   == <<stepFiles, toFile, chunkFile, result, ctime, mtime>>
control == <<task, turn, computing>>
vars    == <<termCount, active, tokens, control, files, net>>

Term  == 0 .. MaxTerms - 1
Chunk == 0 .. SplitMax - 1

AllTerms == 0 .. termCount - 1

\* int split_count = min(split_max, term_count)
SplitCount == IF SplitMax <= termCount THEN SplitMax ELSE termCount

\* Mutation: one chunk too many.
AllChunksOneTooMany == 0 .. SplitCount

AllChunks == 0 .. SplitCount - 1

\* Term i of the list goes to chunk i % split_count.
TermsOf(c) == {i \in AllTerms : i % SplitCount = c}

\* Mutation: no merging time for chunk 0.
FreshMergeTimesFromOne ==
  [c \in Chunk |-> IF c \in AllChunks \ {0} THEN {c} ELSE mtime[c]]

\* pfd_fork_init writes the merging time 0 for every chunk.
FreshMergeTimes == [c \in Chunk |-> IF c \in AllChunks THEN {c} ELSE mtime[c]]

\* Mutation: the turn stays with the left side.
TurnStaysLeft == turn' = "l_active"

\* populate_left takes the token of l_active and puts it on r_active.
TurnToRight == turn' = "r_active"

\* populate_right does the opposite.
TurnToLeft == turn' = "l_active"

\* Mutation: the left token is read, not taken.
TakePairKeepLeft(l, r) == left' = left /\ right' = right \ {r}

\* merge_decomposed takes its two tokens from their places.
TakePair(l, r) == left' = left \ {l} /\ right' = right \ {r}

\* Mutation: the computing time of the right token is thrown away.
MergeTimesLoseRight(l, r) ==
  /\ mtime' = [mtime EXCEPT ![l] = mtime[l] \cup mtime[r], ![r] = {}]
  /\ ctime' = [ctime EXCEPT ![r] = {}]

\* pfd_fork_merge_pair reads and removes the four time files of the pair and
\* writes the sums to those of the left token.
MergeTimes(l, r) ==
  /\ mtime' = [mtime EXCEPT ![l] = mtime[l] \cup mtime[r], ![r] = {}]
  /\ ctime' = [ctime EXCEPT ![l] = ctime[l] \cup ctime[r], ![r] = {}]

\* Mutation: an empty sum is written like any other.
NeverEmpty(l, r) == TRUE

\* pfd_fork_merge_pair raises "no terms after merge, even though ..." otherwise.
SumNotEmpty(l, r) == result[l] \cup result[r] \notin Cancelling

\* Mutation: the merged token goes by the right one's number.
SurvivorRight(l, r) == r

\* pfd_fork_merge_pair returns left.
Survivor(l, r) == l

\* Mutation: the count of tokens at which the merging goes on is one too high.
MoreToMergeAboveTwo == computing > 2

\* The condition of hand_merged_back.
MoreToMerge == computing > 1

\* Mutation: the count stays as it is.
CountKept == computing

\* The expression of hand_merged_back.
CountOneLess == computing - 1

\* Mutation: the step may finish at any count.
OneTokenLeftAnyCount == computing >= 1

\* The condition of finish_step.
OneTokenLeft == computing = 1

-----------------------------------------------------------------------------

Init ==
  /\ termCount \in 1 .. MaxTerms
  /\ active \in {0, 1}
  /\ task = [place |-> "in", status |-> 0]
  /\ terms = {} /\ computeJobs = {} /\ decomposed = {}
  /\ left = {} /\ right = {} /\ mergeJobs = {} /\ merged = {}
  /\ turn = "none"
  /\ computing = 0
  /\ stepFiles = {"from"}
  /\ toFile = {}
  /\ chunkFile = {}
  /\ result = [c \in Chunk |-> {}]
  /\ ctime  = [c \in Chunk |-> {}]
  /\ mtime  = [c \in Chunk |-> {}]
  /\ net = "running"

\* Transition check_skip.
CheckSkip ==
  /\ net = "running"
  /\ task.place = "in"
  /\ task' = [place |-> "skip_in", status |-> IF active = 1 THEN 0 ELSE 1]
  /\ UNCHANGED <<termCount, active, tokens, turn, computing, files,
                 net>>

\* Transition skip_step: the unprocessed terms become the decomposed ones.
SkipStep ==
  /\ net = "running"
  /\ task = [place |-> "skip_in", status |-> 1]
  /\ IF "from" \in stepFiles
       THEN /\ toFile' = AllTerms
            /\ stepFiles' = stepFiles \ {"from"}
            /\ task' = [place |-> "decomposition", status |-> 0]
            /\ UNCHANGED net
       ELSE net' = "cancelled" /\ UNCHANGED <<toFile, stepFiles, task>>
  /\ UNCHANGED <<termCount, active, tokens, turn, computing,
                 chunkFile, result, ctime, mtime>>

\* Transition split_init: pfd_fork_init writes one chunk file and one zero
\* merging time per chunk and sets the list of decomposed terms aside.
SplitInit ==
  /\ net = "running"
  /\ task = [place |-> "skip_in", status |-> 0]
  /\ IF "from" \in stepFiles
       THEN /\ terms' = AllChunks
            /\ computing' = SplitCount
            /\ turn' = "l_active"
            /\ task' = [place |-> "split", status |-> 0]
            /\ chunkFile' = AllChunks
            /\ stepFiles' = (stepFiles \ {"from"}) \cup {"dectemp"}
            /\ mtime' = FreshMergeTimes
            /\ UNCHANGED net
       ELSE /\ net' = "cancelled"
            /\ UNCHANGED <<terms, computing, turn, task, chunkFile, stepFiles,
                           mtime>>
  /\ UNCHANGED <<termCount, active, computeJobs, decomposed, left, right,
                 mergeJobs, merged, toFile, result, ctime>>

\* Transition fork_compute, up to the call into Singular.
BeginCompute(c) ==
  /\ net = "running"
  /\ c \in terms
  /\ terms' = terms \ {c}
  /\ computeJobs' = computeJobs \cup {c}
  /\ ctime' = [ctime EXCEPT ![c] = {c}]
  /\ UNCHANGED <<termCount, active, decomposed, left, right, mergeJobs, merged,
                 control, stepFiles, toFile, chunkFile, result, mtime,
                 net>>

\* Transition fork_compute: the chunk has been decomposed.
EndCompute(c) ==
  /\ net = "running"
  /\ c \in computeJobs
  /\ computeJobs' = computeJobs \ {c}
  /\ IF c \in chunkFile /\ ctime[c] # {}
       THEN /\ decomposed' = decomposed \cup {c}
            /\ chunkFile' = chunkFile \ {c}
            /\ result' = [result EXCEPT ![c] = TermsOf(c)]
            /\ UNCHANGED net
       ELSE net' = "cancelled" /\ UNCHANGED <<decomposed, chunkFile, result>>
  /\ UNCHANGED <<termCount, active, terms, left, right, mergeJobs, merged,
                 control, stepFiles, toFile, ctime, mtime>>

\* Transition populate_left: the turn passes to the right.
PopulateLeft(c) ==
  /\ net = "running"
  /\ turn = "l_active"
  /\ c \in decomposed
  /\ decomposed' = decomposed \ {c}
  /\ left' = left \cup {c}
  /\ TurnToRight
  /\ UNCHANGED <<termCount, active, terms, computeJobs, right, mergeJobs, merged,
                 task, computing, files, net>>

\* Transition populate_right: the turn passes to the left.
PopulateRight(c) ==
  /\ net = "running"
  /\ turn = "r_active"
  /\ c \in decomposed
  /\ decomposed' = decomposed \ {c}
  /\ right' = right \cup {c}
  /\ TurnToLeft
  /\ UNCHANGED <<termCount, active, terms, computeJobs, left, mergeJobs, merged,
                 task, computing, files, net>>

\* Transition merge_decomposed, up to the call into Singular: the times of the
\* right token move to the files of the left one.
BeginMerge(l, r) ==
  /\ net = "running"
  /\ l \in left
  /\ r \in right
  /\ TakePair(l, r)
  /\ mergeJobs' = mergeJobs \cup {<<l, r>>}
  /\ MergeTimes(l, r)
  /\ net' = IF {} \in {mtime[l], mtime[r], ctime[l], ctime[r]}
              THEN "cancelled" ELSE "running"
  /\ UNCHANGED <<termCount, active, terms, computeJobs, decomposed, merged,
                 control, stepFiles, toFile, chunkFile, result>>

\* Transition merge_decomposed: pfd_fork_merge_pair raises an error when
\* nothing is left of the sum.
EndMerge(l, r) ==
  /\ net = "running"
  /\ <<l, r>> \in mergeJobs
  /\ mergeJobs' = mergeJobs \ {<<l, r>>}
  /\ IF /\ {} \notin {result[l], result[r], mtime[l]}
        /\ SumNotEmpty(l, r)
       THEN /\ result' = [result EXCEPT ![l] = result[l] \cup result[r],
                                        ![r] = {}]
            /\ merged' = merged \cup {Survivor(l, r)}
            /\ UNCHANGED net
       ELSE net' = "cancelled" /\ UNCHANGED <<result, merged>>
  /\ UNCHANGED <<termCount, active, terms, computeJobs, decomposed, left, right,
                 control, stepFiles, toFile, chunkFile, ctime, mtime>>

\* Transition hand_merged_back.
HandMergedBack(c) ==
  /\ net = "running"
  /\ MoreToMerge
  /\ c \in merged
  /\ merged' = merged \ {c}
  /\ decomposed' = decomposed \cup {c}
  /\ computing' = CountOneLess
  /\ UNCHANGED <<termCount, active, terms, computeJobs, left, right, mergeJobs,
                 task, turn, files, net>>

\* Transition finish_step: pfd_fork_finish adds the last result to the list
\* set aside and removes the files of the token.  The result files hold no
\* unprocessed terms (pfd_fork_compute_term writes none), so the status, which
\* counts those of the to file, is 0.
FinishStep(c) ==
  /\ net = "running"
  /\ OneTokenLeft
  /\ turn = "r_active"
  /\ c \in left
  /\ left' = left \ {c}
  /\ turn' = "none"
  /\ computing' = 0
  /\ ctime' = [ctime EXCEPT ![c] = {}]
  /\ mtime' = [mtime EXCEPT ![c] = {}]
  /\ IF {} \notin {ctime[c], mtime[c], result[c]} /\ "dectemp" \in stepFiles
       THEN /\ toFile' = result[c]
            /\ result' = [result EXCEPT ![c] = {}]
            /\ stepFiles' = stepFiles \ {"dectemp"}
            /\ task' = [place |-> "decomposition", status |-> 0]
            /\ UNCHANGED net
       ELSE net' = "cancelled" /\ UNCHANGED <<toFile, result, stepFiles, task>>
  /\ UNCHANGED <<termCount, active, terms, computeJobs, decomposed, right,
                 mergeJobs, merged, chunkFile>>

\* The step has handed its token on, or the net has been cancelled.
Stopped ==
  /\ task.place = "decomposition" \/ net = "cancelled"
  /\ UNCHANGED vars

Next ==
  \/ CheckSkip
  \/ SkipStep
  \/ SplitInit
  \/ \E c \in Chunk : BeginCompute(c)
  \/ \E c \in Chunk : EndCompute(c)
  \/ \E c \in Chunk : PopulateLeft(c)
  \/ \E c \in Chunk : PopulateRight(c)
  \/ \E l, r \in Chunk : BeginMerge(l, r)
  \/ \E l, r \in Chunk : EndMerge(l, r)
  \/ \E c \in Chunk : HandMergedBack(c)
  \/ \E c \in Chunk : FinishStep(c)
  \/ Stopped

\* The workflow engine fires an enabled transition sooner or later, and every
\* call into Singular returns.
Fairness == WF_vars(Next)

Spec == Init /\ [][Next]_vars /\ Fairness

-----------------------------------------------------------------------------

Statuses == [place : {"in", "skip_in", "split", "decomposition"}, status : {0, 1}]

\* Every place holds tokens of its type, every file what it is meant to hold.
TypeOK ==
  /\ termCount \in 1 .. MaxTerms
  /\ active \in {0, 1}
  /\ task \in Statuses
  /\ terms \subseteq Chunk /\ computeJobs \subseteq Chunk
  /\ decomposed \subseteq Chunk /\ merged \subseteq Chunk
  /\ left \subseteq Chunk /\ right \subseteq Chunk
  /\ mergeJobs \subseteq Chunk \X Chunk
  /\ turn \in {"none", "l_active", "r_active"}
  /\ computing \in 0 .. SplitMax
  /\ stepFiles \subseteq {"from", "dectemp"}
  /\ toFile \subseteq Term
  /\ chunkFile \subseteq Chunk
  /\ result \in [Chunk -> SUBSET Term]
  /\ ctime \in [Chunk -> SUBSET Chunk]
  /\ mtime \in [Chunk -> SUBSET Chunk]
  /\ net \in {"running", "cancelled"}

\* The tokens two workers are merging, by side.
MergingLeft  == {j[1] : j \in mergeJobs}
MergingRight == {j[2] : j \in mergeJobs}
Merging == MergingLeft \cup MergingRight

\* The tokens that have been decomposed and are not on their way back.
Ready == decomposed \cup left \cup right

Held == terms \cup computeJobs \cup Ready \cup Merging \cup merged

\* The terms a token stands for.
Content(c) == IF c \in terms \cup computeJobs THEN TermsOf(c) ELSE result[c]

Reducing == task.place = "split" /\ net = "running"

\* While the step runs, every term of the problem is in exactly one token:
\* no interleaving of the splits, merges and hand-backs loses a term or adds
\* it into the sum twice.
TermsConserved ==
  Reducing =>
    /\ \A c \in Held : Content(c) \subseteq AllTerms
    /\ \A i \in AllTerms : \E c \in Held : i \in Content(c)
    /\ \A c, d \in Held : c # d => Content(c) \cap Content(d) = {}

\* counts.computing counts the tokens, the pair that becomes one token as two
\* until hand_merged_back has put it back: this is why finish_step may take
\* computing = 1 for "one token is left and nobody is at work".
CounterExact ==
  Reducing =>
    computing = Cardinality(terms) + Cardinality(computeJobs)
                  + Cardinality(Ready)
                  + 2 * Cardinality(mergeJobs) + 2 * Cardinality(merged)

\* Left and right are filled in turn, so the left side never runs more than
\* one token ahead and finds a partner for all of its tokens but the last.
TurnsAlternate ==
  Reducing =>
    /\ turn # "none"
    /\ Cardinality(left)
         = Cardinality(right) + (IF turn = "r_active" THEN 1 ELSE 0)

\* No two handlers that run at the same time use a file of the same token: a
\* token is on one place or in one job, and in a merge on one side of it.
JobsDisjoint ==
  net = "running" =>
    /\ terms \cap (computeJobs \cup Ready \cup Merging \cup merged) = {}
    /\ computeJobs \cap (Ready \cup Merging \cup merged) = {}
    /\ Ready \cap (Merging \cup merged) = {}
    /\ merged \cap Merging = {}
    /\ decomposed \cap (left \cup right) = {} /\ left \cap right = {}
    /\ MergingLeft \cap MergingRight = {}
    /\ \A j, k \in mergeJobs : (j[1] = k[1] \/ j[2] = k[2]) => j = k

\* The files of a token are those that the handlers of its place read, and
\* nothing is left of a token that has gone: no order of the handlers makes one
\* read a file that is not there yet or no longer.
FilesMatchPlaces ==
  net = "running" =>
    \A c \in Chunk :
      /\ c \in chunkFile   <=> c \in terms \cup computeJobs
      /\ result[c] # {}    <=> c \in Ready \cup Merging \cup merged
      /\ ctime[c] # {}     <=> c \in computeJobs \cup Ready \cup MergingLeft
                                       \cup merged
      /\ mtime[c] # {}     <=> c \in Held \ MergingRight

\* The times kept for a token that is not being worked on are those of exactly
\* the chunks whose terms are in its result, so the times logged for the step
\* count every chunk once.
TimesMatchResults ==
  net = "running" =>
    \A c \in Ready \cup merged :
      /\ mtime[c] = ctime[c]
      /\ result[c] = UNION {TermsOf(d) : d \in ctime[c]}

\* The only thing that makes a handler throw is two results that cancel: every
\* file it reads is there, whatever the order of the handlers.
FailsOnlyByCancelling ==
  net = "cancelled" =>
    \E l, r \in Chunk :
      /\ l # r
      /\ {} \notin {result[l], result[r]}
      /\ result[l] \cup result[r] \in Cancelling

\* Where the task is says which files of the step exist and whether the net
\* holds any token of it.
StageMatchesFiles ==
  net = "running" =>
    /\ task.place # "split" => Held = {} /\ computing = 0 /\ turn = "none"
    /\ task.place \in {"in", "skip_in"} => stepFiles = {"from"} /\ toFile = {}
    /\ task.place = "split" => stepFiles = {"dectemp"} /\ toFile = {}
    /\ task.place = "decomposition" => stepFiles = {} /\ toFile = AllTerms

\* The tokens are chunks that the split has made.
ChunksDealt == net = "running" => Held \subseteq AllChunks

\* When the step hands its token on, the to file holds the decomposition of all
\* the terms, no token is left in the net and no file of the step in tempdir.
OutComplete ==
  (task.place = "decomposition" /\ net = "running") =>
    /\ toFile = AllTerms
    /\ Held = {} /\ computing = 0 /\ turn = "none"
    /\ stepFiles = {} /\ chunkFile = {}
    /\ \A c \in Chunk : result[c] = {} /\ ctime[c] = {} /\ mtime[c] = {}

\* The inductive invariant that carries the proofs.
IInv ==
  /\ TypeOK
  /\ StageMatchesFiles
  /\ ChunksDealt
  /\ JobsDisjoint
  /\ FilesMatchPlaces
  /\ TermsConserved
  /\ CounterExact
  /\ FailsOnlyByCancelling

\* The step always comes to an end.
Completes == <>(task.place = "decomposition" \/ net = "cancelled")

\* "no terms after merge, even though ...": pfd_fork_merge_pair takes two
\* results whose sum is empty for something that cannot happen.
NoTermsAfterMergeNeverRaised == net = "running"

\* What the step promises, PairwiseReduction: the terms are partitioned, blocks
\* are joined two at a time and the last block is handed on.
Blocks == IF Reducing THEN {Content(c) : c \in Held} ELSE {}

Phase ==
  IF net = "cancelled" THEN "aborted"
  ELSE CASE task.place = "split"         -> "reducing"
         [] task.place = "decomposition" -> "done"
         [] OTHER                        -> "waiting"

Reduction == INSTANCE PairwiseReduction WITH
  input <- AllTerms, blocks <- Blocks, out <- toFile, phase <- Phase

\* The net implements PairwiseReduction.
ImplementsReduction == Reduction!Spec
=============================================================================
