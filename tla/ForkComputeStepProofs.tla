----------------------- MODULE ForkComputeStepProofs -----------------------
(***************************************************************************)
(* Theorems about ForkComputeStep, for every MaxTerms, SplitMax and        *)
(* Cancelling.                                                             *)
(***************************************************************************)
EXTENDS ForkComputeStep, Functions, FiniteSetTheorems, TLAPS

-----------------------------------------------------------------------------
(***************************************************************************)
(* The round-robin split.                                                  *)
(***************************************************************************)

\* There is at least one chunk, at most SplitMax, and no more than terms.
LEMMA SplitCountBounds ==
  ASSUME termCount \in 1 .. MaxTerms
  PROVE  /\ SplitCount \in 1 .. SplitMax
         /\ SplitCount <= termCount
         /\ AllChunks \subseteq Chunk
         /\ AllTerms \subseteq Term
BY MaxTermsAssumption, SplitMaxAssumption
   DEF SplitCount, AllChunks, Chunk, AllTerms, Term

\* pfd_split_terms deals every term to one chunk and leaves no chunk empty.
LEMMA SplitCovers ==
  ASSUME termCount \in 1 .. MaxTerms
  PROVE  /\ \A c \in Chunk : TermsOf(c) \subseteq AllTerms
         /\ \A c \in AllChunks : TermsOf(c) # {}
         /\ \A i \in AllTerms : i % SplitCount \in AllChunks
         /\ \A i \in AllTerms : i \in TermsOf(i % SplitCount)
<1>1. SplitCount \in Nat \ {0} /\ SplitCount <= termCount
  BY SplitCountBounds, SplitMaxAssumption
<1>2. ASSUME NEW i \in AllTerms
      PROVE  i % SplitCount \in AllChunks
  BY <1>1 DEF AllTerms, AllChunks
<1>3. ASSUME NEW c \in AllChunks
      PROVE  c \in TermsOf(c)
  <2>1. c \in AllTerms
    BY <1>1 DEF AllTerms, AllChunks
  <2>2. c % SplitCount = c
    BY <1>1 DEF AllChunks
  <2>3. QED
    BY <2>1, <2>2 DEF TermsOf
<1>4. QED
  BY <1>2, <1>3 DEF TermsOf

-----------------------------------------------------------------------------
(***************************************************************************)
(* Type correctness.                                                       *)
(***************************************************************************)

\* Every step keeps every place and file in its type.
LEMMA TypeStep ==
  ASSUME TypeOK, [Next]_vars
  PROVE  TypeOK'
<1>0. /\ termCount \in 1 .. MaxTerms
      /\ SplitCount \in 1 .. SplitMax /\ AllChunks \subseteq Chunk
      /\ AllTerms \subseteq Term /\ \A c \in Chunk : TermsOf(c) \subseteq Term
  BY SplitCountBounds, SplitCovers DEF TypeOK
<1>a. \A p \in {"in", "skip_in", "split", "decomposition"}, n \in {0, 1} :
        [place |-> p, status |-> n] \in Statuses
  BY DEF Statuses
<1>b. 0 \in 0 .. SplitMax /\ SplitCount \in 0 .. SplitMax
  BY <1>0, SplitMaxAssumption
<1>1. CASE CheckSkip
  BY <1>a, <1>1 DEF CheckSkip, TypeOK, tokens, files
<1>2. CASE SkipStep
  <2>1. CASE "from" \in stepFiles
    BY <1>0, <1>a, <1>2, <2>1 DEF SkipStep, TypeOK, tokens
  <2>2. CASE "from" \notin stepFiles
    BY <1>2, <2>2 DEF SkipStep, TypeOK, tokens
  <2>3. QED
    BY <2>1, <2>2
<1>3. CASE SplitInit
  <2>1. FreshMergeTimes \in [Chunk -> SUBSET Chunk]
    BY <1>0 DEF FreshMergeTimes, TypeOK
  <2>2. CASE "from" \in stepFiles
    <3>0. stepFiles' \subseteq {"from", "dectemp"}
      BY <1>3, <2>2 DEF SplitInit, TypeOK
    <3>1. /\ terms' \subseteq Chunk /\ chunkFile' \subseteq Chunk
          /\ computing' \in 0 .. SplitMax
          /\ task' \in Statuses
          /\ mtime' \in [Chunk -> SUBSET Chunk]
      BY <1>0, <1>a, <1>b, <1>3, <2>1, <2>2 DEF SplitInit
    <3>2. QED
      BY <1>3, <2>2, <3>0, <3>1 DEF SplitInit, TypeOK
  <2>3. CASE "from" \notin stepFiles
    BY <1>3, <2>3 DEF SplitInit, TypeOK
  <2>4. QED
    BY <2>2, <2>3
<1>4. ASSUME NEW c \in Chunk, BeginCompute(c)
      PROVE  TypeOK'
  BY <1>4 DEF BeginCompute, TypeOK, control
<1>5. ASSUME NEW c \in Chunk, EndCompute(c)
      PROVE  TypeOK'
  <2>1. CASE c \in chunkFile /\ ctime[c] # {}
    BY <1>0, <1>5, <2>1 DEF EndCompute, TypeOK, control
  <2>2. CASE ~(c \in chunkFile /\ ctime[c] # {})
    BY <1>5, <2>2 DEF EndCompute, TypeOK, control
  <2>3. QED
    BY <2>1, <2>2
<1>6. ASSUME NEW c \in Chunk, PopulateLeft(c)
      PROVE  TypeOK'
  BY <1>6 DEF PopulateLeft, TurnToRight, TypeOK, files
<1>7. ASSUME NEW c \in Chunk, PopulateRight(c)
      PROVE  TypeOK'
  BY <1>7 DEF PopulateRight, TurnToLeft, TypeOK, files
<1>8. ASSUME NEW l \in Chunk, NEW r \in Chunk, BeginMerge(l, r)
      PROVE  TypeOK'
  BY <1>8 DEF BeginMerge, TakePair, MergeTimes, TypeOK, control
<1>9. ASSUME NEW l \in Chunk, NEW r \in Chunk, EndMerge(l, r)
      PROVE  TypeOK'
  <2> DEFINE ok == /\ {} \notin {result[l], result[r], mtime[l]}
                   /\ SumNotEmpty(l, r)
  <2>1. CASE ok
    BY <1>9, <2>1 DEF EndMerge, Survivor, TypeOK, control
  <2>2. CASE ~ok
    BY <1>9, <2>2 DEF EndMerge, TypeOK, control
  <2>3. QED
    BY <2>1, <2>2
<1>10. ASSUME NEW c \in Chunk, HandMergedBack(c)
       PROVE  TypeOK'
  BY <1>10, SplitMaxAssumption
     DEF HandMergedBack, MoreToMerge, CountOneLess, TypeOK, files
<1>11. ASSUME NEW c \in Chunk, FinishStep(c)
       PROVE  TypeOK'
  <2> DEFINE ok == /\ {} \notin {ctime[c], mtime[c], result[c]}
                   /\ "dectemp" \in stepFiles
  <2>0. /\ left' \subseteq Chunk
        /\ turn' \in {"none", "l_active", "r_active"}
        /\ computing' \in 0 .. SplitMax
        /\ ctime' \in [Chunk -> SUBSET Chunk]
        /\ mtime' \in [Chunk -> SUBSET Chunk]
    BY <1>11, <1>b DEF FinishStep, TypeOK
  <2>1. CASE ok
    <3>0. /\ toFile' = result[c]
          /\ result' = [result EXCEPT ![c] = {}]
          /\ stepFiles' = stepFiles \ {"dectemp"}
      BY <1>11, <2>1 DEF FinishStep
    <3>1. /\ toFile' \subseteq Term
          /\ result' \in [Chunk -> SUBSET Term]
          /\ stepFiles' \subseteq {"from", "dectemp"}
      BY <3>0 DEF TypeOK
    <3>2. task' \in Statuses
      BY <1>a, <1>11, <2>1 DEF FinishStep
    <3>3. QED
      BY <1>11, <2>0, <2>1, <3>1, <3>2 DEF FinishStep, TypeOK
  <2>2. CASE ~ok
    BY <1>11, <2>0, <2>2 DEF FinishStep, TypeOK
  <2>3. QED
    BY <2>1, <2>2
<1>12. CASE Stopped \/ UNCHANGED vars
  BY <1>12 DEF Stopped, vars, tokens, control, files, TypeOK
<1>13. QED
  BY <1>1, <1>2, <1>3, <1>4, <1>5, <1>6, <1>7, <1>8, <1>9, <1>10, <1>11, <1>12
     DEF Next

\* The type invariant of the step.
THEOREM TypeCorrect == Spec => []TypeOK
<1>1. Init => TypeOK
  BY SplitMaxAssumption DEF Init, TypeOK, Statuses
<1>2. TypeOK /\ [Next]_vars => TypeOK'
  BY TypeStep
<1>3. QED
  BY <1>1, <1>2, PTL DEF Spec

-----------------------------------------------------------------------------
(***************************************************************************)
(* The inductive invariant.  One lemma per action of the step; each first  *)
(* says how the derived sets of tokens move.                               *)
(***************************************************************************)

\* The places and jobs hold finitely many tokens.
LEMMA TokensFinite ==
  ASSUME TypeOK
  PROVE  /\ IsFiniteSet(terms) /\ IsFiniteSet(computeJobs)
         /\ IsFiniteSet(Ready) /\ IsFiniteSet(mergeJobs)
         /\ IsFiniteSet(merged)
         /\ Cardinality(terms) \in Nat /\ Cardinality(computeJobs) \in Nat
         /\ Cardinality(Ready) \in Nat /\ Cardinality(mergeJobs) \in Nat
         /\ Cardinality(merged) \in Nat
<1>1. IsFiniteSet(Chunk)
  BY FS_Interval, SplitMaxAssumption DEF Chunk
<1>2. IsFiniteSet(Chunk \X Chunk)
  BY <1>1, FS_Product
<1>3. Ready \in SUBSET Chunk
  BY DEF Ready, TypeOK
<1>4. /\ IsFiniteSet(terms) /\ IsFiniteSet(computeJobs)
      /\ IsFiniteSet(Ready) /\ IsFiniteSet(mergeJobs) /\ IsFiniteSet(merged)
  BY <1>1, <1>2, <1>3, FS_Subset DEF TypeOK
<1>5. QED
  BY <1>4, FS_CardinalityType

\* A handler only runs while the step is under way.
LEMMA TokenMeansSplit ==
  ASSUME IInv, net = "running", Held # {}
  PROVE  Reducing /\ stepFiles = {"dectemp"} /\ toFile = {}
BY DEF IInv, StageMatchesFiles, Reducing, TypeOK, Statuses

LEMMA HeldInChunk ==
  ASSUME TypeOK
  PROVE  Held \subseteq Chunk
BY DEF Held, Ready, Merging, MergingLeft, MergingRight, TypeOK

LEMMA InitIInv == Init => IInv
<1> SUFFICES ASSUME Init PROVE IInv
  OBVIOUS
<1>1. TypeOK
  BY SplitMaxAssumption DEF Init, TypeOK, Statuses
<1>2. /\ Held = {} /\ Ready = {} /\ Merging = {}
      /\ MergingLeft = {} /\ MergingRight = {}
  BY DEF Init, Held, Ready, Merging, MergingLeft, MergingRight
<1>3. StageMatchesFiles
  BY <1>2 DEF Init, StageMatchesFiles
<1>4. JobsDisjoint
  BY <1>2 DEF Init, JobsDisjoint
<1>5. FilesMatchPlaces
  BY <1>2 DEF Init, FilesMatchPlaces
<1>6. TermsConserved /\ CounterExact /\ FailsOnlyByCancelling
  BY DEF Init, TermsConserved, CounterExact, FailsOnlyByCancelling, Reducing
<1>7. ChunksDealt
  BY <1>2 DEF ChunksDealt
<1>8. QED
  BY <1>1, <1>3, <1>4, <1>5, <1>6, <1>7 DEF IInv

LEMMA BeginComputeIInv ==
  ASSUME IInv, TypeOK', NEW c \in Chunk, BeginCompute(c)
  PROVE  IInv'
<1>0. c \in Held /\ net = "running" /\ net' = "running"
  BY DEF BeginCompute, Held
<1>1. Reducing /\ stepFiles = {"dectemp"} /\ toFile = {}
  BY <1>0, TokenMeansSplit
<1>2. /\ c \notin computeJobs \cup Ready \cup Merging \cup merged
      /\ terms' = terms \ {c} /\ computeJobs' = computeJobs \cup {c}
      /\ Ready' = Ready /\ Merging' = Merging /\ merged' = merged
      /\ MergingLeft' = MergingLeft /\ MergingRight' = MergingRight
      /\ Held' = Held /\ AllTerms' = AllTerms
  BY <1>0 DEF BeginCompute, Ready, Merging, MergingLeft, MergingRight, Held,
              AllTerms, IInv, JobsDisjoint
<1>3. \A d \in Chunk : Content(d)' = Content(d)
  BY <1>2 DEF Content, TermsOf, SplitCount, AllTerms, BeginCompute
<1>4. StageMatchesFiles'
  BY <1>0, <1>1, <1>2
     DEF StageMatchesFiles, IInv, BeginCompute, control, Reducing
<1>5. JobsDisjoint'
  BY <1>0, <1>2 DEF JobsDisjoint, IInv, BeginCompute
<1>6. FilesMatchPlaces'
  BY <1>0, <1>2 DEF FilesMatchPlaces, IInv, BeginCompute, TypeOK
<1>7. TermsConserved'
  BY <1>0, <1>1, <1>2, <1>3, HeldInChunk DEF TermsConserved, IInv
<1>8. CounterExact'
  <2>1. /\ Cardinality(terms') = Cardinality(terms) - 1
        /\ Cardinality(computeJobs') = Cardinality(computeJobs) + 1
    <3>1. IsFiniteSet(terms) /\ IsFiniteSet(computeJobs)
      BY TokensFinite DEF IInv
    <3>2. c \in terms /\ terms' = terms \ {c} /\ computeJobs' = computeJobs \cup {c}
      BY DEF BeginCompute
    <3>3. c \notin computeJobs
      BY <1>2
    <3>4. QED
      BY <3>1, <3>2, <3>3, FS_AddElement, FS_RemoveElement
  <2>2. computing' = computing /\ mergeJobs' = mergeJobs
    BY DEF BeginCompute, control
  <2>3. QED
    BY <1>1, <1>2, <2>1, <2>2, TokensFinite DEF CounterExact, IInv
<1>9. ChunksDealt'
  BY <1>0, <1>2 DEF ChunksDealt, IInv, AllChunks, SplitCount, BeginCompute
<1>10. QED
  BY <1>0, <1>4, <1>5, <1>6, <1>7, <1>8, <1>9 DEF IInv, FailsOnlyByCancelling

LEMMA EndComputeIInv ==
  ASSUME IInv, TypeOK', NEW c \in Chunk, EndCompute(c)
  PROVE  IInv'
<1>0. c \in Held /\ net = "running"
  BY DEF EndCompute, Held
<1>1. Reducing /\ stepFiles = {"dectemp"} /\ toFile = {}
  BY <1>0, TokenMeansSplit
<1>a. c \in chunkFile /\ ctime[c] # {}
  BY <1>0 DEF EndCompute, IInv, FilesMatchPlaces
<1>b. /\ net' = "running"
      /\ decomposed' = decomposed \cup {c}
      /\ chunkFile' = chunkFile \ {c}
      /\ result' = [result EXCEPT ![c] = TermsOf(c)]
  BY <1>0, <1>a DEF EndCompute
<1>2. /\ c \notin terms \cup Ready \cup Merging \cup merged
      /\ terms' = terms /\ computeJobs' = computeJobs \ {c}
      /\ Ready' = Ready \cup {c} /\ Merging' = Merging /\ merged' = merged
      /\ MergingLeft' = MergingLeft /\ MergingRight' = MergingRight
      /\ Held' = Held /\ AllTerms' = AllTerms
  BY <1>0, <1>b
     DEF EndCompute, Ready, Merging, MergingLeft, MergingRight, Held,
         AllTerms, IInv, JobsDisjoint
<1>c. c \in computeJobs
  BY DEF EndCompute
<1>e. AllChunks' = AllChunks
  BY DEF EndCompute, AllChunks, SplitCount
<1>3. \A d \in Chunk : Content(d)' = Content(d)
  <2>1. \A d \in Chunk : TermsOf(d)' = TermsOf(d)
    BY DEF EndCompute, TermsOf, SplitCount, AllTerms
  <2>2. result'[c] = TermsOf(c) /\ \A d \in Chunk \ {c} : result'[d] = result[d]
    BY <1>b DEF IInv, TypeOK
  <2>3. QED
    BY <1>2, <1>c, <2>1, <2>2 DEF Content
<1>d. TermsOf(c) # {}
  <2>1. c \in AllChunks
    BY <1>0 DEF IInv, ChunksDealt
  <2>2. QED
    BY <2>1, SplitCovers DEF IInv, TypeOK
<1>4. StageMatchesFiles'
  BY <1>0, <1>1, <1>2, <1>b
     DEF StageMatchesFiles, IInv, EndCompute, control, Reducing
<1>5. JobsDisjoint'
  BY <1>0, <1>2, <1>b, <1>c DEF JobsDisjoint, IInv, EndCompute, Ready
<1>6. FilesMatchPlaces'
  BY <1>0, <1>2, <1>b, <1>c, <1>d
     DEF FilesMatchPlaces, IInv, EndCompute, TypeOK
<1>7. TermsConserved'
  BY <1>0, <1>1, <1>2, <1>3, <1>b, HeldInChunk DEF TermsConserved, IInv
<1>8. CounterExact'
  <2>1. /\ Cardinality(computeJobs') = Cardinality(computeJobs) - 1
        /\ Cardinality(Ready') = Cardinality(Ready) + 1
    BY <1>c, <1>2, TokensFinite, FS_AddElement, FS_RemoveElement DEF IInv
  <2>2. computing' = computing /\ mergeJobs' = mergeJobs
    BY DEF EndCompute, control
  <2>3. QED
    BY <1>1, <1>2, <2>1, <2>2, TokensFinite DEF CounterExact, IInv
<1>9. ChunksDealt'
  BY <1>0, <1>2, <1>e DEF ChunksDealt, IInv
<1>10. QED
  BY <1>4, <1>5, <1>6, <1>7, <1>8, <1>9, <1>b DEF IInv, FailsOnlyByCancelling

LEMMA PopulateIInv ==
  ASSUME IInv, TypeOK', NEW c \in Chunk, PopulateLeft(c) \/ PopulateRight(c)
  PROVE  IInv'
<1>0. c \in Held /\ net = "running" /\ net' = "running"
  BY DEF PopulateLeft, PopulateRight, Held, Ready
<1>1. Reducing /\ stepFiles = {"dectemp"} /\ toFile = {}
  BY <1>0, TokenMeansSplit
<1>a. /\ terms' = terms /\ computeJobs' = computeJobs /\ merged' = merged
      /\ mergeJobs' = mergeJobs /\ computing' = computing /\ task' = task
      /\ termCount' = termCount /\ UNCHANGED files
  BY DEF PopulateLeft, PopulateRight
<1>2. /\ Ready' = Ready /\ Merging' = Merging
      /\ MergingLeft' = MergingLeft /\ MergingRight' = MergingRight
      /\ Held' = Held /\ AllTerms' = AllTerms
  BY <1>a DEF PopulateLeft, PopulateRight, Ready, Merging, MergingLeft,
              MergingRight, Held, AllTerms
<1>3. \A d \in Chunk : Content(d)' = Content(d)
  BY <1>a DEF Content, TermsOf, SplitCount, AllTerms, files
<1>4. StageMatchesFiles'
  BY <1>0, <1>1, <1>2, <1>a DEF StageMatchesFiles, IInv, files, Reducing
<1>5. JobsDisjoint'
  BY <1>0, <1>2, <1>a DEF JobsDisjoint, IInv, PopulateLeft, PopulateRight
<1>6. FilesMatchPlaces'
  BY <1>0, <1>2, <1>a DEF FilesMatchPlaces, IInv, files
<1>7. TermsConserved'
  BY <1>0, <1>1, <1>2, <1>3, HeldInChunk DEF TermsConserved, IInv
<1>8. CounterExact'
  BY <1>1, <1>2, <1>a DEF CounterExact, IInv
<1>9. ChunksDealt'
  BY <1>0, <1>2, <1>a DEF ChunksDealt, IInv, AllChunks, SplitCount
<1>10. QED
  BY <1>0, <1>4, <1>5, <1>6, <1>7, <1>8, <1>9 DEF IInv, FailsOnlyByCancelling

LEMMA BeginMergeIInv ==
  ASSUME IInv, TypeOK', NEW l \in Chunk, NEW r \in Chunk, BeginMerge(l, r)
  PROVE  IInv'
<1>0. l \in Held /\ r \in Held /\ net = "running"
  BY DEF BeginMerge, Held, Ready
<1>1. Reducing /\ stepFiles = {"dectemp"} /\ toFile = {}
  BY <1>0, TokenMeansSplit
<1>a. /\ l \in Ready /\ r \in Ready /\ l # r
      /\ l \notin terms \cup computeJobs \cup Merging \cup merged
      /\ r \notin terms \cup computeJobs \cup Merging \cup merged
      /\ l \notin decomposed \cup right /\ r \notin decomposed \cup left
  BY <1>0 DEF BeginMerge, Ready, IInv, JobsDisjoint
<1>b. net' = "running"
  BY <1>0, <1>a DEF BeginMerge, IInv, FilesMatchPlaces, Held, Merging
<1>c. /\ terms' = terms /\ computeJobs' = computeJobs /\ merged' = merged
      /\ decomposed' = decomposed /\ left' = left \ {l} /\ right' = right \ {r}
      /\ mergeJobs' = mergeJobs \cup {<<l, r>>} /\ task' = task
      /\ computing' = computing /\ termCount' = termCount /\ turn' = turn
      /\ stepFiles' = stepFiles /\ toFile' = toFile /\ result' = result
      /\ chunkFile' = chunkFile
  BY DEF BeginMerge, TakePair, control
<1>d. /\ mtime' = [mtime EXCEPT ![l] = mtime[l] \cup mtime[r], ![r] = {}]
      /\ ctime' = [ctime EXCEPT ![l] = ctime[l] \cup ctime[r], ![r] = {}]
  BY DEF BeginMerge, MergeTimes
<1>2. /\ Ready' = Ready \ {l, r}
      /\ MergingLeft' = MergingLeft \cup {l}
      /\ MergingRight' = MergingRight \cup {r}
      /\ Merging' = Merging \cup {l, r}
      /\ Held' = Held /\ AllTerms' = AllTerms /\ AllChunks' = AllChunks
  <2>1. Ready' = Ready \ {l, r}
    BY <1>a, <1>c DEF Ready
  <2>2. /\ MergingLeft' = MergingLeft \cup {l}
        /\ MergingRight' = MergingRight \cup {r}
    <3>1. <<l, r>>[1] = l /\ <<l, r>>[2] = r
      OBVIOUS
    <3>2. \A x : x \in MergingLeft' <=> x \in MergingLeft \/ x = l
      BY <1>c, <3>1 DEF MergingLeft
    <3>3. \A x : x \in MergingRight' <=> x \in MergingRight \/ x = r
      BY <1>c, <3>1 DEF MergingRight
    <3>4. QED
      BY <3>2, <3>3
  <2>3. Merging' = Merging \cup {l, r}
    BY <2>2 DEF Merging
  <2>4. QED
    BY <1>a, <1>c, <2>1, <2>2, <2>3 DEF Held, AllTerms, AllChunks, SplitCount
<1>3. \A d \in Chunk : Content(d)' = Content(d)
  BY <1>c DEF Content, TermsOf, SplitCount, AllTerms
<1>4. StageMatchesFiles'
  BY <1>1, <1>2, <1>c DEF StageMatchesFiles, Reducing
<1>5. JobsDisjoint'
  <2>1. /\ terms' \cap (computeJobs' \cup Ready' \cup Merging' \cup merged') = {}
        /\ computeJobs' \cap (Ready' \cup Merging' \cup merged') = {}
        /\ Ready' \cap (Merging' \cup merged') = {}
        /\ merged' \cap Merging' = {}
    BY <1>0, <1>2, <1>a, <1>c DEF JobsDisjoint, IInv
  <2>2. /\ decomposed' \cap (left' \cup right') = {} /\ left' \cap right' = {}
    BY <1>0, <1>c DEF JobsDisjoint, IInv
  <2>3. MergingLeft' \cap MergingRight' = {}
    BY <1>0, <1>2, <1>a DEF JobsDisjoint, IInv, Merging
  <2>4. \A j, k \in mergeJobs' : (j[1] = k[1] \/ j[2] = k[2]) => j = k
    <3>1. \A j \in mergeJobs : j[1] # l /\ j[2] # r
      BY <1>a DEF Merging, MergingLeft, MergingRight
    <3>2. \A j, k \in mergeJobs : (j[1] = k[1] \/ j[2] = k[2]) => j = k
      BY <1>0 DEF JobsDisjoint, IInv
    <3>3. QED
      BY <1>c, <3>1, <3>2
  <2>5. QED
    BY <2>1, <2>2, <2>3, <2>4 DEF JobsDisjoint
<1>6. FilesMatchPlaces'
  <2>1. /\ mtime'[r] = {} /\ mtime'[l] = mtime[l] \cup mtime[r]
        /\ ctime'[r] = {} /\ ctime'[l] = ctime[l] \cup ctime[r]
        /\ \A d \in Chunk \ {l, r} : mtime'[d] = mtime[d] /\ ctime'[d] = ctime[d]
    <3>1. /\ mtime \in [Chunk -> SUBSET Chunk] /\ ctime \in [Chunk -> SUBSET Chunk]
          /\ l # r
      BY <1>a DEF IInv, TypeOK
    <3>2. QED
      BY <1>d, <3>1
  <2>2. mtime[l] # {} /\ ctime[l] # {}
    BY <1>0, <1>a DEF IInv, FilesMatchPlaces, Held, Merging
  <2>3. MergingLeft \cap MergingRight = {}
    BY <1>0 DEF IInv, JobsDisjoint
  <2>4. QED
    BY <1>0, <1>a, <1>2, <1>c, <2>1, <2>2, <2>3
       DEF FilesMatchPlaces, IInv, Merging, Held
<1>7. TermsConserved'
  BY <1>1, <1>2, <1>3, <1>b, HeldInChunk DEF TermsConserved, IInv
<1>8. CounterExact'
  <2>1. Cardinality(Ready') = Cardinality(Ready) - 2
    <3>1. Cardinality(Ready \ {l}) = Cardinality(Ready) - 1
      BY <1>a, TokensFinite, FS_RemoveElement DEF IInv
    <3>2. IsFiniteSet(Ready \ {l})
      BY TokensFinite, FS_RemoveElement DEF IInv
    <3>3. Cardinality((Ready \ {l}) \ {r}) = Cardinality(Ready \ {l}) - 1
      BY <1>a, <3>2, FS_RemoveElement
    <3>4. Ready' = (Ready \ {l}) \ {r}
      BY <1>2
    <3>5. QED
      BY <3>1, <3>3, <3>4, TokensFinite DEF IInv
  <2>2. Cardinality(mergeJobs') = Cardinality(mergeJobs) + 1
    <3>1. <<l, r>> \notin mergeJobs
      BY <1>a DEF Merging, MergingLeft
    <3>2. QED
      BY <1>c, <3>1, TokensFinite, FS_AddElement DEF IInv
  <2>3. QED
    BY <1>1, <1>c, <2>1, <2>2, TokensFinite DEF CounterExact, IInv
<1>9. ChunksDealt'
  BY <1>0, <1>2 DEF ChunksDealt, IInv
<1>10. QED
  BY <1>4, <1>5, <1>6, <1>7, <1>8, <1>9, <1>b DEF IInv, FailsOnlyByCancelling

LEMMA EndMergeIInv ==
  ASSUME IInv, TypeOK', NEW l \in Chunk, NEW r \in Chunk, EndMerge(l, r)
  PROVE  IInv'
<1> DEFINE ok == {} \notin {result[l], result[r], mtime[l]} /\ SumNotEmpty(l, r)
<1>a. l \in MergingLeft /\ r \in MergingRight /\ net = "running"
  <2>1. <<l, r>>[1] = l /\ <<l, r>>[2] = r
    OBVIOUS
  <2>2. QED
    BY <2>1 DEF EndMerge, MergingLeft, MergingRight
<1>0. l \in Held /\ r \in Held
  BY <1>a DEF Held, Merging
<1>1. Reducing /\ stepFiles = {"dectemp"} /\ toFile = {}
  BY <1>0, <1>a, TokenMeansSplit
<1>b. /\ l \in Merging /\ r \in Merging /\ l # r
      /\ l \notin terms \cup computeJobs \cup Ready \cup merged
      /\ r \notin terms \cup computeJobs \cup Ready \cup merged
      /\ l \notin MergingRight /\ r \notin MergingLeft
  BY <1>a DEF IInv, JobsDisjoint, Merging
<1>c. {} \notin {result[l], result[r], mtime[l]}
  BY <1>0, <1>a, <1>b DEF IInv, FilesMatchPlaces
<1>d. CASE ~SumNotEmpty(l, r)
  <2>1. net' = "cancelled" /\ result' = result
    BY <1>d DEF EndMerge
  <2>2. FailsOnlyByCancelling'
    BY <1>b, <1>c, <1>d, <2>1 DEF FailsOnlyByCancelling, SumNotEmpty
  <2>3. QED
    BY <2>1, <2>2
       DEF IInv, StageMatchesFiles, ChunksDealt, JobsDisjoint, FilesMatchPlaces,
           TermsConserved, CounterExact, Reducing
<1>e. CASE SumNotEmpty(l, r)
  <2>a. /\ net' = "running"
        /\ result' = [result EXCEPT ![l] = result[l] \cup result[r], ![r] = {}]
        /\ merged' = merged \cup {l} /\ mergeJobs' = mergeJobs \ {<<l, r>>}
    BY <1>a, <1>c, <1>e DEF EndMerge, Survivor
  <2>b. /\ terms' = terms /\ computeJobs' = computeJobs
        /\ decomposed' = decomposed /\ left' = left /\ right' = right
        /\ task' = task /\ turn' = turn /\ computing' = computing
        /\ termCount' = termCount /\ stepFiles' = stepFiles /\ toFile' = toFile
        /\ chunkFile' = chunkFile /\ ctime' = ctime /\ mtime' = mtime
    BY DEF EndMerge, control
  <2>1. /\ MergingLeft' = MergingLeft \ {l}
        /\ MergingRight' = MergingRight \ {r}
    <3>0. /\ <<l, r>> \in mergeJobs
          /\ \A j, k \in mergeJobs : (j[1] = k[1] \/ j[2] = k[2]) => j = k
      BY <1>a DEF EndMerge, IInv, JobsDisjoint
    <3>1. <<l, r>>[1] = l /\ <<l, r>>[2] = r
      OBVIOUS
    <3>2. \A j \in mergeJobs : j # <<l, r>> => j[1] # l /\ j[2] # r
      BY <3>0, <3>1
    <3>3. \A x : x \in MergingLeft' <=> x \in MergingLeft /\ x # l
      BY <2>a, <3>1, <3>2 DEF MergingLeft
    <3>4. \A x : x \in MergingRight' <=> x \in MergingRight /\ x # r
      BY <2>a, <3>1, <3>2 DEF MergingRight
    <3>5. QED
      BY <3>3, <3>4
  <2>2. /\ Ready' = Ready /\ Merging' = Merging \ {l, r} /\ Held' = Held \ {r}
        /\ AllTerms' = AllTerms /\ AllChunks' = AllChunks
    <3>1. Ready' = Ready /\ AllTerms' = AllTerms /\ AllChunks' = AllChunks
      BY <2>b DEF Ready, AllTerms, AllChunks, SplitCount
    <3>2. Merging' = Merging \ {l, r}
      BY <1>b, <2>1 DEF Merging
    <3>3. QED
      BY <1>b, <2>a, <2>b, <3>1, <3>2 DEF Held
  <2>c. /\ result'[l] = result[l] \cup result[r] /\ result'[r] = {}
        /\ \A d \in Chunk \ {l, r} : result'[d] = result[d]
    <3>1. result \in [Chunk -> SUBSET Term]
      BY DEF IInv, TypeOK
    <3>2. QED
      BY <1>b, <2>a, <3>1
  <2>3. /\ Content(l)' = Content(l) \cup Content(r)
        /\ \A d \in Chunk \ {l, r} : Content(d)' = Content(d)
    BY <1>b, <2>b, <2>c DEF Content, TermsOf, SplitCount, AllTerms
  <2>4. StageMatchesFiles'
    BY <1>1, <2>b DEF StageMatchesFiles, Reducing
  <2>5. JobsDisjoint'
    BY <1>a, <1>b, <2>1, <2>2, <2>a, <2>b DEF JobsDisjoint, IInv
  <2>6. FilesMatchPlaces'
    BY <1>a, <1>b, <1>c, <2>1, <2>2, <2>a, <2>b, <2>c
       DEF FilesMatchPlaces, IInv
  <2>7. TermsConserved'
    <3>1. /\ \A d \in Held : Content(d) \subseteq AllTerms
          /\ \A i \in AllTerms : \E d \in Held : i \in Content(d)
          /\ \A d, e \in Held : d # e => Content(d) \cap Content(e) = {}
      BY <1>1 DEF TermsConserved, IInv
    <3>2. \A d \in Held' : Content(d)' \subseteq AllTerms'
      BY <1>0, <2>2, <2>3, <3>1, HeldInChunk DEF IInv
    <3>3. \A i \in AllTerms' : \E d \in Held' : i \in Content(d)'
      <4> SUFFICES ASSUME NEW i \in AllTerms
                   PROVE  \E d \in Held' : i \in Content(d)'
        BY <2>2
      <4>1. PICK d \in Held : i \in Content(d)
        BY <3>1
      <4>2. CASE d \in {l, r}
        BY <1>0, <1>b, <2>2, <2>3, <4>1, <4>2
      <4>3. CASE d \notin {l, r}
        BY <2>2, <2>3, <4>1, <4>3, HeldInChunk DEF IInv
      <4>4. QED
        BY <4>2, <4>3
    <3>4. \A d, e \in Held' : d # e => Content(d)' \cap Content(e)' = {}
      <4> SUFFICES ASSUME NEW d \in Held', NEW e \in Held', d # e
                   PROVE  Content(d)' \cap Content(e)' = {}
        OBVIOUS
      <4>0. d \in Held /\ e \in Held /\ d \in Chunk \ {r} /\ e \in Chunk \ {r}
        BY <2>2, HeldInChunk DEF IInv
      <4>1. CASE d = l
        BY <1>0, <2>3, <3>1, <4>0, <4>1
      <4>2. CASE e = l
        BY <1>0, <2>3, <3>1, <4>0, <4>2
      <4>3. CASE d # l /\ e # l
        BY <2>3, <3>1, <4>0, <4>3
      <4>4. QED
        BY <4>1, <4>2, <4>3
    <3>5. QED
      BY <3>2, <3>3, <3>4 DEF TermsConserved
  <2>8. CounterExact'
    <3>1. l \notin merged /\ <<l, r>> \in mergeJobs
      BY <1>b DEF EndMerge
    <3>2. /\ Cardinality(merged') = Cardinality(merged) + 1
          /\ Cardinality(mergeJobs') = Cardinality(mergeJobs) - 1
      BY <2>a, <3>1, TokensFinite, FS_AddElement, FS_RemoveElement DEF IInv
    <3>3. QED
      BY <1>1, <2>2, <2>b, <3>2, TokensFinite DEF CounterExact, IInv
  <2>9. ChunksDealt'
    BY <1>a, <2>2 DEF ChunksDealt, IInv
  <2>10. QED
    BY <2>4, <2>5, <2>6, <2>7, <2>8, <2>9, <2>a DEF IInv, FailsOnlyByCancelling
<1>2. QED
  BY <1>d, <1>e

LEMMA HandMergedBackIInv ==
  ASSUME IInv, TypeOK', NEW c \in Chunk, HandMergedBack(c)
  PROVE  IInv'
<1>0. c \in Held /\ net = "running" /\ net' = "running"
  BY DEF HandMergedBack, Held, files
<1>1. Reducing /\ stepFiles = {"dectemp"} /\ toFile = {}
  BY <1>0, TokenMeansSplit
<1>a. /\ terms' = terms /\ computeJobs' = computeJobs
      /\ merged' = merged \ {c} /\ decomposed' = decomposed \cup {c}
      /\ left' = left /\ right' = right /\ mergeJobs' = mergeJobs
      /\ task' = task /\ turn' = turn /\ termCount' = termCount
      /\ computing' = computing - 1 /\ UNCHANGED files /\ c \in merged
  BY DEF HandMergedBack, CountOneLess
<1>b. c \notin terms \cup computeJobs \cup Ready \cup Merging
  BY <1>0, <1>a DEF IInv, JobsDisjoint
<1>2. /\ Ready' = Ready \cup {c} /\ Merging' = Merging
      /\ MergingLeft' = MergingLeft /\ MergingRight' = MergingRight
      /\ Held' = Held /\ AllTerms' = AllTerms /\ AllChunks' = AllChunks
  BY <1>a DEF Ready, Merging, MergingLeft, MergingRight, Held, AllTerms,
              AllChunks, SplitCount
<1>3. \A d \in Chunk : Content(d)' = Content(d)
  BY <1>a DEF Content, TermsOf, SplitCount, AllTerms, files
<1>4. StageMatchesFiles'
  BY <1>1, <1>a DEF StageMatchesFiles, files, Reducing
<1>5. JobsDisjoint'
  BY <1>0, <1>2, <1>a, <1>b DEF JobsDisjoint, IInv, Ready
<1>6. FilesMatchPlaces'
  BY <1>0, <1>2, <1>a, <1>b DEF FilesMatchPlaces, IInv, files
<1>7. TermsConserved'
  BY <1>0, <1>1, <1>2, <1>3, HeldInChunk DEF TermsConserved, IInv
<1>8. CounterExact'
  <2>1. /\ Cardinality(merged') = Cardinality(merged) - 1
        /\ Cardinality(Ready') = Cardinality(Ready) + 1
    BY <1>2, <1>a, <1>b, TokensFinite, FS_AddElement, FS_RemoveElement DEF IInv
  <2>2. QED
    BY <1>1, <1>2, <1>a, <2>1, TokensFinite DEF CounterExact, IInv
<1>9. ChunksDealt'
  BY <1>0, <1>2 DEF ChunksDealt, IInv
<1>10. QED
  BY <1>0, <1>4, <1>5, <1>6, <1>7, <1>8, <1>9 DEF IInv, FailsOnlyByCancelling

\* When the count says that one token is left, that token stands for all of
\* the terms and nothing else is held anywhere.
LEMMA LastToken ==
  ASSUME IInv, Reducing, computing = 1, NEW c \in left
  PROVE  /\ Held = {c} /\ Ready = {c}
         /\ terms = {} /\ computeJobs = {} /\ mergeJobs = {} /\ merged = {}
         /\ result[c] = AllTerms
<1>1. c \in Ready /\ Cardinality(Ready) # 0
  BY TokensFinite, FS_EmptySet DEF IInv, Ready
<1>2. /\ Cardinality(Ready) = 1 /\ Cardinality(terms) = 0
      /\ Cardinality(computeJobs) = 0 /\ Cardinality(mergeJobs) = 0
      /\ Cardinality(merged) = 0
  BY <1>1, TokensFinite DEF IInv, CounterExact
<1>3. /\ terms = {} /\ computeJobs = {} /\ mergeJobs = {} /\ merged = {}
  BY <1>2, TokensFinite, FS_EmptySet DEF IInv
<1>4. Ready = {c}
  BY <1>1, <1>2, TokensFinite, FS_Singleton DEF IInv
<1>5. Held = {c}
  BY <1>3, <1>4 DEF Held, Merging, MergingLeft, MergingRight
<1>6. Content(c) = result[c]
  BY <1>3 DEF Content
<1>7. result[c] = AllTerms
  <2>1. Content(c) \subseteq AllTerms
    BY <1>5 DEF IInv, TermsConserved
  <2>2. \A i \in AllTerms : i \in Content(c)
    BY <1>5 DEF IInv, TermsConserved
  <2>3. QED
    BY <1>6, <2>1, <2>2
<1>8. QED
  BY <1>3, <1>4, <1>5, <1>7

LEMMA FinishStepIInv ==
  ASSUME IInv, TypeOK', NEW c \in Chunk, FinishStep(c)
  PROVE  IInv'
<1>0. c \in Held /\ c \in left /\ net = "running" /\ computing = 1
  BY DEF FinishStep, Held, Ready, OneTokenLeft
<1>1. Reducing /\ stepFiles = {"dectemp"} /\ toFile = {}
  BY <1>0, TokenMeansSplit
<1>2. /\ Held = {c} /\ Ready = {c} /\ result[c] = AllTerms
      /\ terms = {} /\ computeJobs = {} /\ mergeJobs = {} /\ merged = {}
  BY <1>0, <1>1, LastToken
<1>3. Merging = {} /\ MergingLeft = {} /\ MergingRight = {}
  BY <1>2 DEF Merging, MergingLeft, MergingRight
<1>4. {} \notin {ctime[c], mtime[c], result[c]}
  BY <1>0, <1>2, <1>3 DEF IInv, FilesMatchPlaces
<1>5. /\ net' = "running" /\ toFile' = AllTerms
      /\ result' = [result EXCEPT ![c] = {}] /\ stepFiles' = {}
      /\ task' = [place |-> "decomposition", status |-> 0]
  BY <1>0, <1>1, <1>2, <1>4 DEF FinishStep
<1>6. /\ left' = left \ {c} /\ turn' = "none" /\ computing' = 0
      /\ ctime' = [ctime EXCEPT ![c] = {}] /\ mtime' = [mtime EXCEPT ![c] = {}]
      /\ termCount' = termCount /\ terms' = terms /\ computeJobs' = computeJobs
      /\ decomposed' = decomposed /\ right' = right /\ mergeJobs' = mergeJobs
      /\ merged' = merged /\ chunkFile' = chunkFile
  BY DEF FinishStep
<1>7. /\ Ready' = {} /\ Held' = {} /\ Merging' = {}
      /\ MergingLeft' = {} /\ MergingRight' = {}
      /\ decomposed' = {} /\ left' = {} /\ right' = {}
  <2>1. c \notin decomposed \cup right
    BY <1>0 DEF IInv, JobsDisjoint
  <2>2. decomposed = {} /\ right = {} /\ left = {c}
    BY <1>0, <1>2, <2>1 DEF Ready
  <2>3. QED
    BY <1>2, <1>6, <2>2 DEF Ready, Held, Merging, MergingLeft, MergingRight
<1>8. /\ task'.place = "decomposition" /\ AllTerms' = AllTerms
  BY <1>5, <1>6 DEF AllTerms
<1>9. StageMatchesFiles'
  BY <1>5, <1>6, <1>7, <1>8 DEF StageMatchesFiles
<1>10. JobsDisjoint' /\ ChunksDealt'
  BY <1>2, <1>6, <1>7 DEF JobsDisjoint, ChunksDealt
<1>11. FilesMatchPlaces'
  <2>1. \A d \in Chunk :
          /\ result'[d] = IF d = c THEN {} ELSE result[d]
          /\ ctime'[d] = IF d = c THEN {} ELSE ctime[d]
          /\ mtime'[d] = IF d = c THEN {} ELSE mtime[d]
    BY <1>5, <1>6 DEF IInv, TypeOK
  <2>2. \A d \in Chunk \ {c} :
          result[d] = {} /\ ctime[d] = {} /\ mtime[d] = {}
    BY <1>0, <1>2, <1>3 DEF IInv, FilesMatchPlaces
  <2>3. \A d \in Chunk : d \notin chunkFile
    BY <1>0, <1>2 DEF IInv, FilesMatchPlaces
  <2>4. QED
    BY <1>2, <1>6, <1>7, <2>1, <2>2, <2>3 DEF FilesMatchPlaces
<1>12. TermsConserved' /\ CounterExact'
  BY <1>8 DEF TermsConserved, CounterExact, Reducing
<1>13. QED
  BY <1>5, <1>9, <1>10, <1>11, <1>12 DEF IInv, FailsOnlyByCancelling

LEMMA SkipIInv ==
  ASSUME IInv, TypeOK', CheckSkip \/ SkipStep
  PROVE  IInv'
<1>1. /\ net = "running" /\ task.place \in {"in", "skip_in"}
      /\ stepFiles = {"from"} /\ Held = {} /\ computing = 0 /\ turn = "none"
      /\ toFile = {}
  BY DEF CheckSkip, SkipStep, IInv, StageMatchesFiles
<1>2. /\ UNCHANGED tokens /\ UNCHANGED <<turn, computing>>
      /\ UNCHANGED <<termCount, chunkFile, result, ctime, mtime>>
      /\ net' = net
      /\ \/ task'.place = "skip_in" /\ UNCHANGED <<stepFiles, toFile>>
         \/ /\ task'.place = "decomposition"
            /\ stepFiles' = {} /\ toFile' = AllTerms
  BY <1>1 DEF CheckSkip, SkipStep, files
<1>3. /\ Held' = Held /\ Ready' = Ready /\ Merging' = Merging
      /\ MergingLeft' = MergingLeft /\ MergingRight' = MergingRight
      /\ AllTerms' = AllTerms
  BY <1>2
     DEF tokens, Held, Ready, Merging, MergingLeft, MergingRight, AllTerms
<1>4. StageMatchesFiles'
  BY <1>1, <1>2, <1>3 DEF StageMatchesFiles
<1>5. JobsDisjoint' /\ ChunksDealt' /\ FilesMatchPlaces'
  BY <1>1, <1>2, <1>3
     DEF IInv, JobsDisjoint, ChunksDealt, FilesMatchPlaces, tokens
<1>6. TermsConserved' /\ CounterExact' /\ FailsOnlyByCancelling'
  BY <1>1, <1>2
     DEF TermsConserved, CounterExact, FailsOnlyByCancelling, Reducing
<1>7. QED
  BY <1>4, <1>5, <1>6 DEF IInv

LEMMA SplitInitIInv ==
  ASSUME IInv, TypeOK', SplitInit
  PROVE  IInv'
<1>1. /\ net = "running" /\ task.place = "skip_in"
      /\ stepFiles = {"from"} /\ Held = {} /\ toFile = {}
  BY DEF SplitInit, IInv, StageMatchesFiles
<1>2. /\ net' = "running" /\ terms' = AllChunks /\ computing' = SplitCount
      /\ turn' = "l_active" /\ task' = [place |-> "split", status |-> 0]
      /\ chunkFile' = AllChunks /\ stepFiles' = {"dectemp"}
      /\ mtime' = FreshMergeTimes
  BY <1>1 DEF SplitInit
<1>3. /\ computeJobs' = {} /\ decomposed' = {} /\ left' = {} /\ right' = {}
      /\ mergeJobs' = {} /\ merged' = {} /\ toFile' = {}
      /\ result' = result /\ ctime' = ctime /\ termCount' = termCount
  <2>1. /\ computeJobs = {} /\ decomposed = {} /\ left = {} /\ right = {}
        /\ MergingLeft = {} /\ merged = {}
    BY <1>1 DEF Held, Ready, Merging
  <2>2. mergeJobs = {}
    BY <2>1 DEF MergingLeft
  <2>3. QED
    BY <1>1, <2>1, <2>2 DEF SplitInit
<1>4. /\ Ready' = {} /\ Merging' = {} /\ MergingLeft' = {} /\ MergingRight' = {}
      /\ Held' = AllChunks /\ AllTerms' = AllTerms /\ AllChunks' = AllChunks
  BY <1>2, <1>3
     DEF Ready, Merging, MergingLeft, MergingRight, Held, AllTerms, AllChunks,
         SplitCount
<1>5. /\ SplitCount \in 1 .. SplitMax /\ AllChunks \subseteq Chunk
  BY SplitCountBounds DEF IInv, TypeOK
<1>6. task'.place = "split"
  BY <1>2
<1>7. StageMatchesFiles'
  BY <1>2, <1>3, <1>6 DEF StageMatchesFiles
<1>8. JobsDisjoint' /\ ChunksDealt'
  BY <1>2, <1>3, <1>4 DEF JobsDisjoint, ChunksDealt
<1>9. FilesMatchPlaces'
  <2>1. \A d \in Chunk : /\ result[d] = {} /\ ctime[d] = {} /\ mtime[d] = {}
    BY <1>1 DEF IInv, FilesMatchPlaces, Held, Merging
  <2>2. \A d \in Chunk : mtime'[d] = IF d \in AllChunks THEN {d} ELSE {}
    BY <1>2, <2>1 DEF FreshMergeTimes
  <2>3. QED
    BY <1>2, <1>3, <1>4, <2>1, <2>2 DEF FilesMatchPlaces
<1>10. TermsConserved'
  <2>1. \A d \in AllChunks : Content(d)' = TermsOf(d)
    BY <1>2, <1>3 DEF Content, TermsOf, SplitCount, AllTerms
  <2>2. /\ \A d \in AllChunks : TermsOf(d) \subseteq AllTerms
        /\ \A i \in AllTerms : \E d \in AllChunks : i \in TermsOf(d)
    BY <1>5, SplitCovers DEF IInv, TypeOK
  <2>3. \A d, e \in AllChunks : d # e => TermsOf(d) \cap TermsOf(e) = {}
    BY DEF TermsOf
  <2>4. QED
    BY <1>4, <2>1, <2>2, <2>3 DEF TermsConserved
<1>11. CounterExact'
  <2>1. Cardinality(AllChunks) = SplitCount
    BY <1>5, FS_Interval, SplitMaxAssumption DEF AllChunks
  <2>2. QED
    BY <1>2, <1>3, <1>4, <1>5, <2>1, FS_EmptySet, SplitMaxAssumption
       DEF CounterExact
<1>12. QED
  BY <1>2, <1>7, <1>8, <1>9, <1>10, <1>11 DEF IInv, FailsOnlyByCancelling

-----------------------------------------------------------------------------

LEMMA StepIInv ==
  ASSUME IInv, [Next]_vars
  PROVE  IInv'
<1>0. TypeOK'
  BY TypeStep DEF IInv
<1>1. CASE CheckSkip \/ SkipStep
  BY <1>0, <1>1, SkipIInv
<1>2. CASE SplitInit
  BY <1>0, <1>2, SplitInitIInv
<1>3. ASSUME NEW c \in Chunk, BeginCompute(c)
      PROVE  IInv'
  BY <1>0, <1>3, BeginComputeIInv
<1>4. ASSUME NEW c \in Chunk, EndCompute(c)
      PROVE  IInv'
  BY <1>0, <1>4, EndComputeIInv
<1>5. ASSUME NEW c \in Chunk, PopulateLeft(c) \/ PopulateRight(c)
      PROVE  IInv'
  BY <1>0, <1>5, PopulateIInv
<1>6. ASSUME NEW l \in Chunk, NEW r \in Chunk, BeginMerge(l, r)
      PROVE  IInv'
  BY <1>0, <1>6, BeginMergeIInv
<1>7. ASSUME NEW l \in Chunk, NEW r \in Chunk, EndMerge(l, r)
      PROVE  IInv'
  BY <1>0, <1>7, EndMergeIInv
<1>8. ASSUME NEW c \in Chunk, HandMergedBack(c)
      PROVE  IInv'
  BY <1>0, <1>8, HandMergedBackIInv
<1>9. ASSUME NEW c \in Chunk, FinishStep(c)
      PROVE  IInv'
  BY <1>0, <1>9, FinishStepIInv
<1>10. CASE Stopped \/ UNCHANGED vars
  <2>1. UNCHANGED vars
    BY <1>10 DEF Stopped
  <2>2. /\ UNCHANGED <<termCount, task, turn, computing, net>>
        /\ UNCHANGED tokens /\ UNCHANGED files
    BY <2>1 DEF vars, control
  <2>3. /\ UNCHANGED <<AllTerms, AllChunks, Ready, Merging, MergingLeft>>
        /\ UNCHANGED <<MergingRight, Held, Reducing>>
        /\ \A d \in Chunk : Content(d)' = Content(d)
    BY <2>2
       DEF AllTerms, AllChunks, SplitCount, Ready, Merging, MergingLeft,
           MergingRight, Held, Reducing, Content, TermsOf, tokens, files
  <2>4. /\ StageMatchesFiles' /\ ChunksDealt' /\ FailsOnlyByCancelling'
    BY <2>2, <2>3
       DEF IInv, StageMatchesFiles, ChunksDealt, FailsOnlyByCancelling, files
  <2>5. JobsDisjoint' /\ FilesMatchPlaces' /\ CounterExact'
    BY <2>2, <2>3
       DEF IInv, JobsDisjoint, FilesMatchPlaces, CounterExact, tokens, files
  <2>6. TermsConserved'
    BY <2>3, HeldInChunk DEF IInv, TermsConserved
  <2>7. QED
    BY <1>0, <2>4, <2>5, <2>6 DEF IInv
<1>11. QED
  BY <1>1, <1>2, <1>3, <1>4, <1>5, <1>6, <1>7, <1>8, <1>9, <1>10 DEF Next

\* The inductive invariant holds throughout every run of the step.
THEOREM Invariance == Spec => []IInv
BY InitIInv, StepIInv, PTL DEF Spec

\* No interleaving of split, computations, merges and hand-backs loses a term
\* or adds it into the sum twice.
THEOREM TermsAreConserved == Spec => []TermsConserved
<1>1. IInv => TermsConserved
  BY DEF IInv
<1>2. QED
  BY <1>1, Invariance, PTL

\* counts.computing is exact, so that its value 1 means that one token is left.
THEOREM CounterIsExact == Spec => []CounterExact
<1>1. IInv => CounterExact
  BY DEF IInv
<1>2. QED
  BY <1>1, Invariance, PTL

\* Handlers that run at the same time share no file.
THEOREM JobsAreDisjoint == Spec => []JobsDisjoint
<1>1. IInv => JobsDisjoint
  BY DEF IInv
<1>2. QED
  BY <1>1, Invariance, PTL

\* Every handler finds the files it reads.
THEOREM FilesMatch == Spec => []FilesMatchPlaces
<1>1. IInv => FilesMatchPlaces
  BY DEF IInv
<1>2. QED
  BY <1>1, Invariance, PTL

\* The net is cancelled for no other reason than a sum that cancels.
THEOREM FailsOnlyByCancellation == Spec => []FailsOnlyByCancelling
<1>1. IInv => FailsOnlyByCancelling
  BY DEF IInv
<1>2. QED
  BY <1>1, Invariance, PTL

\* A step that hands its token on has decomposed all the terms and leaves
\* neither token nor file behind.
THEOREM OutputComplete == Spec => []OutComplete
<1>1. IInv => OutComplete
  <2> SUFFICES ASSUME IInv, task.place = "decomposition", net = "running"
               PROVE  OutComplete
    BY DEF OutComplete
  <2>1. /\ toFile = AllTerms /\ Held = {} /\ computing = 0 /\ turn = "none"
        /\ stepFiles = {}
    BY DEF IInv, StageMatchesFiles
  <2>2. \A c \in Chunk : /\ c \notin chunkFile /\ result[c] = {}
                         /\ ctime[c] = {} /\ mtime[c] = {}
    BY <2>1 DEF IInv, FilesMatchPlaces, Held, Merging
  <2>3. chunkFile = {}
    BY <2>2 DEF IInv, TypeOK
  <2>4. QED
    BY <2>1, <2>2, <2>3 DEF OutComplete
<1>2. QED
  BY <1>1, Invariance, PTL

-----------------------------------------------------------------------------
(***************************************************************************)
(* The turns of the two sides.                                             *)
(***************************************************************************)

\* The tokens of the left side and of the right one can be counted.
LEMMA SidesFinite ==
  ASSUME TypeOK
  PROVE  /\ IsFiniteSet(left) /\ IsFiniteSet(right)
         /\ Cardinality(left) \in Nat /\ Cardinality(right) \in Nat
<1>1. IsFiniteSet(Chunk)
  BY FS_Interval, SplitMaxAssumption DEF Chunk
<1>2. IsFiniteSet(left) /\ IsFiniteSet(right)
  BY <1>1, FS_Subset DEF TypeOK
<1>3. QED
  BY <1>2, FS_CardinalityType

\* Every action that puts a token on a side passes the turn to the other one.
LEMMA TurnsStep ==
  ASSUME IInv, TurnsAlternate, [Next]_vars
  PROVE  TurnsAlternate'
<1> SUFFICES ASSUME Reducing'
             PROVE  /\ turn' # "none"
                    /\ Cardinality(left') = Cardinality(right')
                                + (IF turn' = "r_active" THEN 1 ELSE 0)
  BY DEF TurnsAlternate
<1>0. /\ turn \in {"none", "l_active", "r_active"}
      /\ IsFiniteSet(left) /\ IsFiniteSet(right)
      /\ Cardinality(left) \in Nat /\ Cardinality(right) \in Nat
  BY SidesFinite DEF IInv, TypeOK
<1>1. CASE CheckSkip \/ SkipStep
  BY <1>1 DEF CheckSkip, SkipStep, Reducing
<1>2. CASE SplitInit
  <2>1. net = "running" /\ Held = {}
    BY <1>2 DEF SplitInit, IInv, StageMatchesFiles
  <2>2. left' = {} /\ right' = {}
    BY <1>2, <2>1 DEF SplitInit, Held, Ready
  <2>3. turn' = "l_active"
    BY <1>2 DEF SplitInit, Reducing
  <2>4. QED
    BY <2>2, <2>3, FS_EmptySet
<1>3. ASSUME NEW c \in Chunk,
             BeginCompute(c) \/ EndCompute(c) \/ HandMergedBack(c)
      PROVE  /\ turn' # "none"
             /\ Cardinality(left') = Cardinality(right')
                         + (IF turn' = "r_active" THEN 1 ELSE 0)
  <2>1. /\ UNCHANGED <<task, turn, left, right>> /\ net = "running"
    BY <1>3 DEF BeginCompute, EndCompute, HandMergedBack, control
  <2>2. QED
    BY <2>1 DEF TurnsAlternate, Reducing
<1>4. ASSUME NEW c \in Chunk, PopulateLeft(c) \/ PopulateRight(c)
      PROVE  /\ turn' # "none"
             /\ Cardinality(left') = Cardinality(right')
                         + (IF turn' = "r_active" THEN 1 ELSE 0)
  <2>1. /\ UNCHANGED task /\ net = "running" /\ c \in decomposed
        /\ \/ /\ turn = "l_active" /\ turn' = "r_active"
              /\ left' = left \cup {c} /\ right' = right
           \/ /\ turn = "r_active" /\ turn' = "l_active"
              /\ left' = left /\ right' = right \cup {c}
    BY <1>4 DEF PopulateLeft, PopulateRight, TurnToRight, TurnToLeft
  <2>2. c \notin left /\ c \notin right
    BY <2>1 DEF IInv, JobsDisjoint
  <2>3. /\ Cardinality(left \cup {c}) = Cardinality(left) + 1
        /\ Cardinality(right \cup {c}) = Cardinality(right) + 1
    BY <1>0, <2>2, FS_AddElement
  <2>4. Cardinality(left) = Cardinality(right)
                              + (IF turn = "r_active" THEN 1 ELSE 0)
    BY <2>1 DEF TurnsAlternate, Reducing
  <2>5. CASE turn = "l_active"
    <3>1. turn' = "r_active" /\ left' = left \cup {c} /\ right' = right
      BY <2>1, <2>5
    <3>2. Cardinality(left) = Cardinality(right)
      BY <1>0, <2>4, <2>5
    <3>3. Cardinality(left') = Cardinality(right') + 1
      BY <1>0, <2>3, <3>1, <3>2
    <3>4. QED
      BY <3>1, <3>3
  <2>6. CASE turn = "r_active"
    <3>1. turn' = "l_active" /\ left' = left /\ right' = right \cup {c}
      BY <2>1, <2>6
    <3>2. Cardinality(left') = Cardinality(right')
      BY <1>0, <2>3, <2>4, <2>6, <3>1
    <3>3. QED
      BY <1>0, <3>1, <3>2
  <2>7. QED
    BY <2>1, <2>5, <2>6
<1>5. ASSUME NEW l \in Chunk, NEW r \in Chunk, BeginMerge(l, r)
      PROVE  /\ turn' # "none"
             /\ Cardinality(left') = Cardinality(right')
                         + (IF turn' = "r_active" THEN 1 ELSE 0)
  <2>1. /\ UNCHANGED <<task, turn>> /\ net = "running"
        /\ l \in left /\ left' = left \ {l} /\ r \in right /\ right' = right \ {r}
    BY <1>5 DEF BeginMerge, TakePair, control
  <2>2. /\ Cardinality(left \ {l}) = Cardinality(left) - 1
        /\ Cardinality(right \ {r}) = Cardinality(right) - 1
    BY <1>0, <2>1, FS_RemoveElement
  <2>3. /\ turn # "none"
        /\ Cardinality(left) = Cardinality(right)
                                 + (IF turn = "r_active" THEN 1 ELSE 0)
    BY <2>1 DEF TurnsAlternate, Reducing
  <2>4. QED
    BY <1>0, <2>1, <2>2, <2>3
<1>6. ASSUME NEW l \in Chunk, NEW r \in Chunk, EndMerge(l, r)
      PROVE  /\ turn' # "none"
             /\ Cardinality(left') = Cardinality(right')
                         + (IF turn' = "r_active" THEN 1 ELSE 0)
  <2>1. /\ UNCHANGED <<task, turn, left, right>> /\ net = "running"
    BY <1>6 DEF EndMerge, control
  <2>2. QED
    BY <2>1 DEF TurnsAlternate, Reducing
<1>7. ASSUME NEW c \in Chunk, FinishStep(c)
      PROVE  FALSE
  <2>1. net' = "running" /\ task'.place = "split"
    BY DEF Reducing
  <2>2. net = "running"
    BY <1>7 DEF FinishStep
  <2>3. task' = [place |-> "decomposition", status |-> 0]
    BY <1>7, <2>1, <2>2 DEF FinishStep
  <2>4. QED
    BY <2>1, <2>3
<1>8. CASE Stopped \/ UNCHANGED vars
  <2>1. UNCHANGED <<task, net, turn, left, right>>
    BY <1>8 DEF Stopped, vars, tokens, control
  <2>2. QED
    BY <2>1 DEF TurnsAlternate, Reducing
<1>9. QED
  BY <1>1, <1>2, <1>3, <1>4, <1>5, <1>6, <1>7, <1>8 DEF Next

\* The left side never runs more than one token ahead of the right one.
THEOREM TurnsDoAlternate == Spec => []TurnsAlternate
<1>1. Init => TurnsAlternate
  BY DEF Init, TurnsAlternate, Reducing
<1>2. QED
  BY <1>1, TurnsStep, Invariance, PTL DEF Spec

-----------------------------------------------------------------------------
(***************************************************************************)
(* The times of the chunks.                                                *)
(***************************************************************************)

\* The terms of a set of chunks.
TermsOfAll(S) == UNION {TermsOf(c) : c \in S}

\* TimesMatchResults, with what becomes the time of a token before it has been
\* decomposed and while it is being merged: the times of a pair are joined
\* before their results are.
TimesFollow ==
  net = "running" =>
    /\ \A c \in terms \cup computeJobs : mtime[c] = {c}
    /\ \A c \in computeJobs : ctime[c] = {c}
    /\ \A c \in Ready \cup merged :
         mtime[c] = ctime[c] /\ result[c] = TermsOfAll(ctime[c])
    /\ \A j \in mergeJobs :
         /\ mtime[j[1]] = ctime[j[1]]
         /\ result[j[1]] \cup result[j[2]] = TermsOfAll(ctime[j[1]])

LEMMA TermsOfAllFacts ==
  /\ \A c : TermsOfAll({c}) = TermsOf(c)
  /\ \A S, T : TermsOfAll(S \cup T) = TermsOfAll(S) \cup TermsOfAll(T)
BY DEF TermsOfAll

\* The chunks do not change while the net runs.
LEMMA TermsOfAllKept ==
  ASSUME UNCHANGED termCount
  PROVE  \A S : TermsOfAll(S)' = TermsOfAll(S)
BY DEF TermsOfAll, TermsOf, SplitCount, AllTerms

LEMMA TimesStep ==
  ASSUME IInv, TimesFollow, [Next]_vars
  PROVE  TimesFollow'
<1> SUFFICES ASSUME net' = "running"
             PROVE  TimesFollow'
  BY DEF TimesFollow
<1>0. \A S : TermsOfAll(S)' = TermsOfAll(S)
  <2>1. UNCHANGED termCount
    BY DEF Next, CheckSkip, SkipStep, SplitInit, BeginCompute, EndCompute,
           PopulateLeft, PopulateRight, BeginMerge, EndMerge, HandMergedBack,
           FinishStep, Stopped, vars
  <2>2. QED
    BY <2>1, TermsOfAllKept
<1>t. /\ result \in [Chunk -> SUBSET Term] /\ ctime \in [Chunk -> SUBSET Chunk]
      /\ mtime \in [Chunk -> SUBSET Chunk]
      /\ terms \cup computeJobs \cup Ready \cup merged \subseteq Chunk
      /\ mergeJobs \subseteq Chunk \X Chunk
  BY DEF IInv, TypeOK, Ready
<1>1. CASE CheckSkip \/ SkipStep \/ Stopped \/ UNCHANGED vars
  <2>1. /\ UNCHANGED tokens /\ UNCHANGED <<result, ctime, mtime>>
        /\ net = "running"
    BY <1>1 DEF CheckSkip, SkipStep, Stopped, vars, files
  <2>2. QED
    BY <1>0, <2>1 DEF TimesFollow, tokens, Ready
<1>2. CASE SplitInit
  <2>1. net = "running" /\ Held = {}
    BY <1>2 DEF SplitInit, IInv, StageMatchesFiles
  <2>2. /\ computeJobs = {} /\ Ready = {} /\ merged = {} /\ MergingLeft = {}
    BY <2>1 DEF Held, Merging
  <2>3. mergeJobs = {}
    BY <2>2 DEF MergingLeft
  <2>4. /\ terms' = AllChunks /\ mtime' = FreshMergeTimes
        /\ computeJobs' = {} /\ Ready' = {} /\ merged' = {} /\ mergeJobs' = {}
    BY <1>2, <2>2, <2>3 DEF SplitInit, Ready
  <2>5. \A c \in AllChunks : mtime'[c] = {c}
    <3>1. AllChunks \subseteq Chunk
      BY SplitCountBounds DEF IInv, TypeOK
    <3>2. QED
      BY <2>4, <3>1 DEF FreshMergeTimes
  <2>6. QED
    BY <2>4, <2>5 DEF TimesFollow
<1>3. ASSUME NEW c \in Chunk, BeginCompute(c)
      PROVE  TimesFollow'
  <2>1. /\ net = "running" /\ c \in terms
        /\ terms' = terms \ {c} /\ computeJobs' = computeJobs \cup {c}
        /\ Ready' = Ready /\ merged' = merged /\ mergeJobs' = mergeJobs
        /\ result' = result /\ mtime' = mtime
        /\ ctime' = [ctime EXCEPT ![c] = {c}]
    BY <1>3 DEF BeginCompute, Ready
  <2>2. c \notin Ready \cup merged /\ \A j \in mergeJobs : j[1] # c
    BY <2>1 DEF IInv, JobsDisjoint, Merging, MergingLeft
  <2>3. /\ ctime'[c] = {c} /\ \A d \in Chunk \ {c} : ctime'[d] = ctime[d]
    BY <1>t, <2>1
  <2>4. \A d \in terms' \cup computeJobs' : mtime'[d] = {d}
    BY <2>1 DEF TimesFollow
  <2>5. \A d \in computeJobs' : ctime'[d] = {d}
    BY <1>t, <2>1, <2>3 DEF TimesFollow
  <2>6. \A d \in Ready' \cup merged' :
          mtime'[d] = ctime'[d] /\ result'[d] = TermsOfAll(ctime'[d])
    BY <1>t, <2>1, <2>2, <2>3 DEF TimesFollow
  <2>7. \A j \in mergeJobs' : ctime'[j[1]] = ctime[j[1]]
    BY <1>t, <2>1, <2>2, <2>3
  <2>8. QED
    BY <1>0, <2>1, <2>4, <2>5, <2>6, <2>7 DEF TimesFollow
<1>4. ASSUME NEW c \in Chunk, EndCompute(c)
      PROVE  TimesFollow'
  <2>1. /\ net = "running" /\ c \in computeJobs
        /\ terms' = terms /\ computeJobs' = computeJobs \ {c}
        /\ Ready' = Ready \cup {c} /\ merged' = merged /\ mergeJobs' = mergeJobs
        /\ ctime' = ctime /\ mtime' = mtime
        /\ result' = [result EXCEPT ![c] = TermsOf(c)]
    BY <1>4 DEF EndCompute, Ready
  <2>2. /\ c \notin Ready \cup merged
        /\ \A j \in mergeJobs : j[1] # c /\ j[2] # c
    BY <2>1 DEF IInv, JobsDisjoint, Merging, MergingLeft, MergingRight
  <2>3. /\ result'[c] = TermsOfAll({c})
        /\ \A d \in Chunk \ {c} : result'[d] = result[d]
    BY <1>t, <2>1, TermsOfAllFacts
  <2>4. \A d \in terms' \cup computeJobs' : mtime'[d] = {d}
    BY <2>1 DEF TimesFollow
  <2>5. \A d \in computeJobs' : ctime'[d] = {d}
    BY <2>1 DEF TimesFollow
  <2>6. \A d \in Ready' \cup merged' :
          mtime'[d] = ctime'[d] /\ result'[d] = TermsOfAll(ctime'[d])
    <3>1. mtime[c] = {c} /\ ctime[c] = {c}
      BY <2>1 DEF TimesFollow
    <3>2. \A d \in Ready \cup merged :
            mtime[d] = ctime[d] /\ result[d] = TermsOfAll(ctime[d])
      BY <2>1 DEF TimesFollow
    <3>3. QED
      BY <1>t, <2>1, <2>2, <2>3, <3>1, <3>2
  <2>7. \A j \in mergeJobs' :
          result'[j[1]] = result[j[1]] /\ result'[j[2]] = result[j[2]]
    BY <1>t, <2>1, <2>2, <2>3
  <2>8. QED
    BY <1>0, <2>1, <2>4, <2>5, <2>6, <2>7 DEF TimesFollow
<1>5. ASSUME NEW c \in Chunk,
             PopulateLeft(c) \/ PopulateRight(c) \/ HandMergedBack(c)
      PROVE  TimesFollow'
  <2>1. /\ net = "running"
        /\ terms' = terms /\ computeJobs' = computeJobs
        /\ mergeJobs' = mergeJobs /\ UNCHANGED <<result, ctime, mtime>>
    BY <1>5 DEF PopulateLeft, PopulateRight, HandMergedBack, files
  <2>2. Ready' \cup merged' = Ready \cup merged
    BY <1>5 DEF PopulateLeft, PopulateRight, HandMergedBack, Ready
  <2>3. QED
    BY <1>0, <2>1, <2>2 DEF TimesFollow
<1>6. ASSUME NEW l \in Chunk, NEW r \in Chunk, BeginMerge(l, r)
      PROVE  TimesFollow'
  <2>1. /\ net = "running" /\ l \in Ready /\ r \in Ready /\ l # r
        /\ terms' = terms /\ computeJobs' = computeJobs /\ merged' = merged
        /\ mergeJobs' = mergeJobs \cup {<<l, r>>} /\ result' = result
        /\ mtime' = [mtime EXCEPT ![l] = mtime[l] \cup mtime[r], ![r] = {}]
        /\ ctime' = [ctime EXCEPT ![l] = ctime[l] \cup ctime[r], ![r] = {}]
    BY <1>6 DEF BeginMerge, TakePair, MergeTimes, Ready, IInv, JobsDisjoint
  <2>2. Ready' = Ready \ {l, r}
    BY <1>6 DEF BeginMerge, TakePair, Ready, IInv, JobsDisjoint
  <2>3. /\ l \notin terms \cup computeJobs \cup merged
        /\ r \notin terms \cup computeJobs \cup merged
        /\ \A j \in mergeJobs : j[1] \notin {l, r}
    BY <2>1 DEF IInv, JobsDisjoint, Merging, MergingLeft
  <2>4. /\ mtime'[l] = mtime[l] \cup mtime[r]
        /\ ctime'[l] = ctime[l] \cup ctime[r]
        /\ \A d \in Chunk \ {l, r} : mtime'[d] = mtime[d] /\ ctime'[d] = ctime[d]
    BY <1>t, <2>1
  <2>5. /\ \A d \in terms' \cup computeJobs' : mtime'[d] = {d}
        /\ \A d \in computeJobs' : ctime'[d] = {d}
    BY <1>t, <2>1, <2>3, <2>4 DEF TimesFollow
  <2>6. \A d \in Ready' \cup merged' :
          mtime'[d] = ctime'[d] /\ result'[d] = TermsOfAll(ctime'[d])
    BY <1>t, <2>1, <2>2, <2>3, <2>4 DEF TimesFollow
  <2>7. /\ mtime'[l] = ctime'[l]
        /\ result'[l] \cup result'[r] = TermsOfAll(ctime'[l])
    <3>1. /\ mtime[l] = ctime[l] /\ result[l] = TermsOfAll(ctime[l])
          /\ mtime[r] = ctime[r] /\ result[r] = TermsOfAll(ctime[r])
      BY <2>1 DEF TimesFollow
    <3>2. TermsOfAll(ctime[l] \cup ctime[r])
            = TermsOfAll(ctime[l]) \cup TermsOfAll(ctime[r])
      BY TermsOfAllFacts
    <3>3. QED
      BY <2>1, <2>4, <3>1, <3>2
  <2>8. \A j \in mergeJobs' :
          /\ mtime'[j[1]] = ctime'[j[1]]
          /\ result'[j[1]] \cup result'[j[2]] = TermsOfAll(ctime'[j[1]])
    <3>1. \A j \in mergeJobs :
            /\ mtime[j[1]] = ctime[j[1]]
            /\ result[j[1]] \cup result[j[2]] = TermsOfAll(ctime[j[1]])
      BY <2>1 DEF TimesFollow
    <3>2. \A j \in mergeJobs : mtime'[j[1]] = mtime[j[1]] /\ ctime'[j[1]] = ctime[j[1]]
      BY <1>t, <2>3, <2>4
    <3>3. <<l, r>>[1] = l /\ <<l, r>>[2] = r
      OBVIOUS
    <3>4. QED
      BY <2>1, <2>7, <3>1, <3>2, <3>3
  <2>9. QED
    BY <1>0, <2>5, <2>6, <2>8 DEF TimesFollow
<1>7. ASSUME NEW l \in Chunk, NEW r \in Chunk, EndMerge(l, r)
      PROVE  TimesFollow'
  <2>1. /\ net = "running" /\ <<l, r>> \in mergeJobs
        /\ terms' = terms /\ computeJobs' = computeJobs /\ Ready' = Ready
        /\ mergeJobs' = mergeJobs \ {<<l, r>>} /\ merged' = merged \cup {l}
        /\ ctime' = ctime /\ mtime' = mtime
        /\ result' = [result EXCEPT ![l] = result[l] \cup result[r], ![r] = {}]
    BY <1>7 DEF EndMerge, Survivor, Ready
  <2>2. /\ <<l, r>>[1] = l /\ <<l, r>>[2] = r
    OBVIOUS
  <2>3. l \in MergingLeft /\ r \in MergingRight /\ l \in Merging /\ r \in Merging
    BY <2>1, <2>2 DEF MergingLeft, MergingRight, Merging
  <2>4. /\ l # r /\ l \notin Ready \cup merged /\ r \notin Ready \cup merged
    BY <2>1, <2>3 DEF IInv, JobsDisjoint
  <2>5. \A j \in mergeJobs' : j[1] \notin {l, r} /\ j[2] \notin {l, r}
    <3>1. /\ MergingLeft \cap MergingRight = {}
          /\ \A j, k \in mergeJobs : (j[1] = k[1] \/ j[2] = k[2]) => j = k
      BY <2>1 DEF IInv, JobsDisjoint
    <3>2. \A j \in mergeJobs' : j[1] # l /\ j[2] # r
      BY <2>1, <2>2, <3>1
    <3>3. \A j \in mergeJobs : j[1] # r /\ j[2] # l
      BY <2>3, <3>1 DEF MergingLeft, MergingRight
    <3>4. QED
      BY <2>1, <3>2, <3>3
  <2>6. /\ result'[l] = result[l] \cup result[r]
        /\ \A d \in Chunk \ {l, r} : result'[d] = result[d]
    BY <1>t, <2>1, <2>4
  <2>7. /\ mtime[l] = ctime[l]
        /\ result[l] \cup result[r] = TermsOfAll(ctime[l])
    BY <2>1, <2>2 DEF TimesFollow
  <2>8. /\ \A d \in terms' \cup computeJobs' : mtime'[d] = {d}
        /\ \A d \in computeJobs' : ctime'[d] = {d}
    BY <2>1 DEF TimesFollow
  <2>9. \A d \in Ready' \cup merged' :
          mtime'[d] = ctime'[d] /\ result'[d] = TermsOfAll(ctime'[d])
    <3>1. \A d \in Ready \cup merged :
            mtime[d] = ctime[d] /\ result[d] = TermsOfAll(ctime[d])
      BY <2>1 DEF TimesFollow
    <3>2. QED
      BY <1>t, <2>1, <2>4, <2>6, <2>7, <3>1
  <2>10. \A j \in mergeJobs' :
           /\ mtime'[j[1]] = ctime'[j[1]]
           /\ result'[j[1]] \cup result'[j[2]] = TermsOfAll(ctime'[j[1]])
    <3>1. \A j \in mergeJobs :
            /\ mtime[j[1]] = ctime[j[1]]
            /\ result[j[1]] \cup result[j[2]] = TermsOfAll(ctime[j[1]])
      BY <2>1 DEF TimesFollow
    <3>2. \A j \in mergeJobs' :
            result'[j[1]] = result[j[1]] /\ result'[j[2]] = result[j[2]]
      BY <1>t, <2>1, <2>5, <2>6
    <3>3. QED
      BY <2>1, <3>1, <3>2
  <2>11. QED
    BY <1>0, <2>8, <2>9, <2>10 DEF TimesFollow
<1>8. ASSUME NEW c \in Chunk, FinishStep(c)
      PROVE  TimesFollow'
  <2>1. Held' = {}
    <3>1. task'.place = "decomposition"
      BY <1>8 DEF FinishStep
    <3>2. IInv'
      BY <1>8, FinishStepIInv, TypeStep DEF IInv, Next
    <3>3. QED
      BY <3>1, <3>2 DEF IInv, StageMatchesFiles
  <2>2. /\ terms' = {} /\ computeJobs' = {} /\ Ready' = {} /\ merged' = {}
        /\ MergingLeft' = {}
    BY <2>1 DEF Held, Merging
  <2>3. mergeJobs' = {}
    BY <2>2 DEF MergingLeft
  <2>4. QED
    BY <2>2, <2>3 DEF TimesFollow
<1>9. QED
  BY <1>1, <1>2, <1>3, <1>4, <1>5, <1>6, <1>7, <1>8 DEF Next

\* The times kept for a token are those of exactly the chunks whose terms are in
\* its result.
THEOREM TimesAreExact == Spec => []TimesMatchResults
<1>1. Init => TimesFollow
  BY DEF Init, TimesFollow, Ready
<1>2. IInv /\ TimesFollow /\ [Next]_vars => TimesFollow'
  BY TimesStep
<1>3. TimesFollow => TimesMatchResults
  BY DEF TimesFollow, TimesMatchResults, TermsOfAll
<1>4. QED
  BY <1>1, <1>2, <1>3, Invariance, PTL DEF Spec

-----------------------------------------------------------------------------
(***************************************************************************)
(* ForkComputeStep implements PairwiseReduction, for every MaxTerms,       *)
(* SplitMax and Cancelling.  A token's block is the set of terms it stands *)
(* for: split_init is Split, the end of a merge is Join or Cancel,         *)
(* finish_step is Finish and skip_step HandOnAsIs; all the other           *)
(* transitions move tokens and files without changing a block.             *)
(***************************************************************************)

\* While the step runs every token stands for some term and no two of them for
\* the same, so there are as many blocks as tokens.
TokensApart ==
  /\ \A c \in Held : Content(c) # {} /\ Content(c) \subseteq AllTerms
  /\ \A c, d \in Held : c # d => Content(c) \cap Content(d) = {}
  /\ \A c, d \in Held : Content(c) = Content(d) => c = d

LEMMA BlocksApart == IInv /\ Reducing => TokensApart
<1> SUFFICES ASSUME IInv, Reducing PROVE TokensApart
  OBVIOUS
<1>1. /\ \A c \in Held : Content(c) \subseteq AllTerms
      /\ \A c, d \in Held : c # d => Content(c) \cap Content(d) = {}
  BY DEF IInv, TermsConserved
<1>2. ASSUME NEW c \in Held
      PROVE  Content(c) # {}
  <2>1. c \in Chunk /\ net = "running"
    BY HeldInChunk DEF IInv, Reducing
  <2>2. CASE c \in terms \cup computeJobs
    <3>1. c \in AllChunks
      BY <2>1 DEF IInv, ChunksDealt
    <3>2. TermsOf(c) # {}
      BY <3>1, SplitCovers DEF IInv, TypeOK
    <3>3. QED
      BY <2>2, <3>2 DEF Content
  <2>3. CASE c \notin terms \cup computeJobs
    <3>1. c \in Ready \cup Merging \cup merged
      BY <2>3 DEF Held
    <3>2. result[c] # {}
      BY <2>1, <3>1 DEF IInv, FilesMatchPlaces
    <3>3. QED
      BY <2>3, <3>2 DEF Content
  <2>4. QED
    BY <2>2, <2>3
<1>3. QED
  BY <1>1, <1>2 DEF TokensApart

\* What makes a step of the net none of PairwiseReduction: the tokens stay the
\* same, and so does what each of them stands for.
LEMMA SameBlocks ==
  ASSUME TypeOK, Held' = Held, \A c \in Chunk : Content(c)' = Content(c),
         UNCHANGED <<termCount, task, toFile, net>>
  PROVE  UNCHANGED Reduction!reductionVars
<1>1. UNCHANGED <<AllTerms, toFile, Phase, Reducing>>
  BY DEF AllTerms, Phase, Reducing
<1>2. Held \subseteq Chunk
  BY HeldInChunk
<1>3. {Content(c)' : c \in Held} = {Content(c) : c \in Held}
  BY <1>2
<1>4. Blocks' = Blocks
  BY <1>1, <1>3 DEF Blocks
<1>5. QED
  BY <1>1, <1>4 DEF Reduction!reductionVars

\* Transitions check_skip and skip_step.
LEMMA SkipRefines ==
  ASSUME IInv, CheckSkip \/ SkipStep
  PROVE  [Reduction!RNext]_(Reduction!reductionVars)
<1>1. /\ net = "running" /\ task.place \in {"in", "skip_in"}
      /\ stepFiles = {"from"}
  BY DEF CheckSkip, SkipStep, IInv, StageMatchesFiles
<1>2. /\ UNCHANGED <<AllTerms, net>>
      /\ \/ task'.place = "skip_in" /\ UNCHANGED toFile
         \/ task'.place = "decomposition" /\ toFile' = AllTerms
  BY <1>1 DEF CheckSkip, SkipStep, files, AllTerms
<1>3. Blocks = {} /\ Blocks' = {} /\ Phase = "waiting"
  BY <1>1, <1>2 DEF Blocks, Reducing, Phase
<1>4. CASE task'.place = "skip_in" /\ UNCHANGED toFile
  <2>1. Phase' = "waiting"
    BY <1>1, <1>2, <1>4 DEF Phase
  <2>2. QED
    BY <1>2, <1>3, <1>4, <2>1 DEF Reduction!reductionVars
<1>5. CASE task'.place = "decomposition" /\ toFile' = AllTerms
  <2>1. Phase' = "done"
    BY <1>1, <1>2, <1>5 DEF Phase
  <2>2. Reduction!HandOnAsIs
    BY <1>2, <1>3, <1>5, <2>1 DEF Reduction!HandOnAsIs
  <2>3. QED
    BY <2>2 DEF Reduction!RNext
<1>6. QED
  BY <1>2, <1>4, <1>5

\* Transition split_init: the chunks are a partition of the terms.
LEMMA SplitRefines ==
  ASSUME IInv, SplitInit, IInv'
  PROVE  Reduction!Split
<1>1. /\ net = "running" /\ task.place = "skip_in" /\ stepFiles = {"from"}
  BY DEF SplitInit, IInv, StageMatchesFiles
<1>2. /\ net' = "running" /\ task'.place = "split" /\ UNCHANGED <<termCount, toFile>>
      /\ terms' = AllChunks
  BY <1>1 DEF SplitInit
<1>3. /\ UNCHANGED AllTerms /\ Reducing' /\ Phase = "waiting" /\ Phase' = "reducing"
      /\ AllChunks' = AllChunks
  BY <1>1, <1>2 DEF AllTerms, AllChunks, SplitCount, Reducing, Phase
<1>4. Blocks = {}
  BY <1>1 DEF Blocks, Reducing
<1>5. Held' = AllChunks
  <2>1. Held = {}
    BY <1>1 DEF IInv, StageMatchesFiles
  <2>2. UNCHANGED <<computeJobs, decomposed, left, right, mergeJobs, merged>>
    BY DEF SplitInit
  <2>3. QED
    BY <1>2, <2>1, <2>2 DEF Held, Ready, Merging, MergingLeft, MergingRight
<1>6. /\ \A c \in AllChunks : Content(c)' # {} /\ Content(c)' \subseteq AllTerms
      /\ \A i \in AllTerms : \E c \in AllChunks : i \in Content(c)'
      /\ \A c, d \in AllChunks : c # d => Content(c)' \cap Content(d)' = {}
  <2>1. TokensApart'
    BY <1>3, BlocksApart, PTL
  <2>2. /\ \A c \in Held' : Content(c)' # {} /\ Content(c)' \subseteq AllTerms'
        /\ \A c, d \in Held' : c # d => Content(c)' \cap Content(d)' = {}
    BY <2>1 DEF TokensApart
  <2>3. \A i \in AllTerms' : \E c \in Held' : i \in Content(c)'
    BY <1>3 DEF IInv, TermsConserved
  <2>4. QED
    BY <1>3, <1>5, <2>2, <2>3
<1>7. Blocks' = {Content(c)' : c \in AllChunks}
  BY <1>3, <1>5 DEF Blocks
<1>8. Reduction!IsPartition(Blocks', AllTerms)
  BY <1>6, <1>7 DEF Reduction!IsPartition
<1>9. Cardinality(Blocks') <= SplitMax
  <2> DEFINE f == [c \in AllChunks |-> Content(c)']
  <2>1. f \in Surjection(AllChunks, Blocks')
    BY <1>7 DEF Surjection
  <2>a. SplitCount \in 1 .. SplitMax
    BY SplitCountBounds DEF IInv, TypeOK
  <2>2. IsFiniteSet(AllChunks) /\ Cardinality(AllChunks) = SplitCount
    BY <2>a, FS_Interval, SplitMaxAssumption DEF AllChunks
  <2>3. IsFiniteSet(Blocks') /\ Cardinality(Blocks') <= Cardinality(AllChunks)
    BY <2>1, <2>2, FS_Surjection
  <2>4. Cardinality(Blocks') \in Nat
    BY <2>3, FS_CardinalityType
  <2>5. QED
    BY <2>a, <2>2, <2>3, <2>4, SplitMaxAssumption
<1>b. Reduction!Cardinality(Blocks') = Cardinality(Blocks')
  BY DEF Reduction!Cardinality, Cardinality
<1>10. QED
  BY <1>2, <1>3, <1>8, <1>9, <1>b DEF Reduction!Split

\* Transitions fork_compute, populate_left, populate_right and
\* hand_merged_back: a token moves on and stands for the same terms.
LEMMA TokenMoveRefines ==
  ASSUME IInv, IInv', NEW c \in Chunk,
         \/ BeginCompute(c) \/ EndCompute(c)
         \/ PopulateLeft(c) \/ PopulateRight(c) \/ HandMergedBack(c)
  PROVE  UNCHANGED Reduction!reductionVars
<1>1. /\ net = "running" /\ UNCHANGED <<termCount, task, toFile>>
      /\ UNCHANGED <<AllTerms, mergeJobs>>
      /\ \A d : UNCHANGED TermsOf(d)
  BY DEF BeginCompute, EndCompute, PopulateLeft, PopulateRight, HandMergedBack,
         control, files, AllTerms, TermsOf, SplitCount
<1>2. UNCHANGED net
  BY <1>1 DEF BeginCompute, EndCompute, PopulateLeft, PopulateRight,
              HandMergedBack, files, IInv, FilesMatchPlaces
<1>3. Held' = Held
  BY <1>1, <1>2
     DEF BeginCompute, EndCompute, PopulateLeft, PopulateRight, HandMergedBack,
         Held, Ready, Merging, MergingLeft, MergingRight
<1>4. \A d \in Chunk : Content(d)' = Content(d)
  <2>1. CASE EndCompute(c)
    <3>1. /\ c \in computeJobs /\ terms' = terms /\ computeJobs' = computeJobs \ {c}
          /\ result' = [result EXCEPT ![c] = TermsOf(c)]
      BY <1>1, <1>2, <2>1 DEF EndCompute
    <3>2. c \notin terms
      BY <1>1, <3>1 DEF IInv, JobsDisjoint
    <3>3. /\ result'[c] = TermsOf(c)
          /\ \A d \in Chunk \ {c} : result'[d] = result[d]
      BY <3>1 DEF IInv, TypeOK
    <3>4. QED
      BY <1>1, <3>1, <3>2, <3>3 DEF Content
  <2>2. CASE ~EndCompute(c)
    <3>1. result' = result /\ (terms \cup computeJobs)' = terms \cup computeJobs
      BY <2>2 DEF BeginCompute, PopulateLeft, PopulateRight, HandMergedBack,
                  files
    <3>2. QED
      BY <1>1, <3>1 DEF Content
  <2>3. QED
    BY <2>1, <2>2
<1>5. QED
  BY <1>1, <1>2, <1>3, <1>4, SameBlocks DEF IInv

\* Transition merge_decomposed, up to the call into Singular: the two tokens are
\* with the worker, and their results are still apart.
LEMMA BeginMergeRefines ==
  ASSUME IInv, IInv', NEW l \in Chunk, NEW r \in Chunk, BeginMerge(l, r)
  PROVE  UNCHANGED Reduction!reductionVars
<1>1. /\ UNCHANGED <<termCount, task, toFile, terms, computeJobs, result>>
      /\ UNCHANGED <<decomposed, merged>>
      /\ mergeJobs' = mergeJobs \cup {<<l, r>>}
      /\ left' = left \ {l} /\ right' = right \ {r}
      /\ net = "running" /\ l \in left /\ r \in right
  BY DEF BeginMerge, TakePair, control
<1>2. UNCHANGED net
  <2>1. l \in Ready /\ r \in Ready /\ r \notin MergingRight /\ l \notin MergingRight
    BY <1>1 DEF Ready, IInv, JobsDisjoint, Merging
  <2>2. {} \notin {mtime[l], mtime[r], ctime[l], ctime[r]}
    BY <1>1, <2>1 DEF IInv, FilesMatchPlaces, Held
  <2>3. QED
    BY <1>1, <2>2 DEF BeginMerge
<1>3. \A d : UNCHANGED TermsOf(d)
  BY <1>1 DEF TermsOf, SplitCount, AllTerms
<1>4. \A d \in Chunk : Content(d)' = Content(d)
  BY <1>1, <1>3 DEF Content
<1>5. Held' = Held
  <2>1. <<l, r>>[1] = l /\ <<l, r>>[2] = r
    OBVIOUS
  <2>2. \A x : x \in Merging' <=> x \in Merging \/ x = l \/ x = r
    BY <1>1, <2>1 DEF Merging, MergingLeft, MergingRight
  <2>3. \A x : x \in Held' <=> x \in Held
    BY <1>1, <2>2 DEF Held, Ready
  <2>4. QED
    BY <2>3
<1>6. QED
  BY <1>1, <1>2, <1>4, <1>5, SameBlocks DEF IInv

\* Transition merge_decomposed, the end: the blocks of the two tokens become
\* one, or cancel.
LEMMA EndMergeRefines ==
  ASSUME IInv, IInv', NEW l \in Chunk, NEW r \in Chunk, EndMerge(l, r)
  PROVE  Reduction!Join \/ Reduction!Cancel
<1>1. /\ net = "running" /\ <<l, r>> \in mergeJobs
      /\ mergeJobs' = mergeJobs \ {<<l, r>>}
      /\ UNCHANGED <<termCount, task, toFile, terms, computeJobs>>
      /\ UNCHANGED <<decomposed, left, right, AllTerms>>
  BY DEF EndMerge, control, AllTerms
<1>2. l \in MergingLeft /\ r \in MergingRight
  <2>1. <<l, r>>[1] = l /\ <<l, r>>[2] = r
    OBVIOUS
  <2>2. QED
    BY <1>1, <2>1 DEF MergingLeft, MergingRight
<1>3. /\ l \in Held /\ r \in Held /\ l # r
      /\ l \notin terms \cup computeJobs /\ r \notin terms \cup computeJobs
      /\ r \notin merged /\ r \notin Ready
  BY <1>1, <1>2 DEF Held, Merging, IInv, JobsDisjoint
<1>4. Reducing /\ Phase = "reducing"
  BY <1>1, <1>3, TokenMeansSplit DEF Phase, Reducing
<1>5. /\ Content(l) = result[l] /\ Content(r) = result[r]
      /\ Content(l) # Content(r)
      /\ Content(l) \in Blocks /\ Content(r) \in Blocks
  BY <1>3, <1>4, BlocksApart DEF TokensApart, Content, Blocks
<1>6. {} \notin {result[l], result[r], mtime[l]}
  BY <1>1, <1>2, <1>3 DEF IInv, FilesMatchPlaces, JobsDisjoint, Merging
<1>7. CASE ~SumNotEmpty(l, r)
  <2>1. net' = "cancelled"
    BY <1>7 DEF EndMerge
  <2>2. Phase' = "aborted" /\ Blocks' = {}
    BY <2>1 DEF Phase, Blocks, Reducing
  <2>3. Content(l) \cup Content(r) \in Cancelling
    BY <1>5, <1>7 DEF SumNotEmpty
  <2>4. QED
    BY <1>1, <1>4, <1>5, <2>2, <2>3 DEF Reduction!Cancel
<1>8. CASE SumNotEmpty(l, r)
  <2>1. /\ net' = "running" /\ merged' = merged \cup {l}
        /\ result' = [result EXCEPT ![l] = result[l] \cup result[r], ![r] = {}]
    BY <1>1, <1>6, <1>8 DEF EndMerge, Survivor
  <2>2. /\ result'[l] = result[l] \cup result[r]
        /\ \A d \in Chunk \ {l, r} : result'[d] = result[d]
    BY <1>3, <2>1 DEF IInv, TypeOK
  <2>3. \A d : UNCHANGED TermsOf(d)
    BY <1>1 DEF TermsOf, SplitCount, AllTerms
  <2>4. /\ Content(l)' = Content(l) \cup Content(r)
        /\ \A d \in Chunk \ {l, r} : Content(d)' = Content(d)
    BY <1>1, <1>3, <1>5, <2>2, <2>3 DEF Content
  <2>5. Held' = Held \ {r}
    <3>1. <<l, r>>[1] = l /\ <<l, r>>[2] = r
      OBVIOUS
    <3>2. /\ MergingLeft \cap MergingRight = {}
          /\ \A j, k \in mergeJobs : (j[1] = k[1] \/ j[2] = k[2]) => j = k
      BY <1>1 DEF IInv, JobsDisjoint
    <3>3. r \notin Merging'
      BY <1>1, <1>2, <3>1, <3>2 DEF Merging, MergingLeft, MergingRight
    <3>4. \A x : x \in Merging \cup {l, r} <=> x \in Merging' \cup {l, r}
      BY <1>1, <3>1 DEF Merging, MergingLeft, MergingRight
    <3>5. \A x : x \in Held' <=> x \in Held /\ x # r
      BY <1>1, <1>3, <2>1, <3>3, <3>4 DEF Held, Ready
    <3>6. QED
      BY <3>5
  <2>6. Reducing' /\ Phase' = "reducing"
    BY <1>1, <1>4, <2>1 DEF Reducing, Phase
  <2>7. Blocks' = (Blocks \ {Content(l), Content(r)}) \cup {Content(l) \cup Content(r)}
    <3>1. \A d \in Held : d \notin {l, r} => /\ Content(d)' = Content(d)
                                          /\ Content(d) # Content(l)
                                          /\ Content(d) # Content(r)
      BY <1>3, <1>4, <2>4, BlocksApart, HeldInChunk DEF TokensApart, IInv
    <3>2. \A B : B \in Blocks' <=> \E d \in Held' : B = Content(d)'
      BY <2>6 DEF Blocks
    <3>3. \A B : B \in Blocks <=> \E d \in Held : B = Content(d)
      BY <1>4 DEF Blocks
    <3>4. ASSUME NEW B
          PROVE  B \in Blocks' <=>
                   \/ B \in Blocks /\ B \notin {Content(l), Content(r)}
                   \/ B = Content(l) \cup Content(r)
      <4>1. B \in Blocks' <=> \/ \E d \in Held : d \notin {l, r} /\ B = Content(d)
                            \/ B = Content(l) \cup Content(r)
        BY <1>3, <2>4, <2>5, <3>1, <3>2
      <4>2. B \in Blocks /\ B \notin {Content(l), Content(r)} <=>
              \E d \in Held : d \notin {l, r} /\ B = Content(d)
        BY <3>1, <3>3
      <4>3. QED
        BY <4>1, <4>2
    <3>5. QED
      BY <3>4
  <2>8. Content(l) \cup Content(r) \notin Cancelling
    BY <1>5, <1>8 DEF SumNotEmpty
  <2>9. Reduction!Join
    BY <1>1, <1>4, <1>5, <2>6, <2>7, <2>8 DEF Reduction!Join
  <2>10. QED
    BY <2>9
<1>9. QED
  BY <1>7, <1>8

\* Transition finish_step: the one block that is left is all of the terms.
LEMMA FinishRefines ==
  ASSUME IInv, IInv', NEW c \in Chunk, FinishStep(c)
  PROVE  Reduction!Finish
<1>1. /\ c \in left /\ net = "running" /\ computing = 1
      /\ UNCHANGED <<termCount, AllTerms>>
  BY DEF FinishStep, OneTokenLeft, AllTerms
<1>2. Reducing /\ stepFiles = {"dectemp"}
  BY <1>1, TokenMeansSplit DEF Held, Ready
<1>3. /\ Held = {c} /\ result[c] = AllTerms
      /\ terms = {} /\ computeJobs = {} /\ mergeJobs = {}
  BY <1>1, <1>2, LastToken
<1>4. Content(c) = AllTerms
  BY <1>3 DEF Content
<1>5. Blocks = {AllTerms} /\ Phase = "reducing"
  BY <1>2, <1>3, <1>4 DEF Blocks, Phase, Reducing
<1>6. {} \notin {ctime[c], mtime[c], result[c]}
  <2>1. c \in Ready /\ c \notin MergingRight
    BY <1>1, <1>3 DEF Ready, MergingRight
  <2>2. QED
    BY <1>1, <1>3, <2>1 DEF IInv, FilesMatchPlaces
<1>7. /\ net' = "running" /\ toFile' = AllTerms
      /\ task' = [place |-> "decomposition", status |-> 0]
  BY <1>1, <1>2, <1>3, <1>6 DEF FinishStep
<1>8. task'.place = "decomposition"
  BY <1>7
<1>9. Blocks' = {} /\ Phase' = "done"
  BY <1>7, <1>8 DEF Blocks, Phase, Reducing
<1>10. QED
  BY <1>1, <1>5, <1>7, <1>9 DEF Reduction!Finish

\* Every step of the net is a step of the reduction or changes nothing of it.
LEMMA StepRefines ==
  ASSUME IInv, [Next]_vars
  PROVE  [Reduction!RNext]_(Reduction!reductionVars)
<1>0. IInv'
  BY StepIInv
<1>1. CASE CheckSkip \/ SkipStep
  BY <1>1, SkipRefines
<1>2. CASE SplitInit
  BY <1>0, <1>2, SplitRefines DEF Reduction!RNext
<1>3. ASSUME NEW c \in Chunk,
             \/ BeginCompute(c) \/ EndCompute(c)
             \/ PopulateLeft(c) \/ PopulateRight(c) \/ HandMergedBack(c)
      PROVE  UNCHANGED Reduction!reductionVars
  BY <1>0, <1>3, TokenMoveRefines
<1>4. ASSUME NEW l \in Chunk, NEW r \in Chunk, BeginMerge(l, r)
      PROVE  UNCHANGED Reduction!reductionVars
  BY <1>0, <1>4, BeginMergeRefines
<1>5. ASSUME NEW l \in Chunk, NEW r \in Chunk, EndMerge(l, r)
      PROVE  Reduction!RNext
  BY <1>0, <1>5, EndMergeRefines DEF Reduction!RNext
<1>6. ASSUME NEW c \in Chunk, FinishStep(c)
      PROVE  Reduction!RNext
  BY <1>0, <1>6, FinishRefines DEF Reduction!RNext
<1>7. CASE Stopped \/ UNCHANGED vars
  <2>1. UNCHANGED vars
    BY <1>7 DEF Stopped
  <2>2. /\ Held' = Held /\ \A d \in Chunk : Content(d)' = Content(d)
        /\ UNCHANGED <<termCount, task, toFile, net>>
    BY <2>1 DEF vars, tokens, control, files, Held, Ready, Merging, MergingLeft,
                MergingRight, Content, TermsOf, SplitCount, AllTerms
  <2>3. QED
    BY <2>2, SameBlocks DEF IInv
<1>8. QED
  BY <1>1, <1>2, <1>3, <1>4, <1>5, <1>6, <1>7 DEF Next

\* The net of a decomposition step implements PairwiseReduction: whatever the
\* order of the workers, the step is a pairwise reduction of a partition of its
\* terms.
THEOREM StepImplementsReduction == Spec => ImplementsReduction
<1>1. Init => Reduction!RInit
  BY DEF Init, Reduction!RInit, Blocks, Reducing, Phase
<1>2. IInv /\ [Next]_vars => [Reduction!RNext]_(Reduction!reductionVars)
  BY StepRefines
<1>3. QED
  BY <1>1, <1>2, Invariance, PTL DEF Spec, ImplementsReduction, Reduction!Spec
=============================================================================
