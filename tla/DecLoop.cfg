SPECIFICATION Spec
CONSTANTS
  Q <- SomeFactors
  MaxExp = 2
  MaxDegree = 3
  Numerators <- PlusMinusOne
  MaxTerms = 3
INVARIANTS
  SumKept
  ListsNormal
  ResultsDecomposed
PROPERTY
  Terminates
