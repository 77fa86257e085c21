SPECIFICATION Spec
CONSTANTS
  Actives <- SomeSettings
  Problems = {"trivial", "ordinary", "vanishing"}
INVARIANTS
  TypeOK
  NothingOldInResult
  TotalCountsEachPart
  ThrowsOnlyWhenVanishing
  LeavesNothingNew
PROPERTIES
  ResultIsFinal
  AnswersUnlessCutOff
