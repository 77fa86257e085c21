SPECIFICATION Spec
CONSTANTS
  Word = 64
  MaxTasks = 4
  Percentages = {0, 34, 75, 100, 150}
  Size <- MCSize
  Converted <- AllConverted
  Failing = {1, 3}
INVARIANTS
  TypeOK
  EachTaskOnce
  ControlExact
  DoneMeansWritten
  SharesDealt
  LargestGoParallel
  CancelledOnlyByFailure
PROPERTIES
  CallIsAnswered
  ImplementsFarm
