SPECIFICATION Spec
CONSTANTS
  MaxTerms = 6
  SplitMax = 5
  Cancelling <- TwoCancel
INVARIANTS
  TypeOK
  TermsConserved
  CounterExact
  TurnsAlternate
  JobsDisjoint
  FilesMatchPlaces
  TimesMatchResults
  FailsOnlyByCancelling
  OutComplete
PROPERTIES
  Completes
  ImplementsReduction
