SPECIFICATION Spec
CONSTANTS
  MaxTerms = 4
  SplitMax = 3
  Cancelling <- TwoCancel
INVARIANT
  NoTermsAfterMergeNeverRaised
