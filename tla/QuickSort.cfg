SPECIFICATION Spec
CONSTANTS
  MaxCount = 6
  FileSizes <- SomeSizes
INVARIANTS
  TypeOK
  OrderedUnlessPending
  SortedPermutation
PROPERTY
  Terminates
