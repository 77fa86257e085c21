SPECIFICATION Spec
CONSTANTS
  MaxCount = 3
  FileSizes <- SomeSizes
INVARIANT
  PivotIsMedian
