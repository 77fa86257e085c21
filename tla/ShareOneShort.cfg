SPECIFICATION Spec
CONSTANTS
  Word = 1024
  MaxCount = 127
INVARIANT
  ShareIsAsDocumented
