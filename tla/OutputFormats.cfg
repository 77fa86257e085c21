SPECIFICATION Spec
CONSTANTS
  Actives <- AllSteps
  Problems = {"ordinary"}
INVARIANT
  OutputInAllFormats
