SPECIFICATION Spec
CONSTANTS
  KeyMax = 46655
  KeyFirst = 1296
  KeyStep = 36
  NoId = NoId
  n1 = n1
  Names = {n1}
  MaxLen = 0
  Inputs <- RealInputs
INVARIANTS
  NeverShareAnSvg
