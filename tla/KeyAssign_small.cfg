SPECIFICATION Spec
CONSTANTS
  KeyMax = 8
  KeyFirst = 3
  KeyStep = 2
  NoId = NoId
  n1 = n1
  Names = {n1}
  MaxLen = 4
  Inputs <- MCInputs
INVARIANT KeyAssignInv
