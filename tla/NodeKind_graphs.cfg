SPECIFICATION Spec
CONSTANTS
  NumNodes = 4
  InitEdges <- Inputs
  InitDefaults = {TRUE, FALSE}
  Size = 3
INVARIANTS SolverInv PruningIsExact PrimariesAreBest CutsCloseCycles OutputIsValid OutputReads
CHECK_DEADLOCK FALSE
