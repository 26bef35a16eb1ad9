SPECIFICATION Spec
CONSTANTS
  KeyMax = 15
  KeyFirst = 6
  KeyStep = 2
  NoId = NoId
  n1 = n1
  Names = {n1}
  MissingSrcs = {}
  NoHash = NoHash
  InitDocs <- MCInitDocs
  Pastes <- MCPastes
  MaxParts = 3
  MaxEdits = 1
  MaxBlanksAroundMarker = 2
INVARIANTS Idempotent TextKept
CHECK_DEADLOCK FALSE
