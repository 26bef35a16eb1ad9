SPECIFICATION Spec
CONSTANTS
  u1 = u1
  Uris = {u1}
  Langs = {"markdown", "none"}
  NoLang = "none"
  Suffix <- MCSuffix
  MaxEdits = 2
  MaxAsks = 1
  EagerClient = FALSE
INVARIANTS ServerInv AnswersAreSnapshots
PROPERTIES SessionSpec ExitEnds
CHECK_DEADLOCK FALSE
