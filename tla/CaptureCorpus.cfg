SPECIFICATION CorpusSpec
CONSTANTS
  a = a  b = b  s1 = s1  s2 = s2  bad1 = bad1  bad2 = bad2
  Uris = {a, b}
  NoUri = NoUri
  Torn = Torn
  Rejected = Rejected
  Dir <- MCDir
  Texts <- MCTexts
  Layout <- MCLayout
  Sources = {s1, s2, bad1, bad2}
  SceneOrder <- MCScenes
  OldCorpus <- MCOld
  Cadences = {"change", "embed"}
  MaxSends = 2
  MaxSessions = 2
INVARIANT CaptureIsAMerge
PROPERTIES WireSpec CorpusIsOfTheTake CorpusCovers
CHECK_DEADLOCK FALSE
