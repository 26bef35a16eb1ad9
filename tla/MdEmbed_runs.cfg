SPECIFICATION Spec
CONSTANTS
  KeyMax = 46655
  KeyFirst = 1296
  KeyStep = 36
  NoId = NoId
  f1 = f1  f2 = f2  f3 = f3  s1 = s1  s2 = s2  bad = bad  n1 = n1  a1 = a1  o1 = o1  c1 = c1  r1 = r1
  FileOrder <- OneFile
  Ignored = {}
  Srcs = {s1, bad}
  BadSrcs = {bad}
  Names = {n1}
  AuthorIds = {a1}
  Overrides = {o1}
  Clis = {c1}
  Rpcs = {r1}
  CliModes <- WholeOrCheck
  RpcModes <- EmbedOrCheck
  InitDocs <- OneDoc
  InitIncs <- OneInc
  EditKinds = {"content", "include", "insert", "delete", "flag", "fence", "author", "copy", "svg"}
  MaxBlocks = 2
  MaxSaves = 2
  MaxCrashes = 1
  Cuts = {"before"}
  Missing = Missing
  NoMarker = NoMarker
  NoPath = NoPath
  NoHash = NoHash
INVARIANTS
  RunsRepair
  CheckIsHonest
