SPECIFICATION FairSpec
CONSTANTS
  KeyMax = 46655
  KeyFirst = 1296
  KeyStep = 36
  NoId = NoId
  f1 = f1  f2 = f2  f3 = f3  s1 = s1  s2 = s2  bad = bad  n1 = n1  a1 = a1  o1 = o1  c1 = c1  r1 = r1
  FileOrder <- ThreeFiles
  Ignored = {f3}
  Srcs = {s1, s2}
  BadSrcs = {}
  Names = {n1}
  AuthorIds = {}
  Overrides = {o1}
  Clis = {c1}
  Rpcs = {}
  CliModes <- AllCliModes
  RpcModes <- AllRpcModes
  InitDocs <- ThreeDocs
  InitIncs <- OneInc
  EditKinds = {"include", "svg", "path"}
  MaxBlocks = 2
  MaxSaves = 3
  MaxCrashes = 1
  Cuts = {}
  Missing = Missing
  NoMarker = NoMarker
  NoPath = NoPath
  NoHash = NoHash
PROPERTIES
  Idempotent
  RunsSettle
