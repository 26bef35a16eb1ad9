SPECIFICATION Spec
CONSTANTS
  Configs <- MCConfigs
  DestOrder <- MCDestOrder
  FileOrder <- MCFileOrder
  Versions <- MCVersions
  First <- MCFirst
  FilterNames <- MCFilterNames
  RuleTexts <- MCRuleTexts
  MaxTurns = 3
  Torn = TRUE
INVARIANTS
  TwoRunsSettle
PROPERTIES
  CheckIsHonest
  RemovalsAreOfTheRetired
