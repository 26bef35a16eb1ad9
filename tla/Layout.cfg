SPECIFICATION Spec
CONSTANTS
  Seeds <- MCSeeds
  Room = 3
INVARIANTS HangsAtOne TimeReadsDown TiedStandTogether TextMeansTheDiagram SuggestionsHelp
PROPERTY StoriesKeep
CHECK_DEADLOCK FALSE
