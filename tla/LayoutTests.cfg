SPECIFICATION Spec
CONSTANTS
  Cases <- DocCases
  Lines <- DocLines
  Contents <- DocContents
  Versions = {1, 2, 3}
  MaxItems = 2
  PlaceOf <- DocPlaceOf
  DrawingOf <- DocDrawing
  Seeds <- CanvasSeeds
  Places <- CanvasPlaces
  Ports <- CanvasPorts
  MaxSteps = 2
INVARIANT VerdictsAreDeclared RulesAndAuditAgree
CHECK_DEADLOCK FALSE
PROPERTY ReportIsSound PortsInOrder DetoursClear
