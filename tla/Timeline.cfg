SPECIFICATION Spec
CONSTANTS
  Commits = {"c1", "c2", "c3"}
  Builders = {"main", "w1", "w2"}
  Main = "main"
  Packages <- MCPackages
  Compiles <- MCCompiles
  Faults = {"c3"}
  LayoutGen = "layout-gen"
  Recipe <- MCRecipe
  Log <- MCLog
  MonthStarts <- MCMonths
  Ordinary = "today"
  Requests <- MCRequests
  Surveys <- MCSurveys
  Diagrams = 2
  Results = {0, 1, 2}
  Lays <- MCLays
  Caps = {0, 1}
  SweepJobs = 2
  MaxRuns = 2
  MaxEdits = 1
INVARIANTS BuildersDoNotMeet RowsCompareEngines GalleryIsTheColumn ReportIsServed
PROPERTY RunsEnd
CHECK_DEADLOCK FALSE
