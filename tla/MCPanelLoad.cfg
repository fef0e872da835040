SPECIFICATION PanelSpec
CONSTANTS
  Surfaces = {"beat", "concept", "repair", "publish"}
  MaxJobs = 2
  MaxQuotes = 1
CHECK_DEADLOCK FALSE
PROPERTIES
  LoadRecoversJob
