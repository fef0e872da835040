SPECIFICATION FairRunSpec
CONSTANTS
  Jobs = {j1}
  Workers = {w1}
  NoJob = NoJob
  LeaseTerm = 1
  MaxFence = 2
  Cap = 1
  Reserved = 2
  Costs = {1}
  Replies = {"ok", "rejected", "error", "none"}
  CrashSteps = {}
CHECK_DEADLOCK FALSE
PROPERTIES
  ClosingCloses
