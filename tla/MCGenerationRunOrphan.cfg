SPECIFICATION RunSpec
CONSTANTS
  Jobs = {j1}
  Workers = {w1, w2}
  NoJob = NoJob
  LeaseTerm = 1
  MaxFence = 4
  Cap = 1
  Reserved = 2
  Costs = {1}
  Replies = {"ok"}
  CrashSteps = {}
CHECK_DEADLOCK FALSE
PROPERTIES
  OrphansAreDead
