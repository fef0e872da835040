SPECIFICATION FairRunSpec
CONSTANTS
  Jobs = {j1}
  Workers = {w1, w2}
  NoJob = NoJob
  LeaseTerm = 1
  MaxFence = 4
  Cap = 2
  Reserved = 2
  Costs = {1}
  Replies = {"ok", "rejected", "none"}
  CrashSteps = {"claimed", "closed", "loaded", "deciding", "calling", "responded", "failing", "requeue"}
CHECK_DEADLOCK FALSE
PROPERTIES
  RunsEnd
  CancellationEnds
  AnsweredHoldsClose
