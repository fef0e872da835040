SPECIFICATION PaidSpec
CONSTANTS
  Jobs = {j1}
  Workers = {w1, w2}
  NoJob = NoJob
  LeaseTerm = 1
  MaxFence = 6
  Cap = 2
  Reserved = 2
  Costs = {1, 3}
  Replies = {"ok", "rejected", "error", "none"}
  CrashSteps = {"claimed", "closed", "loaded", "deciding", "calling", "responded", "late", "failing", "requeue"}
  Askers = {w1, w2}
  Doors = {"concept", "beat", "repair", "publish", "scene", "vertical", "chat"}
  VerticalKinds = {"safe_repair", "publish_package"}
  MaxEdits = 1
  MaxBundles = 2
  MaxOffers = 2
  DailyLimit = 1
SYMMETRY Symmetry
CHECK_DEADLOCK FALSE
INVARIANTS
  MoneySound
  PaidAsQuoted
  QuotedOnWhatWasRead
  JobsCanStart
PROPERTIES
  ClosedIsFinal
  ImplementsJob
