SPECIFICATION MCSpec
CONSTANTS
  Events = {e1}
  Processes = {p1, p2, p3}
  NoEvent = NoEvent
  MaxAttempt = 2
  MaxGeneration = 2
  Workflows = {"beat_write_judge", "outline_generation"}
  Invocations = 2
  LeaseTerm = 1
  Clients = {c1, c2, c3}
  Kinds = {"createIntake", "finalizeAttempt", "finish", "reclaim", "cancelSystem"}
  MaxRetries = 1
CHECK_DEADLOCK FALSE
INVARIANTS
  CyclesNeedInversion
  OneCurrentClaim
  VerdictOfAttempt
  RecoveryAgrees
  PublishedIsComplete
  CallsWithinBudget
PROPERTIES
  EventsEnd
  WalkEnds
  TransactionsEnd
