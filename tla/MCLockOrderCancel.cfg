SPECIFICATION LockSpec
CONSTANTS
  Clients = {c1, c2}
  Kinds = {"finish", "cancelSystem"}
  MaxRetries = 3
CHECK_DEADLOCK FALSE
INVARIANTS
  NoWaitCycle
