SPECIFICATION OperationsSpec
CONSTANTS
  Contexts <- MCContexts
  Drafts <- MCDrafts
  MaxDrafts = 5
  NewIds = {11, 12, 13, 14}
  TotalLimit <- MCTotalLimit
  CreationLimit = 3
  DependencyLimit = 1
CHECK_DEADLOCK FALSE
INVARIANTS
  RepairsCanBeProposed
