SPECIFICATION MCSpec
CONSTANTS
  Contexts <- MCContexts
  Drafts <- MCDrafts
  MaxDrafts = 5
  NewIds = {11, 12, 13, 14}
  TotalLimit <- MCTotalLimit
  CreationLimit = 3
  DependencyLimit = 1
  Stop = "."
  Lower <- MCLower
  Normal <- MCNormal
  Proses <- MCProses
  Contracts <- MCContracts
  GuardSets <- MCGuardSets
  Opinions <- MCOpinions
  MaxOpinions = 2
  Window = 2
  Overridable = {"fact"}
  MaxAttempts = 3
  Sequences = {1, 2}
  Moments = {1, 2}
  EventIds = {1, 2, 3}
  MaxEvents = 3
  Positions <- MCPositions
  MaxCrumbs = 2
  Foundations <- MCFoundations
  Dependencies = {"a", "b"}
  MaxRevisions = 1
  Providers = {"mock", "gemini"}
  Trusted = {"mock"}
  Material <- MCMaterial
  Bases = {b1, b2}
  NoBase = NoBase
  Surfaces = {"beat", "concept", "publish"}
  MaxJobs = 2
  MaxQuotes = 1
  q1 = q1
  q2 = q2
  q3 = q3
  Quotes <- MCQuotes
  Amount <- MCAmount
  Requests = {r1, r2}
  Clients = {c1, c2}
  NoRequest = NoRequest
  NoQuote = NoQuote
  GrantAmount = 3
  Costs = {1, 3}
CHECK_DEADLOCK FALSE
INVARIANTS
  AppliesInOrder
  PlacesAreDistinct
  JudgementIsOfTheText
  RepairsConverge
  ReadingIsOfTheLog
  ReadySchedulesReveal
  StatusKnowsChanges
  SecretsStayTrusted
  RunningJobIsPolled
  NeverOverspent
  QuoteSpentOnce
  AnswerIsStable
