SPECIFICATION MCSpec
CONSTANTS
  b1 = b1
  ch = ch
  fact = fact
  twist = twist
  Clients = {c1, c2}
  Beats = {b1}
  Outline = {b1, ch}
  Cast = {hero}
  Facts = {fact}
  Reveals = {twist}
  Parent <- MCParent
  NoEntity = NoEntity
  Concepts = {k1}
  Complete = {k1}
  NoConcept = NoConcept
  NoProse = NoProse
  NoHolder = NoHolder
  MaxCanon = 4
  MaxFoundation = 2
  Proposals = {p1, p2}
  AiGroup = AiGroup
  Packages = {k}
  Tabs = {c1, c2}
  Texts = {"", "a"}
  Blank = ""
  Candidate = "a"
  Clean = {"a"}
  MaxRevision = 1
  MaxCalls = 1
  MaxVersions = 2
  Callers = {c1, c2}
  Tokens = {u1, u2, u3}
  Sessions = {p1, p2}
  Passwords = {old, new}
  MaxActive = 1
  MaxPerHour = 2
  MaxFails = 1
  Jobs = {p1, p2}
  Workers = {c1, c2}
  NoJob = NoJob
  LeaseTerm = 2
  MaxFence = 6
SYMMETRY Symmetry
CHECK_DEADLOCK FALSE
INVARIANTS
  SingleOwner
  CanonIsSerial
  OutlineRestsOnLock
  PublishedWasAccepted
  TokenSpentOnce
  SessionsRestOnProof
PROPERTIES
  ImplementsOwnership
  AcceptedBeatsUntouched
  AcceptsOverSeenProse
  OverwritesOnlySeen
