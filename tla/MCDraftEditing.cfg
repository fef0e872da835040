SPECIFICATION DraftSpec
CONSTANTS
  Tabs = {t1, t2}
  Texts = {"", "a", "b"}
  Blank = ""
  Candidate = "b"
  Clean = {"a"}
  MaxRevision = 2
  MaxCalls = 1
  MaxVersions = 1
SYMMETRY Symmetry
CHECK_DEADLOCK FALSE
INVARIANTS
  SavedMeansSaved
