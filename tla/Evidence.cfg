SPECIFICATION SpecAll
CONSTANTS
  Apps <- TwoApps
  Docs = {11, 12, 21}
  Owner <- OwnerOf
  Category <- Decisions
  Readable = {11, 12}
  Parent <- Cites
  Legacy <- Nobody
  HasUrl <- TwoApps
  RefreshLimit = 20
  Reasons = {"decision_granted", "decision_refused"}
  MaxChanges = 2
  MaxOutages = 1
  MaxCrashes = 1
  MaxLlmErrors = 1
INVARIANTS SharedIsStillWanted SharedIsRead
PROPERTIES ClearedByACompleteCheck RequestsAreAnswered HandoffsAreProcessed
CHECK_DEADLOCK FALSE
