SPECIFICATION SpecAll
CONSTANTS
  Verifiers <- Two
  Scopes <- AllScopes
  Scraping = TRUE
  Pages <- Shown
  MaxPages = 3
  MaxCommits = 3
  Limit = 2
  MaxFailures = 1
  MaxStops = 1
INVARIANT HistoryReplays
PROPERTIES NothingOlderIsVerified NoneIsStarved
CHECK_DEADLOCK FALSE
