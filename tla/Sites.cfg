SPECIFICATION SpecAll
CONSTANTS
  Apps = {1, 2, 3, 4, 5, 6, 7, 8}
  Held = {}
  Addresses = {"north", "south", "east", "west", "mill"}
  Blank = "blank"
  AddressOf <- HomeOf
  CitedBy <- Citations
  Near <- Neighbours
  Reviewers = {"o1", "o2"}
  MaxRelinks = 1
  MaxStops = 1
  MaxDecisions = 1
  NoSite = NoSite
  Allocations = {"a1", "a2"}
  Sites = {"s1"}
  Docs = {1, 2, 3, 4}
  SiteOf <- OneSite
  Explicit <- Places
  Contextual <- Mentions
  Against <- Denies
  Weight <- Weights
  Fuzzy <- NoFuzzy
  Matched <- FirstIsS1
  ToReject <- Rejectable
  ToConfirm <- Doubtful
  Poison = {1}
  Limit = 3
  BatchWrites = TRUE
PROPERTIES SchemeLinked LinkStands CleanupRespectsDecisions CollisionsAreProven
CHECK_DEADLOCK FALSE
