SPECIFICATION SpecAll
CONSTANTS
  App = {1, 2, 3, 4, 5, 6, 7, 8, 9, 10}
  Role <- Roles
  Names <- PhasesNamed
  Stated <- HomesStated
  Qualified = {4}
  Cites <- Citations
  Received <- DaysOf
  Counts = {12, 13, 30}
  Immaterial = {12, 13}
  Threshold = 10
  Commencement = 1
  Warning = 0
  NonOverlap <- TwoPhases
  MaxDay = 3
  Docs = {1, 2, 3, 4, 5}
  Type <- FiveTypes
  Secures = {1, 3}
  NonS106 = {4}
  Reasons = {"decision_withdrawn", "recommendation_made", "unit_count_changed"}
  Percentages = {0, 20, 35}
  Budget = 4
  Opps = {"o1", "o2", "o3"}
  NonExact = {"o2"}
  Detector <- Detectors
  Manifests <- Fixes
  Syncs = {s1, s2}
  Rebaselines = TRUE
  MaxFact = 1
  MaxPasses = 1
  MaxStops = 1
INVARIANTS PermissionsAddUp NoSilentChange SecuredHasAnOrigin
PROPERTIES LowerAuthorityKeepsThePercentage AncillaryIsInert
CHECK_DEADLOCK FALSE
