SPECIFICATION SpecAll
CONSTANTS
  NoKey = NoKey
  Workers = {w1, w2, w3}
  Keys = {k1}
  Expiry = 1
  MaxLatency = 2
  MaxRuns = 3
  MaxForces = 1
  MaxCrashes = 1
  Mandates = {m1, m2}
  PreB1 = {m1}
  SyncTargets = {m2}
  Operators = {p1, p2}
  MaxVersion = 2
  MaxUniverse = 1
  MaxStamp = 3
  MaxReviews = 2
  Drifts = TRUE
SYMMETRY SameOperators
INVARIANTS OnePayer FreshWasReassessed
PROPERTY OnlyReviewedIsApplied
CHECK_DEADLOCK FALSE
