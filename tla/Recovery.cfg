SPECIFICATION SpecAll
CONSTANTS
  Targets = {"a", "b"}
  Existing = {"a"}
  Apps = {1, 2, 3, 4}
  Faulty = {4}
  Narrow = {3}
  Late = {3, 4}
  BatchSize = 3
  MaxBatches = 4
  StopAfter = 3
  RateMin = 3
  RateStop = 3
  MaxFaults = 3
  MaxKills = 1
  Workers = {w1, w2}
  MaxTries = 3
  MaxFacts = 2
INVARIANTS OutputsAreAllOrNothing RebuildKeepsItsWord IdentityHasFacts
PROPERTY JobsEnd
CHECK_DEADLOCK FALSE
