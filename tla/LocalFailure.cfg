SPECIFICATION SpecAll
CONSTANTS
  Parts = {"source"}
  RefreshTries = 2
  Leases = {3}
  ScopeClock = 2
  Cooldowns = {0, 1}
  RowCap = 4095
  MaxClock = 3
  MaxTries = 2
  None = None
  scope = scope  near = near  far = far  meta = meta  app = app  house = house  fact = fact
  bolton = bolton  idox = idox  northgate = northgate  o1 = o1  test = test
  Keys = {scope, near, far, meta, app, house, fact}
  Owners = {o1, o2}
  Authorities = {test}
  Councils = {bolton}
  Contracts = {idox, northgate}
  Isolated = {idox}
  Identity <- MCIdentity
  Children <- MCChildren
  EnqueueRequests <- MCRequests
  GrantRequests <- MCGrants
  Evidence = {"LISTING", "FAILURE", "SCREENED", "WITHHELD", "VERIFIED"}
  ClosedEvidence = {"LISTING", "FAILURE", "WITHHELD"}
  Crashes = TRUE
  Delays = {0}
  AttemptCap = 12288
  GrantCap = 32
INVARIANT StopHasCause
CHECK_DEADLOCK FALSE
