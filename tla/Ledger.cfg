SPECIFICATION SpecAll
CONSTANTS
  None = None
  scope = scope  fact = fact  other = other
  bolton = bolton  idox = idox  test = test
  Keys = {scope, fact, other}
  Owners = {o1}
  Authorities = {test}
  Councils = {bolton}
  Contracts = {idox}
  Identity <- MCIdentity
  Evidence = {"RECEIPT", "PARTIAL"}
  ClosedEvidence = {"RECEIPT"}
  EnqueueRequests <- ChainRequests
  GrantRequests <- ChainGrants
  Leases = {1}
  Delays = {0}
  Cooldowns = {0, 1}
  MaxTries = 2
  RowCap = 4095
  AttemptCap = 12288
  GrantCap = 32
  MaxClock = 2
INVARIANTS AtMostOneSourceCall AttemptsAreAccounted UnknownWriteIsGuarded
PROPERTIES StopFreezesEffects CooldownIsHonoured KeepsWorkAuthority
CHECK_DEADLOCK FALSE
