SPECIFICATION SpecAll
CONSTANTS
  Months = 2
  Apps <- Two
  MonthOf <- Own
  Cites <- OneCites
  Size <- SizeOf
  Unheld <- NoOne
  Papers <- TwoPapers
  PaperOf <- OwnerOf
  Form <- FormsOf
  Stating <- Second
  Requested <- One
  Anchors <- Three
  Filings <- Filing
  Names <- NamesOf
  Breakable <- Some
  Cooldown = 2
  MaxOutages = 2
  MaxCrashes = 1
  Councils <- Two
  MaxErrors = 1
  MaxKills = 1
INVARIANTS SuccessIsTruthful ExitZeroMeansHealthy
PROPERTIES OpensOnAStreak FilingsAreFound JobEnds
CHECK_DEADLOCK FALSE
