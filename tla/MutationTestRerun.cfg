SPECIFICATION FairSpec
CONSTANTS
  TotalSites = 3
  MaxMutants = 2
  MaxRuns = 2
  MaxInterrupts = 1
  MaxKills = 1
INVARIANT Recoverable
CHECK_DEADLOCK FALSE
