SPECIFICATION FairSpec
CONSTANTS
  TotalSites = 3
  MaxMutants = 2
  MaxRuns = 2
  MaxInterrupts = 1
  MaxKills = 1
INVARIANTS
  TypeOK
  OriginalSurvives
  OriginalInPlace
  LeavesAsFound
  ReportFaithful
PROPERTIES
  ReportComplete
  RunEnds
CHECK_DEADLOCK FALSE
