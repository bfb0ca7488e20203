SPECIFICATION FairSpec
CONSTANTS
  Request = {"r1", "r2", "r3"}
  Item = {"i1"}
  Direct = {"d1"}
  Total = 2
  MaxActive = 0
  MaxVetoes = 1
  MaxPauses = 1
  MaxRefusals = 1
INVARIANTS
  TypeOK
  ClosedDrained
  FinishedMeansFinished
  PipelinesCloseLast
  NeverSleepsOnWork
PROPERTY CrawlEnds
CHECK_DEADLOCK FALSE
