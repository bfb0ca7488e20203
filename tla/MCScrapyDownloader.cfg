SPECIFICATION FairSpec
CONSTANTS
  Scheduled = {"r1", "r2"}
  Direct = {"d1"}
  SlotKey = {"plain", "polite"}
  Concurrency <- MCConcurrency
  Delay <- MCDelay
  Delays <- MCDelays
  Totals = {0, 1}
  GcAge = 1
  LongAgo = 4
  Loops = {TRUE, FALSE}
INVARIANTS
  TypeOK
  NothingLost
  ConcurrencyWithDelay
  BackoutBounds
PROPERTIES
  SpacedPops
  FirstInFirstOut
  Drains
CHECK_DEADLOCK FALSE
