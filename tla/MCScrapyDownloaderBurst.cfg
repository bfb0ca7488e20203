SPECIFICATION FairSpec
CONSTANTS
  Scheduled = {"r1", "r2"}
  Direct = {}
  SlotKey = {"plain", "polite"}
  Concurrency <- MCConcurrency
  Delay <- MCDelay
  Delays <- MCDelays
  Totals = {0, 2}
  GcAge = 1
  LongAgo = 4
  Loops = {TRUE, FALSE}
INVARIANT ConcurrencyRespected
CHECK_DEADLOCK FALSE
