SPECIFICATION FairSpec
CONSTANTS
  MaxKeys = 4
  Key <- MCKey
  Graphs <- MCGraphs
  Order <- MCOrder
  NumWorkers = 2
  ChunkSizes <- MCChunkSizes
  RerunLocally = {TRUE, FALSE}
INVARIANTS
  TypeOK
  Books
  CacheExact
  FinishNeverFails
  WorkersBound
PROPERTIES
  KeepsPromise
  NeverResubmits
  Termination
CHECK_DEADLOCK FALSE
