SPECIFICATION FairSpec
CONSTANTS
  MaxKeys = 3
  Key <- MCKey
  Graphs <- MCGraphs
  Order <- MCOrder
  NumWorkers = 2
  ChunkSizes <- AutoChunk
  RerunLocally = {FALSE}
INVARIANT RaisesOnlyTaskErrors
CHECK_DEADLOCK FALSE
