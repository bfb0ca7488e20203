SPECIFICATION FairSpec
CONSTANTS
  Request <- MCRequest
  Kindings <- MCKindings
  MaxRestarts = 1
INVARIANT TypeOK
PROPERTIES
  KeepsPromise
  Drains
CHECK_DEADLOCK FALSE
