SPECIFICATION FairSpec
CONSTANTS
  Key <- MCKey
  Inputs <- MCInputs
INVARIANTS
  TypeOK
  WaitingTracksCache
  StartMatches
PROPERTY Terminates
CHECK_DEADLOCK FALSE
