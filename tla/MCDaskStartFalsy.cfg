SPECIFICATION FairSpec
CONSTANTS
  Key <- MCKey
  Inputs <- MCInputs
INVARIANT RaisesOnlyIfMissing
CHECK_DEADLOCK FALSE
