SPECIFICATION FairSpec
CONSTANTS
  Tasks = 2
  Procs = 1
  Confs <- MCConfs
  MaxMishaps = 2
INVARIANTS
  TypeOK
  NothingLost
  RegistryExact
PROPERTIES
  SettledOnceWhenDone
  Drains
CHECK_DEADLOCK FALSE
