SPECIFICATION FairSpec
CONSTANTS
  Request = {"r1"}
  Item = {"i1"}
  Direct = {"d1"}
  Total = 2
  MaxActive = 0
  MaxVetoes = 0
  MaxPauses = 0
  MaxRefusals = 0
PROPERTY CloseEnds
CHECK_DEADLOCK FALSE
