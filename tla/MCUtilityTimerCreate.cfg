CONSTANTS
  MaxThreads = 2
  MaxSem = 3
SPECIFICATION FairSpec
CHECK_DEADLOCK FALSE
PROPERTIES
  CreateGoesOn
