CONSTANTS
  t1 = t1
  t2 = t2
  t3 = t3
  Threads = {t1, t2, t3}
  QueueSize = 1
  HandleLimit = 2
  MaxOpens = 2
  MaxCalls = 3
SPECIFICATION FairSpec
CHECK_DEADLOCK FALSE
INVARIANTS
  CountsAddUp
PROPERTIES
  QueueSpec
  ReceiversAreServed
