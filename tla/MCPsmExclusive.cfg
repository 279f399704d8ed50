CONSTANTS
  Threads = {t1, t2}
  None = None
  MaxCount = 2
  HandleMax = 2
  SlotMax = 2
  MaxCalls = 3
  ThreadOps <- AnyOps
  LiveCount = 3
  LiveHandles = 1
  LiveSlots = 1
  LiveCalls = 2
  Lockers = {t1}
SPECIFICATION BothSpec
CHECK_DEADLOCK FALSE
INVARIANTS
  CountIsExact
  NoDeadlock
  RefCountIsExact
PROPERTIES
  EveryThreadReturns
  FunctionHasTheTables
