SPECIFICATION Spec
CONSTANTS
  Dogs = {d1}
  WdtQueue = 1
  SwIds = {s1}
  HoursMax = 0
  MaxRefused = 1
  Callers = {t1, t2}
  Supported = {"reboot", "reset", "downgrade"}
  MainQueue = 1
  Refusing = {"Network", "Led"}
  MaxBoots = 2
  SmCallers = {s1, s2}
  MaxText = 1
  HwInfoKinds = {TRUE, FALSE}
  MaxSmFails = 1
  RebootCauses = {"WDT"}
  MaxResets = 4
  MaxResetFails = 2
  MaxMgFails = 3
  Leds = {l1, l2}
  MaxHwFails = 1
CHECK_DEADLOCK FALSE
INVARIANTS
  StatusIsTrue
  LedPlaysItsStatus
  PartsGoInOrder
  CallsEndClean
  NothingIsLost
PROPERTIES
  AbortIsDeserved
  FeedingEnds
  RequestsEndTheRun
  NothingIsForgotten
