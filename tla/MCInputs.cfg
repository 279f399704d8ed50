SPECIFICATION Spec
CONSTANTS
  Handles = {h1, h2}
  ButtonQueue = 2
  MaxSeconds = 1
  MaxEdges = 2
  MaxFaults = 1
  Clients = {t1, t2}
  ParamValues = {v1}
  MaxClockFails = 1
  NDevices = 2
  NPins = 3
  LedPins = {1, 2}
  Reversed = {2, 3}
  NHandles = 4
  MaxHalFails = 2
  MaxNodes = 3
  MaxValues = 3
  MaxSlots = 2
  Keys = {"a"}
  MemSizes = {2, 5}
  Base = 2
  PrefixSize = 2
  TextSize = 1
CHECK_DEADLOCK FALSE
INVARIANTS
  ButtonPartsAgree
  TablesAgree
  ReadsBackWhatWasWritten
  ContainerIsSound
  SizeIsText
PROPERTIES
  ParamsStandStill
  WritersComeBack
