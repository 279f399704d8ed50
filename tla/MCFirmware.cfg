CONSTANTS
  Images <- GoodImages
  Targets = {"processor", "sensor", "model"}
  MapSupport = FALSE
  MaxPieces = 3
  Tasks = {t1, t2}
  Ids = {1}
  Offsets = {0, 1}
  AreaSize = 2
  Sizes = {1}
  Positions = {1}
  MaxHeapFails = 1
SPECIFICATION BothSpec
CHECK_DEADLOCK FALSE
INVARIANTS
  IdleMeansClosed
  AloneIsInPlace
PROPERTIES
  InstallsWhatWasPromised
  FreedIsUnused
