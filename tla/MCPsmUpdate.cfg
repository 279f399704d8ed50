CONSTANTS
  i1 = i1
  i2 = i2
  i3 = i3
  v1 = v1
  v2 = v2
  Empty = Empty
  Torn = Torn
  Items = {i1, i2}
  ReadOnly = {}
  Required <- OneItem
  Vals = {v1}
  BigVals = {}
  HandleMax = 2
  UpdateMax = 2
  Cancellable = TRUE
  MapSupport = FALSE
SPECIFICATION Spec
PROPERTIES
  OwnAreaOnly
  AtomicSpec
