CONSTANTS
  i1 = i1
  i2 = i2
  i3 = i3
  v1 = v1
  v2 = v2
  Empty = Empty
  Torn = Torn
  Items = {i1, i2, i3}
  ReadOnly = {i3}
  Required <- TwoItems
  Vals = {v1, v2}
  BigVals = {}
  HandleMax = 1
  UpdateMax = 2
  Cancellable = FALSE
  MapSupport = TRUE
SPECIFICATION Spec
SYMMETRY ValuePerms
PROPERTIES
  RollbackRestores
