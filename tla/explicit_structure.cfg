SPECIFICATION Spec
CONSTANTS
  HeapSize = 112
  SegStart = 1
  MaxRequest = 64
  i1 = i1
  i2 = i2
  i3 = i3
  Ids = {i1, i2, i3}
  NoId = NoId
  Fill <- FillSame
  Requests = {1, 17}
INVARIANTS HeapStructure
PROPERTIES FailsOnlyIfNoFit
SYMMETRY IdSymmetry
CHECK_DEADLOCK FALSE
