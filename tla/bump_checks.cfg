SPECIFICATION Spec
CONSTANTS
  HeapSize = 40
  SegStart = 1
  MaxRequest = 40
  i1 = i1
  i2 = i2
  i3 = i3
  Ids = {i1, i2, i3}
  NoId = NoId
  Fill <- FillDistinct
  Requests = {0, 1, 9, 24}
INVARIANTS HeapSound
PROPERTIES ImplementsAllocator
CHECK_DEADLOCK FALSE
