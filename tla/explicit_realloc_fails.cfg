SPECIFICATION Spec
CONSTANTS
  HeapSize = 64
  SegStart = 1
  MaxRequest = 64
  i1 = i1
  i2 = i2
  i3 = i3
  Ids = {i1, i2}
  NoId = NoId
  Fill <- FillSame
  Requests = {1, 17, 40, 50}
INVARIANTS ReallocFailureIsReported
CHECK_DEADLOCK FALSE
