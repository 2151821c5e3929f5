SPECIFICATION FairSpec
CONSTANTS
  HeapSize = 64
  SegStart = 1
  MaxRequest = 40
  i1 = i1
  i2 = i2
  i3 = i3
  Ids = {i1, i2, i3}
  NoId = NoId
  Fill <- FillDistinct
  Requests = {1, 9, 24, 40}
INVARIANTS StateSound PayloadIntact CheckerAccepts
PROPERTIES ImplementsAllocator FirstFit CallsEnd
CHECK_DEADLOCK FALSE
