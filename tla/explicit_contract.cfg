SPECIFICATION FairSpec
CONSTANTS
  HeapSize = 88
  SegStart = 1
  MaxRequest = 48
  i1 = i1
  i2 = i2
  i3 = i3
  Ids = {i1, i2}
  NoId = NoId
  Fill <- FillDistinct
  Requests = {0, 1, 17, 40, 50}
INVARIANTS StateSound PayloadIntact CheckerAccepts
PROPERTIES ImplementsAllocator MovesOnlyWhenBoxedIn CallsEnd
CHECK_DEADLOCK FALSE
