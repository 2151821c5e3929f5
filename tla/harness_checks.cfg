SPECIFICATION SideBySide
CONSTANTS
  Start = 2
  End = 6
  ALIGNMENT = 2
  i1 = i1
  i2 = i2
  i3 = i3
  Ids = {i1, i2}
  Fill <- FillById
  Sizes = {0, 1, 2, 3}
  Junk = 255
  MaxTotal = 3
  NPages = 7
  Hint = 3
  SegmentSizes = {2}
INVARIANTS TableSound VerdictsRight Utilization SegmentSound
PROPERTIES OthersKept
CHECK_DEADLOCK FALSE
