SPECIFICATION Spec
CONSTANTS
  NL = NL
  Blank = Blank
  Hash = Hash
  x = x
  y = y
  Char = {x, y}
  Request <- Requests
  Junk = Junk
  NULL = NULL
  MINIMUM_SIZE = 2
  ESTIMATE = 1
  MAX_NUM_LINES = 3
  MAX_SCRIPT_LINE_LEN = 4
  OPS_RESIZE_AMOUNT = 2
  MAX_REQUEST_SIZE = 2
  INT_MAX = 2
  MaxFile = 3
  MaxScript = 1
  Files <- AllFiles
  Scripts <- AllScripts
  Numbers = {0, 1, 2, 3, 4}
INVARIANTS WholeLine
