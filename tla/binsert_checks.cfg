SPECIFICATION FairSpec
CONSTANTS
  a = a
  b = b
  c = c
  d = d
  Line = {a, b, c, d}
  NoLine = NoLine
  cmp_pstr <- ByName
  cmp_pstr_len <- ByLength
  cmp_pstr_numeric <- ByNumber
  Options <- CommandLines
  MIN_NLINES = 2
  MaxLines = 5
INVARIANTS ArraysSound InsertSound Output
PROPERTIES Ends
CHECK_DEADLOCK FALSE
