CONSTANTS
  a = a
  b = b
  c = c
  d = d
  e = e
  f = f
  g = g
  NoGroup = NoGroup
  Ids <- MCIds
  Size <- MCSize
  Group <- MCGroup
  Cap <- MCCap
  Budget = 6
  Bytes <- MCBytes
SPECIFICATION Spec
INVARIANTS BooksBalance NeverPanics LoopsAgree
PROPERTIES Implements
