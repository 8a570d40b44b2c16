CONSTANTS
  a = a
  b = b
  Image = {a, b}
  Size <- OneSize
  MaxSize = 2
  NoImage = NoImage
  Garbage = Garbage
  MissingCap = 1
  ChanCap = 1
  Removable = FALSE
  EarlyMissing = FALSE
  Restarts = {}
SPECIFICATION Spec
INVARIANT ExportedIsImage
