CONSTANTS
  a = a
  b = b
  Image = {a}
  Size <- OneSize
  MaxSize = 2
  NoImage = NoImage
  Garbage = Garbage
  MissingCap = 1
  ChanCap = 1
  Removable = TRUE
  EarlyMissing = TRUE
  Restarts = {"rx", "tx"}
SPECIFICATION Spec
INVARIANTS StreamInFile ListEndsWithLast StartsAtZero
