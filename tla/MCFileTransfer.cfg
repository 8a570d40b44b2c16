CONSTANTS
  a = a
  b = b
  Image = {a}
  Size <- OneSize
  MaxSize = 2
  NoImage = NoImage
  Garbage = Garbage
  MissingCap = 1
  ChanCap = 1
  Removable = FALSE
  EarlyMissing = FALSE
  Restarts = {}
SPECIFICATION FairSpec
INVARIANTS TypeOK SendsWhatItHas
PROPERTIES ImplementsDelivery ImageArrives TransmissionEnds
