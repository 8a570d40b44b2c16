CONSTANTS
  Heights = {1, 2}
  States = {1}
  MaxPackets = 2
  MaxPictures = 1
  MaxResets = 1
SPECIFICATION Spec
INVARIANTS TypeOK CountedOnce MaxCovers
PROPERTY WindowCatchesUp
CHECK_DEADLOCK FALSE
