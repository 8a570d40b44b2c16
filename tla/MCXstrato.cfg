CONSTANTS
  Images = 3
  Parts = 3
  MaxNow = 2
SPECIFICATION Spec
INVARIANTS TypeOK 
PROPERTIES WholeImageShown SavedImageSafe QuietTurnsGreen
CHECK_DEADLOCK FALSE
