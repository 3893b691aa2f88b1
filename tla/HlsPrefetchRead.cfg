SPECIFICATION FairSpec
CONSTANTS
  Services = {"youtube", "soundcloud"}
  Segments = 4
  Batch = 2
  LowWater = 1
  MaxRead = 2
CHECK_DEADLOCK FALSE
PROPERTIES ReadReturns
