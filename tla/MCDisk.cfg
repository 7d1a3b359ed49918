SPECIFICATION FairSpec
CONSTANTS
  NUMBER_OF_SECTORS = 3
  SECTOR_SIZE = 2
  Values <- MCValues
  Lengths <- SectorLengths
  MARGIN = 2
  LATENESS = 1
INVARIANT ArrivesInTime
PROPERTY ImplementsStore
PROPERTY RequestServed
