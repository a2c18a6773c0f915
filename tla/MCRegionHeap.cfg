SPECIFICATION FairSpec
CONSTANTS
  t1 = t1  t2 = t2
  Threads <- MCThreads
  Payloads = {1, 2, 5}
  HeaderSize = 2
  ObjAlign = 4
  RegionSize = 10
  InitRegions = 1
  MaxRegions = 2
INVARIANTS
  TypeOK
  NoOverlap
  SpaceAccounted
PROPERTIES
  AllocationEnds
