SPECIFICATION Spec
CONSTANTS
  t1 = t1  t2 = t2
  Threads <- MCThreads
  Payloads = {1, 5}
  HeaderSize = 1
  ObjAlign = 2
  RegionSize = 6
  InitRegions = 1
  MaxRegions = 1
INVARIANTS
  ObjectsDisjoint
