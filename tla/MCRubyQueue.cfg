SPECIFICATION OrderedSpec
CONSTANTS
  c1 = c1  c2 = c2  v1 = v1  v2 = v2  v3 = v3  v4 = v4
  NoLimit = NoLimit
  Clients <- MCClients
  Items <- MCItems
  MaxSize = 2
  MaxWaiters = 1
INVARIANTS
  TypeOK
  CapacityRespected
PROPERTIES
  ImplementsFifo
  CloseReleases
CHECK_DEADLOCK FALSE
