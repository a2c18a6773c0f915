SPECIFICATION FairSpec
CONSTANTS
  c1 = c1  c2 = c2  fd = fd  None = None
  Clients <- MCClients
  Tids = {1, 2}
  Spawned = {1}
  Fds = {}
  Calls <- MCLockCalls
  DispatchMax = 2
  MaxQueue = 2
PROPERTIES
  LoopKeepsRunning
CHECK_DEADLOCK FALSE
