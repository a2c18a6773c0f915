SPECIFICATION FairSpec
CONSTANTS
  c1 = c1  c2 = c2  fd = fd  None = None
  Clients <- MCClients
  Tids = {1, 2}
  Spawned = {1}
  Fds <- MCFds
  Calls <- MCCalls
  DispatchMax = 1
  MaxQueue = 1
INVARIANTS
  TypeOK
  QueuesAgree
PROPERTIES
  LoopComesRound
  RunnableRuns
CHECK_DEADLOCK FALSE
