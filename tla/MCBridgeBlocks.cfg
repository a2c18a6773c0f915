SPECIFICATION BridgeSpec
CONSTANTS
  t1 = t1  t2 = t2  f = f  g = g  x = x  y = y  k1 = k1  Nothing = Nothing
  Threads <- MCThreads
  Contents <- MCContents
  Captures <- MCTwoCaptures
  Classes <- MCClasses
  MaxValues = 3
  Names <- MCNames
  MaxClasses = 1
  MaxObjects = 1
  MaxDepth = 1
INVARIANTS
  BlocksKeepCaptures
\* The bounds on VALUEs stop the model where the program goes on, and a thread
\* that is stuck is stuck for good.
CHECK_DEADLOCK FALSE
